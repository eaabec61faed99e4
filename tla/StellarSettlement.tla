-------------------------- MODULE StellarSettlement --------------------------
(* The Stellar facilitator: requests that carry a signed authorization we  *)
(* broadcast ourselves or through OpenZeppelin, and requests that carry the*)
(* hash of a payment a contract already made; the replay keys, the keys in *)
(* flight, the fee payer's queue, the daily fee budget and the ledger.     *)
(* Source: mcp/src/x402-stellar/settle.ts, confirm.ts, rail.ts.            *)
EXTENDS Integers, Sequences, FiniteSetsExt

CONSTANTS Req,      \* requests; each may retry
          Auths,    \* authorizations that accounts signed
          Hashes,   \* transactions that contracts made
          Settings, \* the behaviours looked at, see Setting
          Daily,    \* dailyFeeStroops, in settlements
          MaxTx,    \* bound: transactions broadcast for Auths
          MaxCalls, \* bound: calls served, and lapses, of one payment
          MaxCrash  \* bound: restarts

Pays == Auths \cup Hashes
Tx   == 1..MaxTx

(* read: a read fails. stale: the keys read may be overtaken by a write.   *)
(* send: a submission throws. write: a row or a key is not written.        *)
(* relay: OpenZeppelin submits and answers badly. crash: the process        *)
(* restarts.                                                               *)
FaultKinds == {"read", "stale", "send", "relay", "write", "crash"}

ASSUME StellarAssumption ==
    /\ IsFiniteSet(Req) /\ Req # {}
    /\ Auths \cap Hashes = {}
    /\ IsFiniteSet(Settings)
    /\ \A g \in Settings : /\ g.carries \in [Req -> Pays]
                           /\ g.broadcaster \in {"self", "oz"}
                           /\ g.faults \subseteq FaultKinds
    /\ Daily \in Nat \ {0}
    /\ MaxTx \in Nat \ {0}
    /\ MaxCalls \in Nat \ {0}
    /\ MaxCrash \in Nat

(* A setting. carries[r]: the payment r presents. faults: what may fail.   *)
VARIABLES
    setting,   \* the setting of this behaviour; it never changes
    phase,     \* the ledger against the authorizations' expiration
    moved,     \* the payments whose transfer the ledger holds
    hash,      \* what became of the contracts' transactions
    tx,        \* what became of ours, and what each pays
    settled,   \* payments with a settled row
    fees,      \* rows of today that carry a fee
    unrecorded,\* history: fees bid that no row tells of
    spent,     \* spent_payments
    inFlight,  \* keys this process is settling
    line,      \* serializePerAccount's chain, the one at work first
    q,         \* the request: where its handler awaits, and its locals
    calls,     \* calls served for each payment
    lapses,    \* history: keys not written, and overtaken reads let in
    told,      \* history: payments somebody was told of other than by a
               \* refusal, or whose request a restart cut short
    unread,    \* history: transactions OpenZeppelin submitted and said no of
    crashes    \* restarts so far

ledger == <<phase, moved, hash, tx>>
books  == <<settled, fees, unrecorded, spent>>
word   == <<told, unread>>
vars   == <<setting, ledger, books, inFlight, line, q, calls, lapses, word, crashes>>

Stages == {"idle", "keys", "guard", "simulate", "budget", "send", "confirm",
           "settled", "key", "ambiguous", "reverted", "serve"}

(* saw: the keys it read hold its key. refused: the last answer was a 402, *)
(* a fresh challenge, or a 502, a failure; not a 202, a 200 or a 500.      *)
Request == [stage : Stages, saw : BOOLEAN, tx : 0..MaxTx, refused : BOOLEAN]

Idle == [stage |-> "idle", saw |-> FALSE, tx |-> 0, refused |-> FALSE]

TxStates == {"unsent", "open", "landed", "failed", "gone"}

TypeOK ==
    /\ setting \in Settings
    /\ phase \in {"valid", "closing", "expired"}
    /\ moved \in SUBSET Pays
    /\ hash \in [Hashes -> {"open", "landed", "failed", "other"}]
    /\ tx \in [Tx -> [state : TxStates, pays : SUBSET Auths]]
    /\ settled \in SUBSET Pays
    /\ fees \in 0..MaxTx
    /\ unrecorded \in 0..MaxTx
    /\ spent \in SUBSET Pays
    /\ inFlight \in SUBSET Pays
    /\ line \in Seq(Req)
    /\ q \in [Req -> Request]
    /\ calls \in [Pays -> 0..MaxCalls]
    /\ lapses \in [Pays -> 0..MaxCalls]
    /\ told \in SUBSET Pays
    /\ unread \in SUBSET Tx
    /\ crashes \in 0..MaxCrash

Init ==
    /\ setting \in Settings
    /\ phase = "valid"
    /\ moved = {}
    /\ hash \in [Hashes -> {"open", "other"}]
    /\ tx = [t \in Tx |-> [state |-> "unsent", pays |-> {}]]
    /\ settled = {} /\ fees = 0 /\ unrecorded = 0 /\ spent = {}
    /\ inFlight = {}
    /\ line = <<>>
    /\ q = [r \in Req |-> Idle]
    /\ calls = [p \in Pays |-> 0]
    /\ lapses = [p \in Pays |-> 0]
    /\ told = {} /\ unread = {}
    /\ crashes = 0

-----------------------------------------------------------------------------
Fails(kind) == kind \in setting.faults
Pay(r)      == setting.carries[r]
Signed(r)   == Pay(r) \in Auths
Ours        == setting.broadcaster = "self"

world == <<setting, ledger, crashes>>

Go(r, stage) == q' = [q EXCEPT ![r].stage = stage]

(* The handler answers, and its finally block lets go of the key.          *)
Say(r, refused) == q' = [q EXCEPT ![r] = [Idle EXCEPT !.refused = refused]]
Refuse(r)  == Say(r, TRUE)
LetGo(r)   == inFlight' = inFlight \ {Pay(r)}
Reject(r)  == Refuse(r) /\ LetGo(r)
Tell(r)    == told' = told \cup {Pay(r)} /\ UNCHANGED unread
Unsure(r)  == Say(r, FALSE) /\ LetGo(r) /\ Tell(r)

Lapse(p) == /\ lapses[p] < MaxCalls
            /\ lapses' = [lapses EXCEPT ![p] = @ + 1]

LeaveLine(r) == line' = IF line # <<>> /\ line[1] = r THEN Tail(line) ELSE line

-----------------------------------------------------------------------------
(* verifyStellarPayment and the head of redeemStellarPayment.              *)

(* The latest ledger against the authorization's expiration.               *)
Verify(r) ==
    /\ q[r].stage = "idle"
    /\ \/ Signed(r) /\ Fails("read") /\ Refuse(r)
       \/ Signed(r) /\ phase # "valid" /\ Refuse(r)
       \/ /\ Signed(r) => phase = "valid"
          /\ q' = [q EXCEPT ![r] = [Idle EXCEPT !.stage = "keys"]]
    /\ UNCHANGED <<world, books, inFlight, line, calls, lapses, word>>

LoadSpent(r) ==
    /\ q[r].stage = "keys"
    /\ \/ Fails("read") /\ Refuse(r)
       \/ q' = [q EXCEPT ![r].stage = "guard", ![r].saw = Pay(r) \in spent]
    /\ UNCHANGED <<world, books, inFlight, line, calls, lapses, word>>

(* A request let in with a read that a write has overtaken.                *)
Overtaken(r) == Pay(r) \in spent /\ ~q[r].saw

(* Mutant: the keys in flight are not looked at.                           *)
Guard_NoneInFlight(r) ==
    /\ q[r].stage = "guard"
    /\ Overtaken(r) => Fails("stale")
    /\ IF q[r].saw THEN Refuse(r) /\ UNCHANGED <<inFlight, line, lapses>>
       ELSE /\ inFlight' = inFlight \cup {Pay(r)}
            /\ IF Overtaken(r) THEN Lapse(Pay(r)) ELSE UNCHANGED lapses
            /\ Go(r, IF Signed(r) THEN "simulate" ELSE "confirm")
            /\ line' = IF Signed(r) /\ Ours THEN Append(line, r) ELSE line
    /\ UNCHANGED <<world, books, calls, word>>

(* The key is taken in the turn that read it, whatever was written between *)
(* the read and its answer. Our own broadcasts then wait for their turn.   *)
Guard(r) ==
    /\ q[r].stage = "guard"
    /\ Overtaken(r) => Fails("stale")
    /\ \/ /\ q[r].saw
          /\ Refuse(r)
          /\ UNCHANGED <<inFlight, line, lapses>>
       \/ /\ ~q[r].saw
          /\ Pay(r) \in inFlight
          /\ Refuse(r)
          /\ UNCHANGED <<inFlight, line, lapses>>
       \/ /\ ~q[r].saw
          /\ Pay(r) \notin inFlight
          /\ inFlight' = inFlight \cup {Pay(r)}
          /\ IF Overtaken(r) THEN Lapse(Pay(r)) ELSE UNCHANGED lapses
          /\ Go(r, IF Signed(r) THEN "simulate" ELSE "confirm")
          /\ line' = IF Signed(r) /\ Ours THEN Append(line, r) ELSE line
    /\ UNCHANGED <<world, books, calls, word>>

-----------------------------------------------------------------------------
(* buildSignAndSend in its turn, and broadcastViaOz.                       *)

MyTurn(r) == Ours => line[1] = r

(* getAccount and simulateTransaction. It fails for want of money too, and  *)
(* always when the ledger would refuse: a nonce already used, an expiry.   *)
Simulate(r) ==
    /\ q[r].stage = "simulate"
    /\ Ours /\ MyTurn(r)
    /\ \/ /\ Reject(r)
          /\ LeaveLine(r)
       \/ /\ Pay(r) \notin moved
          /\ phase # "expired"
          /\ Go(r, "budget")
          /\ UNCHANGED <<inFlight, line>>
    /\ UNCHANGED <<world, books, calls, lapses, word>>

(* feeSpentOnDay sums the rows; a log that cannot be read counts as spent. *)
Budget(r) ==
    /\ q[r].stage = "budget"
    /\ \/ /\ (fees + 1 > Daily) \/ Fails("read")
          /\ Reject(r)
          /\ LeaveLine(r)
       \/ /\ fees + 1 <= Daily
          /\ Go(r, "send")
          /\ UNCHANGED <<inFlight, line>>
    /\ UNCHANGED <<world, books, calls, lapses, word>>

(* The next transaction, when the bound allows one.                        *)
Next1(t) == tx[t].state = "unsent" /\ \A u \in 1..(t - 1) : tx[u].state # "unsent"

Posted(r, t) == tx' = [tx EXCEPT ![t] = [state |-> "open", pays |-> {Pay(r)}]]
Thrown(r, t) == tx' = [tx EXCEPT ![t] = [state |-> "gone", pays |-> {Pay(r)}]]

Turn(r, stage, t) == q' = [q EXCEPT ![r].stage = stage, ![r].tx = t]

(* Mutants: a submission that threw leaves no row; it is taken for a no.   *)
Send_NoRow(r) ==
    /\ q[r].stage = IF Ours THEN "send" ELSE "simulate"
    /\ \E t \in Tx :
         /\ Next1(t)
         /\ \/ Posted(r, t) /\ Turn(r, "confirm", t) /\ UNCHANGED <<inFlight, word>>
            \/ /\ Fails("send")
               /\ (Posted(r, t) \/ Thrown(r, t))
               /\ Unsure(r)
    /\ LeaveLine(r)
    /\ UNCHANGED <<setting, phase, moved, hash, books, calls, lapses, crashes>>
Send_ThrowRefuses(r) ==
    /\ q[r].stage = IF Ours THEN "send" ELSE "simulate"
    /\ \E t \in Tx :
         /\ Next1(t)
         /\ \/ Posted(r, t) /\ Turn(r, "confirm", t) /\ UNCHANGED inFlight
            \/ Fails("send") /\ (Posted(r, t) \/ Thrown(r, t)) /\ Reject(r)
    /\ LeaveLine(r)
    /\ UNCHANGED <<setting, phase, moved, hash, books, calls, lapses, word, crashes>>

(* Refused, nothing is in flight. A submission that throws may have landed:*)
(* ours is put on record under its hash, one of OZ's has none. What OZ     *)
(* answers with an error status, no JSON or no hash is taken for a refusal *)
(* too, whether it had submitted or not.                                   *)
Send(r) ==
    /\ q[r].stage = IF Ours THEN "send" ELSE "simulate"
    /\ \/ Reject(r) /\ UNCHANGED <<tx, word>>
       \/ \E t \in Tx :
            /\ Next1(t)
            /\ \/ Posted(r, t) /\ Turn(r, "confirm", t) /\ UNCHANGED <<inFlight, word>>
               \/ /\ Fails("send")
                  /\ (Posted(r, t) \/ Thrown(r, t))
                  /\ IF Ours THEN Turn(r, "ambiguous", t) /\ UNCHANGED <<inFlight, word>>
                     ELSE Unsure(r)
               \/ /\ ~Ours /\ Fails("relay")
                  /\ Posted(r, t)
                  /\ Reject(r)
                  /\ unread' = unread \cup {t} /\ UNCHANGED told
    /\ LeaveLine(r)
    /\ UNCHANGED <<setting, phase, moved, hash, books, calls, lapses, crashes>>

-----------------------------------------------------------------------------
(* confirmStellarTransfer, the rows and the keys.                          *)

(* What a look at the transaction may say. Blind: unreachable, not found   *)
(* within the wait, no event data, past retention.                         *)
Seen(r) ==
    {"blind"} \cup
      LET state == IF Signed(r) THEN tx[q[r].tx].state ELSE hash[Pay(r)] IN
      CASE state = "landed" -> {"confirmed"}
        [] state = "failed" -> {"tx_failed"}
        [] state = "other"  -> {"mismatch"}
        [] OTHER            -> {}

(* Mutant: the answer to the broadcast is taken for the payment.           *)
Confirm_Trusts(r) ==
    /\ q[r].stage = "confirm"
    /\ Go(r, "settled")
    /\ UNCHANGED <<world, books, inFlight, line, calls, lapses, word>>

Confirm(r) ==
    /\ q[r].stage = "confirm"
    /\ \/ "confirmed" \in Seen(r) /\ Go(r, "settled") /\ UNCHANGED inFlight
       \/ "blind" \in Seen(r) /\ Go(r, "ambiguous") /\ UNCHANGED inFlight
       \/ /\ "tx_failed" \in Seen(r)
          /\ IF Signed(r) THEN Go(r, "reverted") /\ UNCHANGED inFlight
             ELSE Reject(r)
       \/ "mismatch" \in Seen(r) /\ Reject(r)
    /\ UNCHANGED <<world, books, line, calls, lapses, word>>

(* safePersist: the row, with the fee when we bid one, or it is lost.      *)
Row(r) ==
    IF Signed(r) /\ Ours
    THEN \/ fees' = fees + 1 /\ UNCHANGED unrecorded
         \/ Fails("write") /\ unrecorded' = unrecorded + 1 /\ UNCHANGED fees
    ELSE UNCHANGED <<fees, unrecorded>>

PersistUnsettled(r) ==
    /\ q[r].stage \in {"ambiguous", "reverted"}
    /\ Row(r)
    /\ \/ q[r].stage = "reverted" /\ Reject(r) /\ UNCHANGED word
       \/ q[r].stage = "ambiguous" /\ Unsure(r)
    /\ UNCHANGED <<world, settled, spent, line, calls, lapses>>

PersistSettled(r) ==
    /\ q[r].stage = "settled"
    /\ Row(r)
    /\ \/ settled' = settled \cup {Pay(r)}
       \/ Fails("write") /\ UNCHANGED settled
    /\ Go(r, "key")
    /\ UNCHANGED <<world, spent, inFlight, line, calls, lapses, word>>

(* A key that is not written is only logged.                               *)
PersistSpent(r) ==
    /\ q[r].stage = "key"
    /\ \/ spent' = spent \cup {Pay(r)} /\ UNCHANGED lapses
       \/ /\ Fails("write")
          /\ Lapse(Pay(r))
          /\ UNCHANGED spent
    /\ Go(r, "serve")
    /\ inFlight' = inFlight \ {Pay(r)}
    /\ UNCHANGED <<world, settled, fees, unrecorded, line, calls, word>>

(* The tool, after the settlement: it answers, or fails on our side.       *)
Serve(r) ==
    /\ q[r].stage = "serve"
    /\ \/ /\ calls[Pay(r)] < MaxCalls
          /\ calls' = [calls EXCEPT ![Pay(r)] = @ + 1]
          /\ Say(r, FALSE)
       \/ Say(r, FALSE) /\ UNCHANGED calls
    /\ Tell(r)
    /\ UNCHANGED <<world, books, inFlight, line, lapses>>

-----------------------------------------------------------------------------
(* The ledger, the clock and the process.                                  *)

(* A transfer lands once per authorization, within its validity.           *)
Close(t) ==
    /\ tx[t].state = "open"
    /\ \/ /\ tx[t].pays \cap moved = {}
          /\ phase # "expired"
          /\ moved' = moved \cup tx[t].pays
          /\ tx' = [tx EXCEPT ![t].state = "landed"]
       \/ \E end \in {"failed", "gone"} :
            tx' = [tx EXCEPT ![t].state = end] /\ UNCHANGED moved
    /\ UNCHANGED <<setting, phase, hash, books, inFlight, line, q, calls, lapses, word, crashes>>

CloseHash(p) ==
    /\ hash[p] = "open"
    /\ \/ hash' = [hash EXCEPT ![p] = "landed"] /\ moved' = moved \cup {p}
       \/ hash' = [hash EXCEPT ![p] = "failed"] /\ UNCHANGED moved
    /\ UNCHANGED <<setting, phase, tx, books, inFlight, line, q, calls, lapses, word, crashes>>

Tick ==
    /\ \/ phase = "valid" /\ phase' = "closing"
       \/ phase = "closing" /\ phase' = "expired"
    /\ UNCHANGED <<setting, moved, hash, tx, books, inFlight, line, q, calls, lapses, word, crashes>>

(* A fee bid whose row was still to be written is never put on record.     *)
Bidding == {r \in Req : /\ Signed(r) /\ Ours
                        /\ q[r].stage \in {"confirm", "settled", "ambiguous", "reverted"}}

Restart ==
    /\ Fails("crash")
    /\ crashes < MaxCrash
    /\ crashes' = crashes + 1
    /\ q' = [r \in Req |-> Idle]
    /\ inFlight' = {}
    /\ line' = <<>>
    /\ unrecorded' = unrecorded + Cardinality(Bidding)
    /\ told' = told \cup {Pay(r) : r \in {s \in Req : q[s].stage # "idle"}}
    /\ UNCHANGED <<setting, ledger, settled, fees, spent, calls, lapses, unread>>

Handle(r) ==
    \/ Verify(r)
    \/ LoadSpent(r)
    \/ Guard(r)
    \/ Simulate(r)
    \/ Budget(r)
    \/ Send(r)
    \/ Confirm(r)
    \/ PersistUnsettled(r)
    \/ PersistSettled(r)
    \/ PersistSpent(r)
    \/ Serve(r)

Next ==
    \/ \E r \in Req : Handle(r)
    \/ \E t \in Tx : Close(t)
    \/ \E p \in Hashes : CloseHash(p)
    \/ Tick
    \/ Restart

Spec == Init /\ [][Next]_vars

-----------------------------------------------------------------------------
(* Every payment keeps what PaidOnce promises: it moves once, nothing is   *)
(* served before it moved, and it buys one call. A lapse is a replay key   *)
(* that could not be written, or a request let in with keys it read before *)
(* another request of the same payment wrote its own.                      *)
Promise(p) == INSTANCE PaidOnce WITH
                paid <- p \in moved, calls <- calls[p], lapses <- lapses[p]
PromiseStep(p) == Promise(p)!Next \/ UNCHANGED Promise(p)!vars

KeepsPromises == /\ \A p \in Pays : Promise(p)!Init
                 /\ [][\A p \in Pays : PromiseStep(p)]_vars

(* Nobody is told that a payment failed while it may still land. The        *)
(* request that settles a payment is answered with a 402 or a 502 only when *)
(* no transaction can move that money to us any more, of its own or of an   *)
(* earlier request: but for those of requests still at work, of which their *)
(* own answers tell, and of a payment of which a buyer was told already     *)
(* that it may land or that it did. A transaction that OpenZeppelin took    *)
(* and answered badly about is the one exception, see unread.               *)
Refused(r) ==
    /\ q[r].stage \notin {"idle", "keys", "guard"}
    /\ q'[r].stage = "idle" /\ q'[r].refused

MayLand(t) == tx[t].state \in {"open", "landed"}
OthersHold(r, t) == \E s \in Req \ {r} : q[s].tx = t

Final(r) ==
    IF Signed(r)
    THEN \A t \in Tx :
            MayLand(t)' /\ Pay(r) \in tx'[t].pays /\ Pay(r) \notin told' /\ t \notin unread'
              => OthersHold(r, t)
    ELSE hash[Pay(r)] \notin {"open", "landed"}

NoFalseRefusal == [][\A r \in Req : Refused(r) => Final(r)]_vars

(* What is on record is true: a settled row and a spent key only for money *)
(* that moved, so nobody's retry is refused for a payment that did not.    *)
BooksAreTrue == settled \cup spent \subseteq moved

(* The fees bid in a day pass the budget by no more than the settlements   *)
(* whose rows were still to be written, one per other request at work, and *)
(* the rows that were lost.                                                *)
FeesBid == IF Ours THEN Cardinality({t \in Tx : tx[t].state # "unsent"}) ELSE 0
FeesBounded == FeesBid <= Daily + Cardinality(Req) - 1 + unrecorded
=============================================================================
