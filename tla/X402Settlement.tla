--------------------------- MODULE X402Settlement ---------------------------
(* The EIP-3009 facilitator, for one authorization: the requests that      *)
(* carry it, the transactions signed for it, its rows in the settlement    *)
(* log, the claim on the one call it pays for, proof reads and restarts.   *)
(* Source: mcp/src/x402-3009/engine.ts and rail.ts, mcp/src/storage.ts.    *)
EXTENDS Integers, Sequences, FiniteSetsExt

CONSTANTS Req,      \* the requests that carry the authorization; each may retry
          Nobody,   \* no request
          Settings, \* the behaviours looked at, see Setting
          MaxTx,    \* bound: transactions signed
          MaxRows,  \* bound: rows in the log
          MaxServed,\* bound: calls served
          MaxCrash  \* bound: restarts

(* read: a database or chain read fails. lag: a host answers from an older *)
(* block. signature, proof: the signature cannot be checked, in the first  *)
(* verification or in a retry's. note: the row's insert fails or its       *)
(* answer is lost. stall: a write outlasts its deadline and may commit     *)
(* later. send: no node takes the transaction. write: another log write    *)
(* fails; finish and mark: the write that settles a row with its claim,    *)
(* and the one that says the call was served.                              *)
FaultKinds == {"read", "lag", "signature", "proof", "note", "stall", "send",
               "write", "finish", "mark"}

Tx == 1..MaxTx

ASSUME X402Assumption ==
    /\ IsFiniteSet(Req)
    /\ Nobody \notin Req
    /\ IsFiniteSet(Settings)
    /\ \A g \in Settings : /\ DOMAIN g.want = Req
                           /\ g.rich \in BOOLEAN
                           /\ g.faults \subseteq FaultKinds
                           /\ g.tries \in Tx
                           /\ g.restarts \in 0..MaxCrash
                           /\ g.overtakes \in Nat
    /\ MaxTx \in Nat \ {0}
    /\ MaxRows \in Nat
    /\ MaxServed \in Nat \ {0}
    /\ MaxCrash \in Nat

(* A setting. want[r]: requestHash, the tool and input r asks for. rich:   *)
(* the payer holds the price once more after paying. faults: what may fail.*)
(* tries, restarts, overtakes: bounds, transactions signed, restarts, and  *)
(* claims taken over from a request that still serves.                     *)
VARIABLES
    setting,   \* the setting of this behaviour; it never changes
    phase,     \* where the clock is in the authorization's life
    used,      \* the token's authorizationState
    tx,        \* what became of each transaction
    log,       \* the rows of x402_settlements, oldest first
    spent,     \* the replay key is in the spent set
    inFlight,  \* the request that holds the key in inFlight
    q,         \* the request: where its handler awaits, and its locals
    late,      \* log writes given up on that may still commit
    served,    \* paid calls whose response was written out
    crashes,   \* restarts so far
    overtaken  \* history: claims taken over from a request that still serves

vars == <<setting, phase, used, tx, log, spent, inFlight, q, late, served, crashes,
          overtaken>>

(* closing: inside expiryHeadroomSec. over: past REDEEM_WINDOW_MS.         *)
Phases == <<"valid", "closing", "expired", "over">>

(* signed: no node has it. posted: it may land. gone: its nonce went to    *)
(* another transaction.                                                    *)
TxStates == {"none", "signed", "posted", "landed", "reverted", "gone"}

Wants == {g.want[r] : g \in Settings, r \in Req}

RowType == [tx : Tx, want : Wants, served : BOOLEAN,
            outcome : {"ambiguous", "settled", "reverted", "dropped"},
            claim : Req \cup {Nobody}]

Stages == {"idle", "spent", "state", "funds", "proof", "log", "look", "unused",
           "simulate", "note", "send", "wait", "finish", "close",
           "claim", "key", "serve", "mark", "release"}

(* refused: the refusal a retry was let in with. look: the rows still to   *)
(* read; left: one of those read is unresolved. stale: the lease of its    *)
(* claim ran out while it serves. told: the last answer.                   *)
Request == [stage : Stages, look : SUBSET (1..MaxRows), left : BOOLEAN, tx : 0..MaxTx,
            stale : BOOLEAN,
            refused : {"none", "expired", "expiring_too_soon", "nonce_used", "already_redeemed"},
            told : {"nothing", "retry", "challenge", "mismatch", "served"}]

Idle == [stage |-> "idle", look |-> {}, left |-> FALSE, tx |-> 0,
         stale |-> FALSE, refused |-> "none", told |-> "nothing"]

LateWrite == [kind : {"insert", "close"}, tx : Tx, by : Req]

TypeOK ==
    /\ setting \in Settings
    /\ phase \in {Phases[n] : n \in DOMAIN Phases}
    /\ used \in BOOLEAN
    /\ tx \in [Tx -> TxStates]
    /\ log \in Seq(RowType)
    /\ Len(log) <= MaxRows
    /\ spent \in BOOLEAN
    /\ inFlight \in Req \cup {Nobody}
    /\ q \in [Req -> Request]
    /\ late \in SUBSET LateWrite
    /\ served \in 0..MaxServed
    /\ crashes \in 0..MaxCrash
    /\ overtaken \in Nat

Init ==
    /\ setting \in Settings
    /\ phase = "valid"
    /\ used = FALSE
    /\ tx = [t \in Tx |-> "none"]
    /\ log = <<>>
    /\ spent = FALSE
    /\ inFlight = Nobody
    /\ q = [r \in Req |-> Idle]
    /\ late = {}
    /\ served = 0
    /\ crashes = 0
    /\ overtaken = 0

-----------------------------------------------------------------------------
(* What every step of a request is made of.                                *)

Faults  == setting.faults
Rich    == setting.rich
Want(r) == setting.want[r]

world == <<setting, phase, used, crashes, overtaken>>

Go(r, stage) == q' = [q EXCEPT ![r].stage = stage]

FreeKey(r) == inFlight' = IF inFlight = r THEN Nobody ELSE inFlight

(* The handler answers, and its finally block lets go of the key.          *)
Answer(r, told) ==
    /\ q' = [q EXCEPT ![r] = [Idle EXCEPT !.told = told]]
    /\ FreeKey(r)

(* Mutant: the check of the key is left out.                               *)
TakeKey_Unchecked(r, stage, refused) ==
    /\ inFlight' = r
    /\ q' = [q EXCEPT ![r].stage = stage, ![r].refused = refused]

TakeKey(r, stage, refused) ==
    IF inFlight # Nobody
    THEN Answer(r, "retry")
    ELSE /\ inFlight' = r
         /\ q' = [q EXCEPT ![r].stage = stage, ![r].refused = refused]

(* authorizationState, as one host answers it.                             *)
UsedReads == {used} \cup (IF "lag" \in Faults THEN {FALSE} ELSE {})

(* Updates of the log. A resolution moves only rows still ambiguous.       *)
Resolved(t, outcome, claim) ==
    [k \in DOMAIN log |->
       IF log[k].tx = t /\ log[k].outcome = "ambiguous"
       THEN [log[k] EXCEPT !.outcome = outcome, !.claim = claim]
       ELSE log[k]]

Unserved(row, t) == row.tx = t /\ row.outcome = "settled" /\ ~row.served

NewRow(t, r) == [tx |-> t, want |-> Want(r), served |-> FALSE,
                 outcome |-> "ambiguous", claim |-> Nobody]

-----------------------------------------------------------------------------
(* verifyPayment, read by read.                                            *)

Arrive(r) ==
    /\ q[r].stage = "idle"
    /\ CASE phase = "valid"   -> /\ q' = [q EXCEPT ![r] = [Idle EXCEPT !.stage = "spent"]]
                                 /\ UNCHANGED inFlight
         [] phase = "closing" -> TakeKey(r, "proof", "expiring_too_soon")
         [] OTHER             -> TakeKey(r, "proof", "expired")
    /\ UNCHANGED <<world, tx, log, spent, late, served>>

LoadSpent(r) ==
    /\ q[r].stage = "spent"
    /\ \/ "read" \in Faults /\ Answer(r, "retry")
       \/ spent /\ TakeKey(r, "proof", "already_redeemed")
       \/ ~spent /\ Go(r, "state") /\ UNCHANGED inFlight
    /\ UNCHANGED <<world, tx, log, spent, late, served>>

(* Mutant: a used nonce is refused without a look at the log.              *)
AuthorizationState_NoRetry(r) ==
    /\ q[r].stage = "state"
    /\ \/ TRUE \in UsedReads /\ Answer(r, "challenge")
       \/ FALSE \in UsedReads /\ Go(r, "funds") /\ UNCHANGED inFlight
    /\ UNCHANGED <<world, tx, log, spent, late, served>>

AuthorizationState(r) ==
    /\ q[r].stage = "state"
    /\ \/ "read" \in Faults /\ Answer(r, "retry")
       \/ TRUE \in UsedReads /\ TakeKey(r, "proof", "nonce_used")
       \/ FALSE \in UsedReads /\ Go(r, "funds") /\ UNCHANGED inFlight
    /\ UNCHANGED <<world, tx, log, spent, late, served>>

(* Signature and balance, then the key. Neither bad_signature nor          *)
(* insufficient_funds is answered from the log.                            *)
Funds(r) ==
    /\ q[r].stage = "funds"
    /\ \/ "read" \in Faults /\ Answer(r, "retry")
       \/ "signature" \in Faults /\ Answer(r, "challenge")
       \/ used /\ ~Rich /\ Answer(r, "challenge")
       \/ TakeKey(r, "log", "none")
    /\ UNCHANGED <<world, tx, log, spent, late, served>>

(* retryOfEarlierBroadcast: null when the domain or the signature cannot   *)
(* be checked, and the refusal stands.                                     *)
Proof(r) ==
    /\ q[r].stage = "proof"
    /\ \/ "proof" \in Faults /\ Answer(r, "challenge")
       \/ Go(r, "log") /\ UNCHANGED inFlight
    /\ UNCHANGED <<world, tx, log, spent, late, served>>

-----------------------------------------------------------------------------
(* settleFromEarlierBroadcast and reconcileSettlementRow.                  *)

(* No earlier broadcast answers: the refusal stands, or a fresh one goes.  *)
NoEarlier(r) ==
    IF q[r].refused = "none"
    THEN /\ q' = [q EXCEPT ![r].stage = "simulate", ![r].look = {}, ![r].left = FALSE]
         /\ UNCHANGED inFlight
    ELSE Answer(r, "challenge")

(* Mutant: any request is served from the row.                             *)
Redeem_AnyRequest(r, row) ==
    IF row.served
    THEN Answer(r, "challenge")
    ELSE /\ q' = [q EXCEPT ![r].stage = "claim", ![r].tx = row.tx, ![r].look = {}, ![r].left = FALSE]
         /\ UNCHANGED inFlight

(* redeem, up to the claim. row is the row as it was read.                 *)
Redeem(r, row) ==
    CASE row.served -> Answer(r, "challenge")
      [] ~row.served /\ row.want # Want(r) -> Answer(r, "mismatch")
      [] ~row.served /\ row.want = Want(r) /\ phase = "over" -> Answer(r, "challenge")
      [] OTHER -> /\ q' = [q EXCEPT ![r].stage = "claim", ![r].tx = row.tx,
                                    ![r].look = {}, ![r].left = FALSE]
                  /\ UNCHANGED inFlight

RowsThat(outcome) == {k \in DOMAIN log : log[k].outcome = outcome}

ReadLog(r) ==
    /\ q[r].stage = "log"
    /\ \/ "read" \in Faults /\ Answer(r, "retry")
       \/ /\ RowsThat("settled") # {}
          /\ Redeem(r, log[Max(RowsThat("settled"))])
       \/ /\ RowsThat("settled") = {}
          /\ RowsThat("ambiguous") = {}
          /\ NoEarlier(r)
       \/ /\ RowsThat("settled") = {}
          /\ RowsThat("ambiguous") # {}
          /\ q' = [q EXCEPT ![r].stage = "look", ![r].look = RowsThat("ambiguous")]
          /\ UNCHANGED inFlight
    /\ UNCHANGED <<world, tx, log, spent, late, served>>

(* The rows still to look at after this one.                               *)
GoOn(r, rest, left) ==
    IF rest # {}
    THEN /\ q' = [q EXCEPT ![r].look = rest, ![r].left = left]
         /\ UNCHANGED inFlight
    ELSE IF left
         THEN IF q[r].refused = "expired"
              THEN /\ q' = [q EXCEPT ![r].stage = "unused", ![r].look = {}]
                   /\ UNCHANGED inFlight
              ELSE Answer(r, "retry")
         ELSE NoEarlier(r)

(* What the chain lets a look at t conclude: from a receipt deep enough,   *)
(* or from canNeverLand and an authorization that reads unused.            *)
Verdicts(t) ==
    CASE tx[t] = "landed"   -> {"settled"}
      [] tx[t] = "reverted" -> {"reverted"}
      [] tx[t] = "gone" /\ FALSE \in UsedReads -> {"dropped"}
      [] OTHER              -> {}

(* Rows are read newest first. No receipt yet, one too shallow, or a log   *)
(* that cannot be written, and the row stays as it is.                     *)
Look(r) ==
    LET k    == Max(q[r].look)
        rest == q[r].look \ {k}
        t    == log[k].tx
    IN
    /\ q[r].stage = "look"
    /\ \/ GoOn(r, rest, TRUE) /\ UNCHANGED log
       \/ \E v \in Verdicts(t) :
            /\ log' = Resolved(t, v, Nobody)
            /\ IF v = "settled"
               THEN Redeem(r, [log[k] EXCEPT !.served = FALSE])
               ELSE GoOn(r, rest, q[r].left)
    /\ UNCHANGED <<world, tx, spent, late, served>>

(* Expired, with a broadcast still open: an unused nonce moved nothing.    *)
ReadUnused(r) ==
    /\ q[r].stage = "unused"
    /\ \/ FALSE \in UsedReads /\ Answer(r, "challenge")
       \/ /\ TRUE \in UsedReads \/ "read" \in Faults
          /\ Answer(r, "retry")
    /\ UNCHANGED <<world, tx, log, spent, late, served>>

(* A proof read resolves rows without the key and claims nothing.          *)
Sweep(k) ==
    /\ log[k].outcome = "ambiguous"
    /\ \E v \in Verdicts(log[k].tx) : log' = Resolved(log[k].tx, v, Nobody)
    /\ UNCHANGED <<world, tx, spent, inFlight, q, late, served>>
-----------------------------------------------------------------------------
(* The send. Simulation, gas, budget and signer may each refuse.           *)

Simulate(r) ==
    /\ q[r].stage = "simulate"
    /\ \/ Answer(r, "retry")
       \/ FALSE \in UsedReads /\ Go(r, "note") /\ UNCHANGED inFlight
    /\ UNCHANGED <<world, tx, log, spent, late, served>>

(* A retry with the nonce and fees of one that was never sent has its hash.*)
Signable ==
    {t \in 1..setting.tries :
       \/ tx[t] = "signed"
       \/ tx[t] = "none" /\ \A u \in 1..(t - 1) : tx[u] # "none"}

(* The key outlives the answer while the row is closed (closeUnsentRow).   *)
NotNoted(r, t) ==
    /\ q' = [q EXCEPT ![r] = [Idle EXCEPT !.stage = "close", !.tx = t, !.told = "retry"]]
    /\ UNCHANGED inFlight

Noted(r, t) ==
    /\ q' = [q EXCEPT ![r].stage = "send", ![r].tx = t]
    /\ UNCHANGED inFlight

(* Mutant: a row that could not be written does not stop the send.         *)
Note_SendsAnyway(r) ==
    /\ q[r].stage = "note"
    /\ Len(log) < MaxRows
    /\ \E t \in Signable :
         /\ tx' = [tx EXCEPT ![t] = "signed"]
         /\ \/ log' = Append(log, NewRow(t, r))
            \/ "note" \in Faults /\ UNCHANGED log
         /\ Noted(r, t)
    /\ UNCHANGED <<world, spent, late, served>>

(* The row is written before the send, or nothing is sent. A write that is *)
(* not acknowledged may be there, may not, or may still come.              *)
Note(r) ==
    /\ q[r].stage = "note"
    /\ Len(log) < MaxRows
    /\ \E t \in Signable :
         /\ tx' = [tx EXCEPT ![t] = "signed"]
         /\ \/ log' = Append(log, NewRow(t, r)) /\ Noted(r, t) /\ UNCHANGED late
            \/ /\ "note" \in Faults
               /\ \/ log' = Append(log, NewRow(t, r))
                  \/ UNCHANGED log
               /\ NotNoted(r, t)
               /\ UNCHANGED late
            \/ /\ "stall" \in Faults
               /\ late' = late \cup {[kind |-> "insert", tx |-> t, by |-> r]}
               /\ NotNoted(r, t)
               /\ UNCHANGED log
    /\ UNCHANGED <<world, spent, served>>

(* closeUnsentRow: it waits for the row's own write, then marks the row.   *)
(* It ends at its deadline, whatever still runs.                           *)
CloseUnsentRow(r) ==
    LET t      == q[r].tx
        waits  == [kind |-> "insert", tx |-> t, by |-> r] \in late
    IN
    /\ q[r].stage = "close"
    /\ \/ ~waits /\ log' = Resolved(t, "dropped", Nobody) /\ UNCHANGED late
       \/ /\ waits \/ "write" \in Faults
          /\ UNCHANGED <<log, late>>
       \/ /\ ~waits
          /\ "stall" \in Faults
          /\ late' = late \cup {[kind |-> "close", tx |-> t, by |-> r]}
          /\ UNCHANGED log
    /\ Answer(r, "retry")
    /\ UNCHANGED <<world, tx, spent, served>>

(* A node takes it, or may have; or none did and none has it.              *)
Send(r) ==
    /\ q[r].stage = "send"
    /\ \/ tx' = [tx EXCEPT ![q[r].tx] = "posted"] /\ Go(r, "wait")
       \/ "send" \in Faults /\ Go(r, "close") /\ UNCHANGED tx
    /\ UNCHANGED <<world, log, spent, inFlight, late, served>>

(* The wait for the receipt; and finish, which settles the row and takes   *)
(* the claim in one write. A row already resolved is claimed like a retry; *)
(* a write that fails leaves the row and serves the call.                  *)
Wait(r) ==
    LET t == q[r].tx IN
    /\ q[r].stage = "wait"
    /\ \/ Answer(r, "retry") /\ UNCHANGED log
       \/ /\ tx[t] = "reverted"
          /\ Answer(r, "retry")
          /\ \/ log' = Resolved(t, "reverted", Nobody)
             \/ "write" \in Faults /\ UNCHANGED log
       \/ tx[t] = "landed" /\ Go(r, "finish") /\ UNCHANGED <<log, inFlight>>
    /\ UNCHANGED <<world, tx, spent, late, served>>

Finish(r) ==
    LET t    == q[r].tx
        open == \E k \in RowsThat("ambiguous") : log[k].tx = t
    IN
    /\ q[r].stage = "finish"
    /\ \/ open /\ log' = Resolved(t, "settled", r) /\ Go(r, "key")
       \/ ~open /\ Go(r, "claim") /\ UNCHANGED log
       \/ "finish" \in Faults /\ Go(r, "key") /\ UNCHANGED log
    /\ UNCHANGED <<world, tx, spent, inFlight, late, served>>

-----------------------------------------------------------------------------
(* The claim on the one call, and its end.                                 *)

Serving == {"key", "serve", "mark", "release"}

(* CLAIM_LEASE_MS is wall time, and a tool has no deadline: the lease of a *)
(* claim may end while its holder still serves.                            *)
LeaseEnds(r) ==
    /\ q[r].stage \in Serving
    /\ ~q[r].stale
    /\ overtaken < setting.overtakes
    /\ q' = [q EXCEPT ![r].stale = TRUE]
    /\ UNCHANGED <<world, tx, log, spent, inFlight, late, served>>

Overtakes(row) == row.claim # Nobody /\ q[row.claim].stale

(* Mutants: a claim is never taken over; any unserved row can be claimed.  *)
Claimable_NoLease(row) == row.claim = Nobody
Claimable_Always(row) == TRUE

(* A free row; or a claim older than CLAIM_LEASE_MS, left by one that no   *)
(* longer serves, or held by one that outlives its lease.                  *)
Claimable(row) ==
    \/ row.claim = Nobody
    \/ q[row.claim].stage \notin Serving
    \/ Overtakes(row)

(* A claim left behind is refused as long as its lease runs.               *)
Claim(r) ==
    LET t    == q[r].tx
        free == {k \in DOMAIN log : Unserved(log[k], t) /\ Claimable(log[k])}
    IN
    /\ q[r].stage = "claim"
    /\ \/ /\ "write" \in Faults \/ \A k \in free : log[k].claim # Nobody
          /\ Answer(r, "retry")
          /\ UNCHANGED <<log, overtaken>>
       \/ /\ free # {}
          /\ log' = [k \in DOMAIN log |-> IF k \in free THEN [log[k] EXCEPT !.claim = r] ELSE log[k]]
          /\ overtaken' = IF \E k \in free : Overtakes(log[k]) THEN overtaken + 1 ELSE overtaken
          /\ Go(r, "key")
          /\ UNCHANGED inFlight
    /\ UNCHANGED <<setting, phase, used, crashes, tx, spent, late, served>>

(* writeSpentKey, the last thing settlePayment does with the key held.     *)
WriteSpentKey(r) ==
    /\ q[r].stage = "key"
    /\ \/ spent' = TRUE
       \/ "write" \in Faults /\ UNCHANGED spent
    /\ Go(r, "serve")
    /\ FreeKey(r)
    /\ UNCHANGED <<world, tx, log, late, served>>

(* The tool's answer is written out; or it failed, or the socket was gone. *)
Serve(r) ==
    /\ q[r].stage = "serve"
    /\ \/ /\ served < MaxServed
          /\ served' = served + 1
          /\ q' = [q EXCEPT ![r].stage = "mark", ![r].told = "served"]
       \/ Go(r, "release") /\ UNCHANGED served
    /\ UNCHANGED <<world, tx, log, spent, inFlight, late>>

(* markSettlementServed and releaseSettlementClaim touch only their claim. *)
Mine(r) == {k \in DOMAIN log : Unserved(log[k], q[r].tx) /\ log[k].claim = r}

MarkServed(r) ==
    /\ q[r].stage = "mark"
    /\ \/ log' = [k \in DOMAIN log |-> IF k \in Mine(r) THEN [log[k] EXCEPT !.served = TRUE] ELSE log[k]]
       \/ "mark" \in Faults /\ UNCHANGED log
    /\ Answer(r, "served")
    /\ UNCHANGED <<world, tx, spent, late, served>>

ReleaseClaim(r) ==
    /\ q[r].stage = "release"
    /\ \/ log' = [k \in DOMAIN log |-> IF k \in Mine(r) THEN [log[k] EXCEPT !.claim = Nobody] ELSE log[k]]
       \/ "write" \in Faults /\ UNCHANGED log
    /\ Answer(r, "retry")
    /\ UNCHANGED <<world, tx, spent, late, served>>

-----------------------------------------------------------------------------
(* The chain, the clock, the database and the process.                     *)

Land(t) ==
    /\ tx[t] = "posted"
    /\ \/ /\ ~used
          /\ phase \in {"valid", "closing"}
          /\ used' = TRUE
          /\ tx' = [tx EXCEPT ![t] = "landed"]
       \/ /\ tx' = [tx EXCEPT ![t] = "reverted"]
          /\ UNCHANGED used
    /\ UNCHANGED <<setting, phase, log, spent, inFlight, q, late, served, crashes,
                   overtaken>>

(* Another transaction of the signer takes its nonce.                      *)
Vanish(t) ==
    /\ \/ tx[t] = "posted"
       \/ tx[t] = "signed" /\ \A r \in Req : ~(q[r].stage = "send" /\ q[r].tx = t)
    /\ tx' = [tx EXCEPT ![t] = "gone"]
    /\ UNCHANGED <<world, log, spent, inFlight, q, late, served>>

Tick ==
    /\ \E n \in 1..(Len(Phases) - 1) : phase = Phases[n] /\ phase' = Phases[n + 1]
    /\ UNCHANGED <<setting, used, tx, log, spent, inFlight, q, late, served, crashes,
                   overtaken>>

(* A write given up on commits, or never does.                             *)
LateCommit(w) ==
    /\ late' = late \ {w}
    /\ \/ w.kind = "insert" /\ Len(log) < MaxRows /\ log' = Append(log, NewRow(w.tx, w.by))
       \/ w.kind = "close" /\ log' = Resolved(w.tx, "dropped", Nobody)
       \/ UNCHANGED log
    /\ UNCHANGED <<world, tx, spent, inFlight, q, served>>

Restart ==
    /\ crashes < setting.restarts
    /\ crashes' = crashes + 1
    /\ q' = [r \in Req |-> Idle]
    /\ inFlight' = Nobody
    /\ UNCHANGED <<setting, phase, used, tx, log, spent, late, served, overtaken>>

-----------------------------------------------------------------------------
Handle(r) ==
    \/ LoadSpent(r)
    \/ AuthorizationState(r)
    \/ Funds(r)
    \/ Proof(r)
    \/ ReadLog(r)
    \/ Look(r)
    \/ ReadUnused(r)
    \/ Simulate(r)
    \/ Note(r)
    \/ CloseUnsentRow(r)
    \/ Send(r)
    \/ Wait(r)
    \/ Finish(r)
    \/ Claim(r)
    \/ WriteSpentKey(r)
    \/ Serve(r)
    \/ MarkServed(r)
    \/ ReleaseClaim(r)

Next ==
    \/ \E r \in Req : Arrive(r)
    \/ \E r \in Req : Handle(r)
    \/ \E r \in Req : LeaseEnds(r)
    \/ \E k \in DOMAIN log : Sweep(k)
    \/ \E t \in Tx : Land(t)
    \/ \E t \in Tx : Vanish(t)
    \/ \E w \in late : LateCommit(w)
    \/ Tick
    \/ Restart

Spec == Init /\ [][Next]_vars

(* Every await of a handler has a deadline. The buyer keeps retrying, and a*)
(* look, a claim and a tool that are tried again and again work at last.   *)
Fairness ==
    \A r \in Req :
      /\ WF_vars(Arrive(r))
      /\ WF_vars(Handle(r))
      /\ SF_vars(Look(r) /\ log' # log)
      /\ SF_vars(Claim(r) /\ q'[r].stage = "key")
      /\ SF_vars(Serve(r) /\ served' # served)

FairSpec == Spec /\ Fairness

-----------------------------------------------------------------------------
Live == {t \in Tx : tx[t] \in {"posted", "landed"}}
Paid == \E t \in Tx : tx[t] = "landed"

Fault(kinds) == Faults \cap kinds # {}

(* One authorization is never on its way twice: a second broadcast could   *)
(* only revert at the facilitator's cost. Without a stalled write.         *)
BroadcastOnce == ~Fault({"stall"}) => \A t, u \in Live : t = u

(* What went out is on record, under its hash and still open or settled,   *)
(* so that a retry reads it before it signs anything. Without a stalled    *)
(* write.                                                                  *)
SentIsOnRecord ==
    ~Fault({"stall"}) =>
      \A t \in Live : \E k \in DOMAIN log :
        log[k].tx = t /\ log[k].outcome \in {"ambiguous", "settled"}

(* One payment buys one call, however many requests and retries carry it:  *)
(* the facilitator does what PaidOnce promises, where a restart between the*)
(* answer and its mark can cost one call more, and so can a claim taken    *)
(* over from a request that outlived its lease. A mark that fails can too, *)
(* and those settings promise nothing about calls.                         *)
Promise == INSTANCE PaidOnce WITH
             paid   <- Paid,
             calls  <- IF Fault({"finish", "mark", "stall"}) THEN 0 ELSE served,
             lapses <- crashes + overtaken
KeepsPromise == Promise!Spec

(* A call is served only for a payment that landed, and only to the request*)
(* that a transaction was signed for.                                      *)
ServedIsPaid ==
    \A r \in Req : q[r].stage \in {"serve", "mark"} =>
      /\ tx[q[r].tx] = "landed"
      /\ \E k \in DOMAIN log : log[k].tx = q[r].tx /\ log[k].want = Want(r)

(* Nobody who paid is sent back to pay again: while the money moved or may *)
(* move and no call was served, no answer is a fresh challenge. Past the   *)
(* redeem window the claim is closed. It holds where hosts do not lag,     *)
(* signatures can be checked, and the payer keeps the price.               *)
MayMove == Live # {} /\ phase \in {"valid", "closing"}
Owed == served = 0 /\ phase # "over" /\ (Paid \/ MayMove)
SeesWell == Rich /\ ~Fault({"lag", "signature", "proof", "stall", "finish"})

NeverSentBack ==
    [][\A r \in Req : SeesWell /\ q'[r].told = "challenge" /\ q[r].told # "challenge" => ~Owed]_vars

(* A payment that landed buys its call in the end, if the buyer keeps      *)
(* sending it within the window.                                           *)
PaidIsServed == Paid ~> served > 0 \/ phase = "over"
=============================================================================
