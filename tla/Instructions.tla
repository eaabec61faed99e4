---------------------------- MODULE Instructions ----------------------------
(***************************************************************************)
(* The spend instructions of one agent: creation under the policy ladder,  *)
(* approval, rejection, and execution down the settlement rails (policy    *)
(* vault, Circle Agent Wallet, batch, direct transfer), with the UTC-day   *)
(* budget they commit against, the single state document they are saved    *)
(* in, and the server restarts that go back to it.                         *)
(* Source: mcp/src/platform/instructions.ts, core.ts, mcp/src/storage.ts.  *)
(*                                                                         *)
(* Node runs one callback at a time, so the code between two awaits is one *)
(* action here, and each await is a stage of the handler h[i].             *)
(***************************************************************************)
EXTENDS Integers, FiniteSetsExt

CONSTANTS Ix,              \* the agent's instructions
          Amount,          \* Amount[i]: amountUsd * count
          Batch,           \* the instructions of type batch with a plan
          Screened,        \* those a freeze, payee type or allowlist sends to a human
          DailyCap,        \* permissions.dailyCapUsd
          AutoApproveUnder,\* permissions.autoApproveUnderUsd
          Agents,          \* the settlement configurations an agent may have
          MaxTries,        \* bound: payments signed or requested per instruction
          MaxDay,          \* bound: UTC days
          MaxCrash         \* bound: restarts

(* Which rails an agent has: the chain of its vault, whether the server's  *)
(* key is also the vault owner, whether it has a Circle wallet, and        *)
(* whether its payees resolve to an address on its chain.                  *)
AgentConfig == [vault    : {"none", "evm", "stellar"},
                ownerKey : BOOLEAN,
                circle   : BOOLEAN,
                resolves : BOOLEAN]

ASSUME ConstantsAssumption ==
    /\ IsFiniteSet(Ix)
    /\ Amount \in [Ix -> Nat \ {0}]
    /\ Batch \subseteq Ix
    /\ Screened \subseteq Ix
    /\ DailyCap \in Nat
    /\ AutoApproveUnder \in Nat
    /\ Agents \subseteq AgentConfig
    /\ MaxTries \in Nat \ {0}
    /\ MaxDay \in Nat \ {0}
    /\ MaxCrash \in Nat

VARIABLES
    agent,    \* the agent's configuration, fixed
    day,      \* todayUTC()
    row,      \* state.instructions, by id
    counter,  \* the agent's spentTodayUsd and spendDate
    dirty,    \* storage's pending: a debounced save is due
    disk,     \* the state document in storage
    h,        \* the handler that holds executingIx for i, and where it awaits
    pay,      \* what the chain and Circle know of i's n-th payment
    crashes   \* restarts so far

vars == <<agent, day, row, counter, dirty, disk, h, pay, crashes>>

Tries == 1..MaxTries
Days  == 1..MaxDay

Statuses == {"none", "rejected", "pending_approval", "auto_approved",
             "approved", "executed_onchain", "executed_simulated"}

(* tx, key: which payment unconfirmedTx and circleIdempotencyKey name, 0   *)
(* when unset; keyTx: unconfirmedCircleTx is known; heldOn: capHeldOn; at: *)
(* the day of unconfirmedAt. claim, auto and gaveUp are history: the day   *)
(* the instruction was counted against the cap and not yet given back,     *)
(* whether the policy alone authorized it, and a rejection that left a     *)
(* settlement unresolved (abandonedTx).                                    *)
Row == [status : Statuses, tx : 0..MaxTries, key : 0..MaxTries,
        keyTx : BOOLEAN, heldOn : 0..MaxDay, at : 0..MaxDay,
        claim : 0..MaxDay, auto : BOOLEAN, gaveUp : BOOLEAN]

NoRow == [status |-> "none", tx |-> 0, key |-> 0, keyTx |-> FALSE,
          heldOn |-> 0, at |-> 0, claim |-> 0, auto |-> FALSE, gaveUp |-> FALSE]

Counter == [spent : Nat, date : 0..MaxDay]

Document == [row : [Ix -> Row], counter : Counter]

Handler == [stage   : {"idle", "read", "rejectRead", "try", "send", "wait", "label"},
            rail    : {"none", "vault", "circle", "batch", "direct"},
            resumed : BOOLEAN]

Idle == [stage |-> "idle", rail |-> "none", resumed |-> FALSE]

(* noted: signed or named, not yet sent. sent: it may land. landed: money  *)
(* moved. void: reverted, refused, denied or dropped; it never will.       *)
Payment == {"none", "noted", "sent", "landed", "void"}

TypeOK ==
    /\ agent \in Agents
    /\ day \in Days
    /\ row \in [Ix -> Row]
    /\ counter \in Counter
    /\ dirty \in BOOLEAN
    /\ disk \in Document
    /\ h \in [Ix -> Handler]
    /\ pay \in [Ix -> [Tries -> Payment]]
    /\ crashes \in 0..MaxCrash

Init ==
    /\ agent \in Agents
    /\ day = 1
    /\ row = [i \in Ix |-> NoRow]
    /\ counter = [spent |-> 0, date |-> 0]
    /\ dirty = FALSE
    /\ disk = [row |-> row, counter |-> counter]
    /\ h = [i \in Ix |-> Idle]
    /\ pay = [i \in Ix |-> [n \in Tries |-> "none"]]
    /\ crashes = 0

-----------------------------------------------------------------------------
(* The daily budget, core.ts.                                              *)

DailySpent(c) == IF c.date = day THEN c.spent ELSE 0

(* Mutant: the count starts over.                                          *)
AddSpend_StartsOver(c, a) == [spent |-> a, date |-> day]

AddSpend(c, a) == [spent |-> DailySpent(c) + a, date |-> day]

ReverseSpend(c, a) ==
    IF c.date = day
    THEN [c EXCEPT !.spent = IF @ >= a THEN @ - a ELSE 0]
    ELSE c

-----------------------------------------------------------------------------
(* What a handler does to a row.                                           *)

(* Mutant: a Circle transfer is not an open settlement.                    *)
HasOpenSettlement_HashOnly(r) == r.tx # 0

HasOpenSettlement(r) == r.tx # 0 \/ r.key # 0

ClearUnconfirmedTx(r) == [r EXCEPT !.tx = 0, !.at = 0]

CloseOpenSettlement(r) == [r EXCEPT !.tx = 0, !.at = 0, !.key = 0, !.keyTx = FALSE]

HoldSettlement(r) ==
    [r EXCEPT !.status = "pending_approval",
              !.heldOn = IF @ = 0 THEN day ELSE @]

Returned(r) == [r EXCEPT !.status = "pending_approval", !.heldOn = 0, !.claim = 0]

Settled(r) == [CloseOpenSettlement(r) EXCEPT !.status = "executed_onchain"]

(* Every handler ends in save(state): the debounce is armed.               *)
Update(i, r, c) ==
    /\ row' = [row EXCEPT ![i] = r]
    /\ counter' = c
    /\ dirty' = TRUE

At(i, stage, rail, resumed) ==
    h' = [h EXCEPT ![i] = [stage |-> stage, rail |-> rail, resumed |-> resumed]]

Release(i) == h' = [h EXCEPT ![i] = Idle]

ReturnToHuman(i, r) ==
    /\ Update(i, Returned(r), ReverseSpend(counter, Amount[i]))
    /\ Release(i)

(* closeHeld then returnToHuman: a claim kept since an earlier day is      *)
(* added to today's count before it is given back.                         *)
ReturnHeld(i, r) ==
    LET turned == r.heldOn # 0 /\ r.heldOn # day
        c      == IF turned THEN AddSpend(counter, Amount[i]) ELSE counter
    IN  /\ Update(i, Returned(CloseOpenSettlement(r)), ReverseSpend(c, Amount[i]))
        /\ Release(i)

(* A rail answered with the settlement; and one found settled while held.  *)
RecordSettled(i, r) ==
    /\ Update(i, Settled(r), counter)
    /\ Release(i)

RecordLanded(i, r) == RecordSettled(i, [r EXCEPT !.heldOn = 0])

-----------------------------------------------------------------------------
(* createInstruction and the ladder of evaluateSpendPreflight. A velocity  *)
(* denial depends on the other actions in its window and may meet any      *)
(* instruction; it commits nothing.                                        *)

WithinPolicy(i) ==
    /\ i \notin Screened
    /\ DailySpent(counter) + Amount[i] <= DailyCap
    /\ Amount[i] <= AutoApproveUnder

CreateInstruction(i) ==
    /\ row[i].status = "none"
    /\ \/ Update(i, [NoRow EXCEPT !.status = "rejected"], counter)
       \/ /\ WithinPolicy(i)
          /\ Update(i, [NoRow EXCEPT !.status = "auto_approved", !.claim = day, !.auto = TRUE],
                    AddSpend(counter, Amount[i]))
       \/ /\ ~WithinPolicy(i)
          /\ Update(i, [NoRow EXCEPT !.status = "pending_approval"], counter)
    /\ UNCHANGED <<agent, day, disk, h, pay, crashes>>

(* A held settlement never gave its claim back, so approving it adds none. *)
ApproveInstruction(i) ==
    /\ row[i].status = "pending_approval"
    /\ IF row[i].heldOn # 0
       THEN Update(i, [row[i] EXCEPT !.status = "approved"], counter)
       ELSE Update(i, [row[i] EXCEPT !.status = "approved", !.claim = day, !.auto = FALSE],
                   AddSpend(counter, Amount[i]))
    /\ UNCHANGED <<agent, day, disk, h, pay, crashes>>

-----------------------------------------------------------------------------
(* rejectInstruction. An open settlement is read first, under executingIx. *)

RejectInstruction(i) ==
    /\ row[i].status = "pending_approval"
    /\ IF HasOpenSettlement(row[i])
       THEN /\ h[i] = Idle
            /\ At(i, "rejectRead", "none", FALSE)
            /\ UNCHANGED <<row, counter, dirty>>
       ELSE /\ Update(i, [row[i] EXCEPT !.status = "rejected"], counter)
            /\ UNCHANGED h
    /\ UNCHANGED <<agent, day, disk, pay, crashes>>

(* Mutant: only a transaction hash is ever read.                           *)
Readings_HashOnly(i) ==
    LET n == row[i].tx
    IN  {"unknown"} \cup
        (IF n = 0 THEN {}
         ELSE CASE pay[i][n] = "landed" -> {"success"}
                [] pay[i][n] = "void"   -> {"reverted"}
                [] OTHER                -> {})

(* readOpenSettlement: what a look at the rail that holds it can answer. A *)
(* Circle request that was never answered has no transfer to read.         *)
Readings(i) ==
    LET r == row[i]
        n == IF r.tx # 0 THEN r.tx ELSE IF r.keyTx THEN r.key ELSE 0
    IN  {"unknown"} \cup
        (IF n = 0 THEN {}
         ELSE CASE pay[i][n] = "landed" -> {"success"}
                [] pay[i][n] = "void"   -> {"reverted"}
                [] OTHER                -> {})

RejectAnswered(i, seen) ==
    LET r    == row[i]
        gone == CloseOpenSettlement(r)
    IN
    /\ h[i].stage = "rejectRead"
    /\ seen \in Readings(i)
    /\ \/ /\ r.status # "pending_approval"
          /\ Release(i)
          /\ UNCHANGED <<row, counter, dirty>>
       \/ /\ r.status = "pending_approval"
          /\ seen = "success"
          /\ RecordLanded(i, r)
       \/ /\ r.status = "pending_approval"     \* within UNCONFIRMED_REJECT_AFTER_MS
          /\ seen = "unknown"
          /\ Release(i)
          /\ UNCHANGED <<row, counter, dirty>>
       \/ /\ r.status = "pending_approval"     \* a day after it went out
          /\ seen = "unknown"
          /\ r.at < day
          /\ Update(i, [gone EXCEPT !.status = "rejected", !.heldOn = 0, !.gaveUp = TRUE], counter)
          /\ Release(i)
       \/ /\ r.status = "pending_approval"
          /\ seen = "reverted"
          /\ Update(i, [gone EXCEPT !.status = "rejected", !.heldOn = 0, !.claim = 0],
                    IF r.heldOn = day THEN ReverseSpend(counter, Amount[i]) ELSE counter)
          /\ Release(i)
    /\ UNCHANGED <<agent, day, disk, pay, crashes>>

-----------------------------------------------------------------------------
(* executeInstruction: which rail comes next.                              *)

(* Mutant: a key with no known answer is not sent again.                   *)
ResumeCircle_Never(r) == FALSE

ResumeCircle(r) == r.key # 0 /\ ~r.keyTx /\ agent.resolves /\ agent.circle

RailAfterCircle(i) == IF i \in Batch THEN "batch" ELSE "direct"

(* A Stellar vault's payment never falls through to the Arc rails.         *)
RailAfterVault(i) ==
    CASE agent.vault = "stellar" -> "human"
      [] agent.vault # "stellar" /\ agent.circle -> "circle"
      [] OTHER -> RailAfterCircle(i)

(* ownerPay needs the owner's key; without it a human override skips the   *)
(* vault.                                                                  *)
FirstRail(i) ==
    CASE ~agent.resolves -> "simulated"
      [] /\ agent.resolves
         /\ agent.vault # "none"
         /\ ~ResumeCircle(row[i])
         /\ row[i].status = "approved" => agent.ownerKey -> "vault"
      [] OTHER -> RailAfterVault(i)

(* Go on with row r of i to the next rail, or end.                         *)
Continue(i, rail, r) ==
    \/ /\ rail \in {"vault", "circle", "batch", "direct"}
       /\ row' = [row EXCEPT ![i] = r]
       /\ At(i, "try", rail, FALSE)
       /\ UNCHANGED <<counter, dirty>>
    \/ /\ rail = "human"
       /\ ReturnToHuman(i, r)
    \/ /\ rail = "simulated"
       /\ Update(i, [r EXCEPT !.status = "executed_simulated"], counter)
       /\ Release(i)

ExecuteInstruction(i) ==
    /\ row[i].status \in {"approved", "auto_approved"}
    /\ h[i] = Idle
    /\ IF HasOpenSettlement(row[i]) /\ ~ResumeCircle(row[i])
       THEN /\ At(i, "read", "none", FALSE)
            /\ UNCHANGED <<row, counter, dirty>>
       ELSE Continue(i, FirstRail(i), row[i])
    /\ UNCHANGED <<agent, day, disk, pay, crashes>>

(* The read an execute starts with: nothing is sent by the approval that   *)
(* consented to a read.                                                    *)
ExecuteAnswered(i, seen) ==
    /\ h[i].stage = "read"
    /\ seen \in Readings(i)
    /\ \/ /\ seen = "unknown"
          /\ Update(i, HoldSettlement(row[i]), counter)
          /\ Release(i)
       \/ /\ seen = "success"
          /\ RecordLanded(i, row[i])
       \/ /\ seen = "reverted"
          /\ ReturnHeld(i, row[i])
    /\ UNCHANGED <<agent, day, disk, pay, crashes>>

-----------------------------------------------------------------------------
(* The rails that sign a transaction here: vault, batch, direct.           *)

SigningRails == {"vault", "batch", "direct"}

RailAfter(i, rail) ==
    CASE rail = "vault" -> RailAfterVault(i)
      [] rail = "batch" -> "direct"
      [] OTHER          -> "simulated"

(* Nothing was broadcast: a refusal goes to a human, no key or an infra    *)
(* failure goes on to the next rail.                                       *)
NothingSent(i) ==
    /\ h[i].stage = "try"
    /\ h[i].rail \in SigningRails
    /\ \/ ReturnToHuman(i, row[i])
       \/ Continue(i, RailAfter(i, h[i].rail), row[i])
    /\ UNCHANGED <<agent, day, disk, pay, crashes>>

Fresh(i, n) == pay[i][n] = "none" /\ \A m \in 1..(n - 1) : pay[i][m] # "none"

(* Mutant: the write before the send is the debounced one.                 *)
DurableWrite_Debounced(rs, saved) == UNCHANGED disk

(* flushStateDurably with the rows rs: it writes and says so, it fails, or *)
(* it writes after the caller stopped waiting. saved says what the caller  *)
(* was told.                                                               *)
DurableWrite(rs, saved) ==
    \/ disk' = [row |-> rs, counter |-> counter]
    \/ saved = FALSE /\ UNCHANGED disk

(* The onBroadcast hook: the hash is on the row and in storage before the  *)
(* send, or nothing is sent (refuseUnsaved).                               *)
NoteTransaction(i) ==
    /\ h[i].stage = "try"
    /\ h[i].rail \in SigningRails
    /\ \E n \in Tries, saved \in BOOLEAN :
         LET r == [row[i] EXCEPT !.tx = n, !.at = day]
         IN  /\ Fresh(i, n)
             /\ pay' = [pay EXCEPT ![i][n] = "noted"]
             /\ DurableWrite([row EXCEPT ![i] = r], saved)
             /\ IF saved
                THEN /\ row' = [row EXCEPT ![i] = r]
                     /\ dirty' = FALSE
                     /\ At(i, "send", h[i].rail, FALSE)
                     /\ UNCHANGED counter
                ELSE ReturnToHuman(i, ClearUnconfirmedTx(r))
    /\ UNCHANGED <<agent, day, crashes>>

(* sendRawTransaction: a node takes it, or the answer is lost whether or   *)
(* not one did, or every node turned it away and none has it.              *)
SendTransaction(i) ==
    LET n == row[i].tx
        r == ClearUnconfirmedTx(row[i])
    IN
    /\ h[i].stage = "send"
    /\ h[i].rail \in SigningRails
    /\ \/ /\ \/ pay' = [pay EXCEPT ![i][n] = "sent"]
             \/ UNCHANGED pay
          /\ At(i, "wait", h[i].rail, FALSE)
          /\ UNCHANGED <<row, counter, dirty>>
       \/ /\ pay' = [pay EXCEPT ![i][n] = "void"]
          /\ IF h[i].rail = "vault"
             THEN Continue(i, RailAfterVault(i), r)
             ELSE ReturnToHuman(i, r)
    /\ UNCHANGED <<agent, day, disk, crashes>>

(* Mutants: a payment with no receipt goes on to the next rail; or back to *)
(* a human with its claim given up.                                        *)
HoldUnconfirmed_FallsThrough(i) ==
    Continue(i, RailAfter(i, h[i].rail), ClearUnconfirmedTx(row[i]))
HoldUnconfirmed_GivesBack(i) == ReturnToHuman(i, row[i])

HoldUnconfirmed(i) ==
    /\ Update(i, [HoldSettlement(row[i]) EXCEPT !.at = IF @ = 0 THEN day ELSE @], counter)
    /\ Release(i)

(* The receipt, or the end of the wait for it. The hash leaves the row on  *)
(* a known outcome (settledAttempt); on a vault payment the agent made, a  *)
(* read of the session key comes before the row says settled.              *)
ReceiptAnswered(i) ==
    LET n == row[i].tx
        r == ClearUnconfirmedTx(row[i])
    IN
    /\ h[i].stage = "wait"
    /\ h[i].rail \in SigningRails
    /\ \/ HoldUnconfirmed(i)
       \/ /\ pay[i][n] = "void"
          /\ ReturnToHuman(i, r)
       \/ /\ pay[i][n] = "landed"
          /\ IF h[i].rail = "vault" /\ row[i].status = "auto_approved"
             THEN /\ row' = [row EXCEPT ![i] = r]
                  /\ At(i, "label", "vault", FALSE)
                  /\ UNCHANGED <<counter, dirty>>
             ELSE RecordSettled(i, row[i])
    /\ UNCHANGED <<agent, day, disk, pay, crashes>>

ReadSessionKeyBound(i) ==
    /\ h[i].stage = "label"
    /\ RecordSettled(i, row[i])
    /\ UNCHANGED <<agent, day, disk, pay, crashes>>

-----------------------------------------------------------------------------
(* The Circle rail. The key is saved before the call; a key that was here  *)
(* already went out with no known answer and is sent again.                *)

NoteCircleKey(i) ==
    LET resumed == row[i].key # 0 IN
    /\ h[i].stage = "try"
    /\ h[i].rail = "circle"
    /\ \E n \in Tries, saved \in BOOLEAN :
         LET r == [row[i] EXCEPT !.key = n]
         IN  /\ IF resumed THEN n = row[i].key ELSE Fresh(i, n)
             /\ pay' = IF resumed THEN pay ELSE [pay EXCEPT ![i][n] = "noted"]
             /\ DurableWrite([row EXCEPT ![i] = r], saved)
             /\ IF saved \/ resumed
                THEN /\ row' = [row EXCEPT ![i] = r]
                     /\ dirty' = FALSE
                     /\ At(i, "send", "circle", resumed)
                     /\ UNCHANGED counter
                ELSE ReturnToHuman(i, row[i])
    /\ UNCHANGED <<agent, day, crashes>>

HoldCircle(i, known) ==
    /\ Update(i, [HoldSettlement(row[i]) EXCEPT !.keyTx = @ \/ known,
                                                !.at = IF @ = 0 THEN day ELSE @], counter)
    /\ Release(i)

(* The same key makes one transfer however often it is sent.               *)
CircleTakes(i) ==
    pay' = [pay EXCEPT ![i][row[i].key] = IF @ = "noted" THEN "sent" ELSE @]

(* createTransaction: taken and named, or no clear answer, or refused      *)
(* (which rules the transfer out only for a key sent once).                *)
CircleCreate(i) ==
    /\ h[i].stage = "send"
    /\ h[i].rail = "circle"
    /\ \/ /\ CircleTakes(i)
          /\ At(i, "wait", "circle", h[i].resumed)
          /\ UNCHANGED <<row, counter, dirty>>
       \/ /\ CircleTakes(i) \/ UNCHANGED pay
          /\ HoldCircle(i, FALSE)
       \/ /\ ~h[i].resumed
          /\ pay' = [pay EXCEPT ![i][row[i].key] = "void"]
          /\ Continue(i, RailAfterCircle(i), CloseOpenSettlement(row[i]))
    /\ UNCHANGED <<agent, day, disk, crashes>>

(* A denial goes to a human. A transfer that ended without moving anything *)
(* goes on to direct settlement, or to a human when this was a resend.     *)
CirclePolled(i) ==
    LET r == row[i] IN
    /\ h[i].stage = "wait"
    /\ h[i].rail = "circle"
    /\ \/ HoldCircle(i, TRUE)
       \/ pay[i][r.key] = "landed" /\ RecordSettled(i, r)
       \/ /\ pay[i][r.key] = "void"
          /\ \/ ReturnToHuman(i, CloseOpenSettlement(r))
             \/ h[i].resumed /\ ReturnHeld(i, r)
             \/ ~h[i].resumed /\ Continue(i, RailAfterCircle(i), CloseOpenSettlement(r))
    /\ UNCHANGED <<agent, day, disk, pay, crashes>>

-----------------------------------------------------------------------------
(* Storage, the clock, restarts, and what the chain and Circle decide.     *)

(* doFlush takes what is pending; a failed write is logged and dropped.    *)
Flush ==
    /\ dirty
    /\ dirty' = FALSE
    /\ \/ disk' = [row |-> row, counter |-> counter]
       \/ UNCHANGED disk
    /\ UNCHANGED <<agent, day, row, counter, h, pay, crashes>>

Restart ==
    /\ crashes < MaxCrash
    /\ crashes' = crashes + 1
    /\ row' = disk.row
    /\ counter' = disk.counter
    /\ dirty' = FALSE
    /\ h' = [i \in Ix |-> Idle]
    /\ UNCHANGED <<agent, day, disk, pay>>

Midnight ==
    /\ day < MaxDay
    /\ day' = day + 1
    /\ UNCHANGED <<agent, row, counter, dirty, disk, h, pay, crashes>>

(* A sent payment lands or never will. A held hash that was never sent is  *)
(* dropped once another transaction takes its nonce.                       *)
Settle(i, n) ==
    /\ \/ /\ pay[i][n] = "sent"
          /\ \E s \in {"landed", "void"} : pay' = [pay EXCEPT ![i][n] = s]
       \/ /\ pay[i][n] = "noted"
          /\ row[i].tx = n
          /\ h[i].stage # "send"
          /\ pay' = [pay EXCEPT ![i][n] = "void"]
    /\ UNCHANGED <<agent, day, row, counter, dirty, disk, h, crashes>>

-----------------------------------------------------------------------------
Handle(i) ==
    \/ \E seen \in {"success", "reverted", "unknown"} : RejectAnswered(i, seen)
    \/ \E seen \in {"success", "reverted", "unknown"} : ExecuteAnswered(i, seen)
    \/ NothingSent(i)
    \/ NoteTransaction(i)
    \/ SendTransaction(i)
    \/ ReceiptAnswered(i)
    \/ ReadSessionKeyBound(i)
    \/ NoteCircleKey(i)
    \/ CircleCreate(i)
    \/ CirclePolled(i)

Request(i) ==
    \/ CreateInstruction(i)
    \/ ApproveInstruction(i)
    \/ RejectInstruction(i)
    \/ ExecuteInstruction(i)

Next ==
    \/ \E i \in Ix : Request(i)
    \/ \E i \in Ix : Handle(i)
    \/ \E i \in Ix, n \in Tries : Settle(i, n)
    \/ Flush
    \/ Restart
    \/ Midnight

Spec == Init /\ [][Next]_vars

(* Fairness for liveness. Every await in a handler has a deadline, so a    *)
(* handler goes on. The rest is assumed of the world: the human keeps      *)
(* approving what comes back and the console keeps executing what is       *)
(* approved, an RPC and Circle answer infinitely often, a sent payment is  *)
(* decided, and the nonce of a hash that was never sent is used.           *)
CircleAnswers(i) == CircleCreate(i) /\ h'[i].stage = "wait"

Fairness ==
    \A i \in Ix :
      /\ WF_vars(Handle(i))
      /\ SF_vars(ApproveInstruction(i))
      /\ SF_vars(ExecuteInstruction(i))
      /\ SF_vars(ExecuteAnswered(i, "success"))
      /\ SF_vars(ExecuteAnswered(i, "reverted"))
      /\ SF_vars(CircleAnswers(i))
      /\ \A n \in Tries : WF_vars(Settle(i, n))

FairSpec == Spec /\ Fairness

-----------------------------------------------------------------------------
(* Properties.                                                             *)

LiveIn(p) == {n \in Tries : p[n] \in {"sent", "landed"}}
Live(i) == LiveIn(pay[i])

(* One instruction moves money at most once, whatever rails were tried, in *)
(* whatever order approvals, rejections and restarts came: never two       *)
(* payments of it that landed or may still land.                           *)
PaysAtMostOnce == \A i \in Ix : \A m, n \in Live(i) : m = n

(* What the record says is what happened: a row recorded as settled has a  *)
(* landed payment; a row recorded as simulated, or rejected with nothing   *)
(* unresolved, or back with a human with nothing open, has none that       *)
(* landed or may still land.                                               *)
RecordIsTrue ==
    \A i \in Ix :
      LET r == row[i] IN
      /\ r.status = "executed_onchain" => \E n \in Tries : pay[i][n] = "landed"
      /\ \/ r.status = "executed_simulated"
         \/ r.status = "rejected" /\ ~r.gaveUp
         \/ r.status = "pending_approval" /\ ~HasOpenSettlement(r)
         => Live(i) = {}

(* A payment that landed or may still land is known to the document in     *)
(* storage, so that the server that restarts from it reads it before it    *)
(* sends anything.                                                         *)
StorageKnowsPayments ==
    \A i \in Ix : \A n \in Live(i) :
      LET r == disk.row[i] IN
      r.tx = n \/ r.key = n \/ r.status = "executed_onchain" \/ r.gaveUp

(* A payment that landed or may still land counts against some day's cap:  *)
(* no hold, rejection or restart gives its claim back.                     *)
MoneyIsCounted == \A i \in Ix : Live(i) # {} => row[i].claim # 0

Claimed(S) == MapThenSumSet(LAMBDA i : Amount[i], {i \in S : row[i].claim = day})

(* The counter is the sum of today's claims: it covers every claim that was *)
(* not given back, and a payment that moved nothing gives the budget back.  *)
CounterIsClaims == DailySpent(counter) = Claimed(Ix)

(* What the policy alone authorized and may have moved stays within the    *)
(* daily cap, for one UTC day, across holds, returns and restarts.         *)
AgentSpendWithinCap ==
    MapThenSumSet(LAMBDA i : Amount[i], {i \in Ix : row[i].auto /\ Live(i) # {}}) <= DailyCap

Landed(p) == {n \in Tries : p[n] = "landed"}

Record(r) ==
    CASE r.status = "executed_onchain"      -> "settled"
      [] r.status = "executed_simulated"    -> "closed"
      [] r.status = "rejected" /\ ~r.gaveUp -> "closed"
      [] r.status = "rejected" /\ r.gaveUp  -> "unresolved"
      [] OTHER                              -> "open"

Promise(i) == INSTANCE SpendPromise WITH
    Payments <- Tries, moved <- Landed(pay[i]), record <- Record(row[i]), restarts <- crashes

PromiseStep(i) == Promise(i)!Next \/ UNCHANGED Promise(i)!vars

(* The rails, the ladder and the storage of an instruction implement the   *)
(* promise of SpendPromise: it moves money once, and its end is true of the *)
(* money and final but for a restart that had not saved it.                *)
KeepsPromise == /\ \A i \in Ix : Promise(i)!Init
                /\ [][\A i \in Ix : PromiseStep(i)]_vars

(* A hold is not a dead end: whatever is open is resolved one day.         *)
HoldsResolve ==
    \A i \in Ix :
      (row[i].status = "pending_approval" /\ HasOpenSettlement(row[i]))
         ~> ~HasOpenSettlement(row[i])

(* Money that moved is recorded as settled in the end, however often the   *)
(* answer was lost and the server restarted.                               *)
LandedIsRecorded ==
    \A i \in Ix : (\E n \in Tries : pay[i][n] = "landed")
                    ~> row[i].status = "executed_onchain"

-----------------------------------------------------------------------------
(* The inductive invariant behind the safety properties, one instruction   *)
(* at a time: r is its row, hd its handler, p its payments and d its row   *)
(* in storage.                                                             *)

(* What holds of a row, in memory or in storage: it names at most one open *)
(* settlement, and only one that was made; the end of the record closes    *)
(* it; whatever may move money is claimed.                                 *)
RowOk(r, p) ==
    /\ r.tx # 0 => r.key = 0 /\ p[r.tx] # "none"
    /\ r.key # 0 => p[r.key] # "none" /\ agent.vault # "stellar"
    /\ r.status \in {"none", "rejected", "executed_onchain", "executed_simulated"}
          => ~HasOpenSettlement(r)
    /\ r.status = "executed_onchain" => \E n \in Tries : p[n] = "landed"
    /\ r.gaveUp => r.status = "rejected"
    /\ r.status = "pending_approval" /\ r.heldOn # 0 => HasOpenSettlement(r)
    /\ \/ r.status \in {"approved", "auto_approved", "executed_onchain"}
       \/ HasOpenSettlement(r)
       \/ r.gaveUp
       => r.claim # 0

(* The row accounts for every payment that landed or may still land.       *)
Knows(r, p) ==
    \A n \in LiveIn(p) : \/ n = r.tx \/ n = r.key
                         \/ r.status = "executed_onchain" \/ r.gaveUp

Authorized == {"approved", "auto_approved"}

(* What holds of a row while a handler has it, by where the handler is.    *)
HandlerOk(r, hd, p) ==
    /\ hd.stage = "idle" => hd = Idle
    /\ hd.stage \in {"read", "try", "send", "wait", "label"} => r.status \in Authorized
    /\ hd.stage = "rejectRead" => r.status \in Authorized \cup {"pending_approval"}
    /\ hd.stage \in {"read", "rejectRead"} => HasOpenSettlement(r)
    /\ hd.stage \in {"try", "send", "wait"} => hd.rail \in SigningRails \cup {"circle"}
    /\ hd.stage = "try" /\ hd.rail \in SigningRails => ~HasOpenSettlement(r)
    /\ hd.stage \in {"send", "wait"} /\ hd.rail \in SigningRails => r.tx # 0
    /\ hd.stage = "send" /\ hd.rail \in SigningRails => p[r.tx] = "noted"
    /\ hd.stage \in {"try", "send", "wait"} /\ hd.rail = "circle"
          => r.tx = 0 /\ agent.vault # "stellar"
    /\ hd.stage \in {"send", "wait"} /\ hd.rail = "circle" => r.key # 0
    /\ hd.stage = "send" /\ hd.rail = "circle" /\ ~hd.resumed => p[r.key] = "noted"
    /\ hd.stage = "label" => /\ ~HasOpenSettlement(r)
                             /\ \E n \in Tries : p[n] = "landed"

(* A row in storage is as good as one in memory, but may not know of a      *)
(* payment when it was written inside a vault's label read.                *)
StoredOk(hd, p, d) ==
    /\ hd.rail = "vault" \/ hd.stage = "label" => agent.vault # "none"
    /\ RowOk(d, p)

(* While the label is read the row in memory does not know the payment.    *)
(* What is open in memory is the same in storage.                          *)
InvOf(r, hd, p, d) ==
    /\ \A m, n \in LiveIn(p) : m = n
    /\ RowOk(r, p)
    /\ hd.stage # "label" => Knows(r, p)
    /\ HandlerOk(r, hd, p)
    /\ r.tx # 0 => d.tx = r.tx
    /\ r.key # 0 => d.key = r.key
    /\ StoredOk(hd, p, d)

(* Every step keeps it but a restart from a document that does not know a  *)
(* payment, and PaysAtMostOnce, RecordIsTrue and MoneyIsCounted follow.    *)
SettlementInv ==
    /\ TypeOK
    /\ \A i \in Ix : InvOf(row[i], h[i], pay[i], disk.row[i])

=============================================================================
