------------------------------ MODULE TaskEscrow ------------------------------
(* One task of the marketplace and its ERC-8183 escrow: hired or bid for,   *)
(* delivered, then released or disputed, each call a chain of transactions  *)
(* that are awaited while other calls of the parties run.                   *)
(* Source: mcp/src/platform/tasks.ts, marketplace.ts and the escrow calls   *)
(* of chains/evm/adapter.ts. The escrow contract is external; the worker's  *)
(* standing, kya, is the one its record keeps.                              *)
EXTENDS AgentRecord, Sequences

CONSTANTS Orders,  \* calls that reach the chain
          MaxJobs, \* bound: escrow jobs
          MaxLost, \* bound: transactions that fail or whose answer is lost
          MaxStop  \* bound: restarts

ASSUME EscrowAssumption == MaxJobs \in Nat /\ MaxLost \in Nat /\ MaxStop \in Nat

VARIABLES
    keyed,    \* the platform has a signer
    status,   \* task.status, "none" before there is a task
    bid,      \* the worker bid on the open task
    jobId,    \* task.jobId, 0 when there is none
    settled,  \* task.settlement
    jobs,     \* the jobs on chain and their status
    order,    \* the calls in flight
    lost,     \* transactions that failed or went unanswered so far
    stored,   \* the task as storage has it
    stops,    \* restarts so far
    anew,     \* history: a settlement made a job of its own
    blind     \* history: a settlement started with another call at work

task     == <<status, bid, jobId, settled>>
kept     == <<stored, stops>>
taskVars == <<task, keyed, jobs, order, lost, kept, anew, blind>>

Transitions ==
    [open      |-> {"assigned", "cancelled"},
     assigned  |-> {"funded", "cancelled"},
     funded    |-> {"delivered", "disputed", "refunded"},
     delivered |-> {"released", "disputed", "refunded"},
     disputed  |-> {"released", "refunded"},
     released  |-> {}, refunded |-> {}, cancelled |-> {}]
Terminal == {"released", "refunded", "cancelled"}

CanTransition(to) == status # "none" /\ to \in Transitions[status]

NoOrder == [op |-> "none", step |-> "none", job |-> 0, made |-> FALSE]

TaskTypeOK ==
    /\ keyed \in BOOLEAN
    /\ status \in {"none"} \cup DOMAIN Transitions
    /\ bid \in BOOLEAN
    /\ jobId \in 0..Len(jobs)
    /\ settled \in {"none", "onchain", "simulated"}
    /\ jobs \in Seq({"open", "funded", "submitted", "completed", "rejected"})
    /\ order \in [Orders -> [op : {"none", "hire", "release", "dispute"},
                             step : {"none", "create", "fund", "submit", "complete", "reject", "read"},
                             job : 0..Len(jobs), made : BOOLEAN]]
    /\ lost \in 0..MaxLost
    /\ stops \in 0..MaxStop
    /\ anew \in BOOLEAN /\ blind \in BOOLEAN

TaskInit ==
    /\ keyed \in BOOLEAN
    /\ status = "none" /\ bid = FALSE /\ jobId = 0 /\ settled = "none"
    /\ jobs = <<>> /\ order = [o \in Orders |-> NoOrder]
    /\ stored = task /\ stops = 0
    /\ lost = 0 /\ anew = FALSE /\ blind = FALSE

-----------------------------------------------------------------------------
(* What a call does when its chain work is over, or there is none to do.    *)
Transition(to) == status' = IF CanTransition(to) THEN to ELSE status

Outcome(op) == IF op = "release" THEN "released" ELSE "refunded"
End(o) == order' = [order EXCEPT ![o] = NoOrder]

(* Mutant: a job that the settlement made does not get on the books.        *)
Settle_Unbooked(o, op, how) ==
    /\ settled' = how
    /\ UNCHANGED jobId
    /\ Transition(Outcome(op))
    /\ End(o)

(* A release or a dispute that went through, on chain or simulated. made:   *)
(* the call made the job itself and puts it on the books.                   *)
Settle(o, op, how) ==
    /\ settled' = how
    /\ jobId' = IF how = "onchain" /\ order[o].made THEN order[o].job ELSE jobId
    /\ Transition(Outcome(op))
    /\ End(o)

(* A hire stands without its escrow; a release or dispute answers an error. *)
Fail(o) == End(o) /\ UNCHANGED task

Start(o, op, step, job) ==
    order' = [order EXCEPT ![o] = [op |-> op, step |-> step, job |-> job,
                                   made |-> step = "create"]]

Free(o) == order[o] = NoOrder
AtWork == {o \in Orders : ~Free(o)}

-----------------------------------------------------------------------------
(* The calls. Without a signer the escrow call returns before any chain.    *)
LockEscrow(o) ==
    IF keyed THEN Start(o, "hire", "create", 0) ELSE UNCHANGED order

(* A task that a restart forgot is not hired for again.                     *)
HireAgent(o) ==
    /\ Free(o) /\ status = "none" /\ stops = 0
    /\ kya = "verified"
    /\ status' = "funded"
    /\ LockEscrow(o)
    /\ UNCHANGED <<keyed, bid, jobId, settled, jobs, lost, kept, anew, blind>>

PostOpenTask ==
    /\ status = "none" /\ stops = 0
    /\ status' = "open"
    /\ UNCHANGED <<keyed, bid, jobId, settled, jobs, order, lost, kept, anew, blind>>

BidOnTask ==
    /\ status = "open" /\ kya = "verified"
    /\ bid' = TRUE
    /\ UNCHANGED <<keyed, status, jobId, settled, jobs, order, lost, kept, anew, blind>>

AcceptBid(o) ==
    /\ Free(o) /\ status = "open"
    /\ bid /\ kya = "verified"
    /\ status' = "funded"
    /\ LockEscrow(o)
    /\ UNCHANGED <<keyed, bid, jobId, settled, jobs, lost, kept, anew, blind>>

DeliverTask ==
    /\ CanTransition("delivered")
    /\ status' = "delivered"
    /\ UNCHANGED <<keyed, bid, jobId, settled, jobs, order, lost, kept, anew, blind>>

(* releaseTask and disputeTask: the job funded at hire is completed or      *)
(* rejected; with none, a whole lifecycle is run for a job of its own.      *)
SettleTask(o, op) ==
    /\ Free(o)
    /\ CanTransition(Outcome(op))
    /\ \/ /\ jobId # 0
          /\ Start(o, op, IF op = "release" THEN "submit" ELSE "reject", jobId)
          /\ UNCHANGED task
       \/ /\ jobId = 0 /\ keyed
          /\ Start(o, op, "create", 0)
          /\ UNCHANGED task
       \/ /\ jobId = 0 /\ ~keyed
          /\ Settle(o, op, "simulated")
          /\ UNCHANGED bid
    /\ anew' = (anew \/ (jobId = 0 /\ keyed))
    /\ blind' = (blind \/ AtWork # {})
    /\ UNCHANGED <<keyed, jobs, lost, kept>>

-----------------------------------------------------------------------------
(* The transactions. Each is sent, lands or not, and its receipt is awaited.*)
Lost == lost < MaxLost /\ lost' = lost + 1

(* createJob, setBudget and approve: no money moves.                        *)
CreateJob(o) ==
    /\ order[o].step = "create"
    /\ \/ /\ Len(jobs) < MaxJobs
          /\ jobs' = Append(jobs, "open")
          /\ order' = [order EXCEPT ![o].step = "fund", ![o].job = Len(jobs) + 1]
          /\ UNCHANGED <<task, lost>>
       \/ Lost /\ Fail(o) /\ UNCHANGED jobs
    /\ UNCHANGED <<keyed, kept, anew, blind>>

(* What the contract takes a step from, and to.                             *)
From == [fund |-> {"open"}, submit |-> {"funded"}, complete |-> {"submitted"},
         reject |-> {"funded", "submitted"}]
To == [fund |-> "funded", submit |-> "submitted", complete |-> "completed",
       reject |-> "rejected"]

(* The step after this one. Only the release of a job funded at hire and    *)
(* the lifecycle of a new job read the job back at their end.               *)
Following(o) ==
    CASE order[o].step = "fund"     -> IF order[o].op = "hire" THEN "done" ELSE "submit"
      [] order[o].step = "submit"   -> IF order[o].op = "release" THEN "complete" ELSE "reject"
      [] order[o].step = "complete" -> "read"
      [] order[o].step = "reject"   -> IF order[o].made THEN "read" ELSE "done"

(* Mutant: the job of a hire does not get on the books.                     *)
Conclude_Unbooked(o) ==
    IF order[o].op = "hire" THEN Fail(o)
    ELSE Settle(o, order[o].op, "onchain")

Conclude(o) ==
    IF order[o].op = "hire"
    THEN /\ jobId' = order[o].job
         /\ End(o)
         /\ UNCHANGED <<status, settled>>
    ELSE Settle(o, order[o].op, "onchain")

Proceed(o) ==
    IF Following(o) = "done"
    THEN Conclude(o) /\ UNCHANGED bid
    ELSE order' = [order EXCEPT ![o].step = Following(o)] /\ UNCHANGED task

(* Mutant: a transaction that did not land is taken for one that did.       *)
Transact_Believes(o) ==
    LET step == order[o].step
        j    == order[o].job
    IN
    /\ step \in DOMAIN From
    /\ jobs' = IF jobs[j] \in From[step] THEN [jobs EXCEPT ![j] = To[step]] ELSE jobs
    /\ Proceed(o)
    /\ UNCHANGED <<keyed, lost, kept, anew, blind>>

(* A transaction the contract refuses reverts; one it takes may still not   *)
(* land, or land with no receipt in time. Either is an error to the caller. *)
Transact(o) ==
    LET step == order[o].step
        j    == order[o].job
        landed == [jobs EXCEPT ![j] = To[step]]
    IN
    /\ step \in DOMAIN From
    /\ \/ /\ jobs[j] \notin From[step]
          /\ Fail(o)
          /\ UNCHANGED <<jobs, lost>>
       \/ /\ jobs[j] \in From[step]
          /\ jobs' = landed
          /\ Proceed(o)
          /\ UNCHANGED lost
       \/ /\ jobs[j] \in From[step]
          /\ jobs' \in {jobs, landed}
          /\ Lost /\ Fail(o)
    /\ UNCHANGED <<keyed, kept, anew, blind>>

(* The job is read back; a read that fails is reported as a revert.         *)
ReadJob(o) ==
    /\ order[o].step = "read"
    /\ \/ Conclude(o) /\ UNCHANGED <<bid, lost>>
       \/ Lost /\ Fail(o)
    /\ UNCHANGED <<keyed, jobs, kept, anew, blind>>

(* The document is saved at the end of every call, and whenever another     *)
(* handler saves.                                                           *)
Save ==
    /\ stored' = task
    /\ UNCHANGED <<task, keyed, jobs, order, lost, stops, anew, blind>>

(* The calls in flight are gone, what they sent to the chain is not.        *)
Restart ==
    /\ stops < MaxStop
    /\ stops' = stops + 1
    /\ status' = stored[1] /\ bid' = stored[2]
    /\ jobId' = stored[3] /\ settled' = stored[4]
    /\ order' = [o \in Orders |-> NoOrder]
    /\ UNCHANGED <<keyed, jobs, lost, stored, anew, blind>>

TaskNext ==
    \/ Save \/ Restart
    \/ PostOpenTask \/ BidOnTask \/ DeliverTask
    \/ \E o \in Orders :
          \/ HireAgent(o) \/ AcceptBid(o)
          \/ SettleTask(o, "release") \/ SettleTask(o, "dispute")
          \/ CreateJob(o) \/ Transact(o) \/ ReadJob(o)

-----------------------------------------------------------------------------
Ended(how) == {j \in DOMAIN jobs : jobs[j] = how}
InEscrow == Ended("funded") \cup Ended("submitted")

(* A released task was paid and a refunded one refunded on chain wherever   *)
(* there is a signer, whatever overlaps, fails or restarts.                 *)
SettledIsTrue ==
    /\ settled = "onchain" /\ status = "released" => Ended("completed") # {}
    /\ settled = "onchain" /\ status = "refunded" => Ended("rejected") # {}
    /\ keyed /\ status \in Terminal => settled = "onchain"

(* A task that ended names the job that ended so, and no other: a released  *)
(* one a job that was paid, a refunded one a job that was refunded. A job   *)
(* funded at hire sees to it by itself, whatever calls overlap, fail, go    *)
(* unanswered or are forgotten by a restart; settlements that make a job of *)
(* their own do so while no other call is at work beside them.              *)
OutcomeIsTheJobs ==
    keyed /\ ~(anew /\ blind) =>
        /\ status = "released" => jobId # 0 /\ jobs[jobId] = "completed"
        /\ status = "refunded" => jobId # 0 /\ jobs[jobId] = "rejected"

(* One escrow is paid out or refunded, not two.                             *)
SettledOnceAlways == Cardinality(Ended("completed") \cup Ended("rejected")) <= 1

(* Money in escrow is on the books or a call is at work on it, while no     *)
(* transaction fails, nothing restarts and no settlement starts beside      *)
(* another call.                                                            *)
EscrowIsKnown ==
    ~blind /\ lost = 0 /\ stops = 0 =>
        InEscrow \subseteq {jobId} \cup {order[o].job : o \in AtWork}

(* marketplace.ts: the status is in lockstep with the outcome of the escrow,*)
(* also when settlements that make their own jobs overlap.                  *)
LockstepAlways == status = "released" /\ jobId # 0 => jobs[jobId] = "completed"
=============================================================================
