---------------------------- MODULE DocumentStore ----------------------------
(* The one document the platform keeps in memory and in storage: saves that*)
(* are debounced, saves a caller waits for, the chain that runs the writes *)
(* one by one, a database that may fail, and restarts.                     *)
(* Source: mcp/src/storage.ts, mcp/src/platform/core.ts.                   *)
EXTENDS Naturals, Sequences, FiniteSets

CONSTANTS Changes,   \* the changes handlers make to the document
          Callers,   \* handlers that save durably
          MaxFail,   \* bound: writes that fail
          MaxCrash   \* bound: restarts

ASSUME StoreAssumption ==
    /\ IsFiniteSet(Changes) /\ IsFiniteSet(Callers)
    /\ MaxFail \in Nat
    /\ MaxCrash \in Nat

VARIABLES
    doc,      \* the changes the live document holds
    made,     \* history: the changes made so far
    saved,    \* history: what the document held at the last saveState
    pending,  \* pending: a debounced save is due
    timer,    \* timer: the debounce runs
    chain,    \* flushChain: the writes to run, the one at work first
    work,     \* where the write at work stands
    sent,     \* what the write at work wrote down
    disk,     \* what storage holds
    late,     \* writes given up on that the database may still apply
    call,     \* the durable saves: where each caller is
    asked,    \* what the document held when the caller asked
    acked,    \* history: what callers were told is in storage
    strayed,  \* history: a late write was applied
    stopping, \* SIGTERM came: the process ends with its last flush
    failures, \* writes that failed so far
    crashes   \* restarts so far

memory == <<doc, made, saved>>
queue  == <<pending, timer, chain>>
writer == <<work, sent>>
store  == <<disk, late, strayed>>
caller == <<call, asked, acked>>
bounds == <<failures, crashes>>
vars   == <<memory, queue, writer, store, caller, stopping, bounds>>

(* A link of the chain: a flush of what is pending, or a caller's own save.*)
Flush == "flush"
Links == {Flush} \cup Callers

TypeOK ==
    /\ doc \in SUBSET Changes
    /\ made \in SUBSET Changes
    /\ saved \in SUBSET Changes
    /\ pending \in BOOLEAN /\ timer \in BOOLEAN
    /\ chain \in Seq(Links)
    /\ work \in {"idle", "pool", "sent", "applied"}
    /\ sent \in SUBSET Changes
    /\ disk \in SUBSET Changes
    /\ late \in SUBSET (SUBSET Changes)
    /\ call \in [Callers -> {"idle", "waiting", "ok", "failed"}]
    /\ asked \in [Callers -> SUBSET Changes]
    /\ acked \in SUBSET Changes
    /\ strayed \in BOOLEAN
    /\ stopping \in BOOLEAN
    /\ failures \in 0..MaxFail
    /\ crashes \in 0..MaxCrash

Fresh(d) ==
    /\ doc = d /\ saved = d
    /\ pending = FALSE /\ timer = FALSE /\ chain = <<>>
    /\ work = "idle" /\ sent = {}
    /\ call = [c \in Callers |-> "idle"]
    /\ asked = [c \in Callers |-> {}]
    /\ stopping = FALSE

Init ==
    /\ Fresh({})
    /\ made = {} /\ disk = {} /\ late = {} /\ acked = {}
    /\ strayed = FALSE /\ failures = 0 /\ crashes = 0

-----------------------------------------------------------------------------
(* A handler changes the document. What it does before its save is here.   *)
Change ==
    /\ \E e \in Changes \ made : doc' = doc \cup {e} /\ made' = made \cup {e}
    /\ UNCHANGED <<saved, queue, writer, store, caller, stopping, bounds>>

(* save. Bound: a document that did not change is not saved again.         *)
SaveState ==
    /\ doc # saved
    /\ saved' = doc
    /\ pending' = TRUE
    /\ timer' = TRUE
    /\ UNCHANGED <<doc, made, chain, writer, store, caller, stopping, bounds>>

Enqueue(link) == chain' = Append(chain, link)

(* Mutant: a timer that leaves it to a write that is running.              *)
Timer_SkipsBusy ==
    /\ timer
    /\ timer' = FALSE
    /\ chain' = IF chain = <<>> THEN <<Flush>> ELSE chain
    /\ UNCHANGED <<memory, pending, writer, store, caller, stopping, bounds>>

(* The debounce is over, 300 ms after the first save.                      *)
Timer ==
    /\ timer
    /\ timer' = FALSE
    /\ Enqueue(Flush)
    /\ UNCHANGED <<memory, pending, writer, store, caller, stopping, bounds>>

(* flushStateDurably covers what is pending: it is the same live object.   *)
(* Bound: one write on the chain for each caller.                          *)
FlushDurably(c) ==
    /\ call[c] = "idle" /\ ~\E k \in DOMAIN chain : chain[k] = c
    /\ pending' = FALSE
    /\ timer' = IF pending THEN FALSE ELSE timer
    /\ Enqueue(c)
    /\ call' = [call EXCEPT ![c] = "waiting"]
    /\ asked' = [asked EXCEPT ![c] = doc]
    /\ UNCHANGED <<memory, writer, store, acked, stopping, bounds>>

(* DURABLE_FLUSH_MS are over: the caller is told no, its write stays.      *)
GiveUp(c) ==
    /\ call[c] = "waiting"
    /\ call' = [call EXCEPT ![c] = "failed"]
    /\ UNCHANGED <<memory, queue, writer, store, asked, acked, stopping, bounds>>

(* The caller has its answer and goes on.                                  *)
Return(c) ==
    /\ call[c] \in {"ok", "failed"}
    /\ call' = [call EXCEPT ![c] = "idle"]
    /\ asked' = [asked EXCEPT ![c] = {}]
    /\ UNCHANGED <<memory, queue, writer, store, acked, stopping, bounds>>

-----------------------------------------------------------------------------
(* The chain: one write at a time.                                         *)

(* doFlush takes what is pending when its turn comes; with nothing pending *)
(* it ends at once. A durable save writes whatever is pending or not.      *)
Begin ==
    /\ work = "idle" /\ chain # <<>>
    /\ \/ /\ chain[1] = Flush /\ ~pending
          /\ chain' = Tail(chain)
          /\ UNCHANGED <<pending, work>>
       \/ /\ chain[1] = Flush => pending
          /\ pending' = IF chain[1] = Flush THEN FALSE ELSE pending
          /\ work' = "pool"
          /\ UNCHANGED chain
    /\ UNCHANGED <<memory, timer, sent, store, caller, stopping, bounds>>

(* The pool is there: the live document, as it is now, goes out.           *)
Send ==
    /\ work = "pool"
    /\ work' = "sent"
    /\ sent' = doc
    /\ UNCHANGED <<memory, queue, store, caller, stopping, bounds>>

Apply ==
    /\ work = "sent"
    /\ work' = "applied"
    /\ disk' = sent
    /\ UNCHANGED <<memory, queue, sent, late, strayed, caller, stopping, bounds>>

(* The write ends; the caller still waiting for it is told.                *)
End(answer) ==
    /\ chain' = Tail(chain)
    /\ work' = "idle"
    /\ sent' = {}
    /\ LET c == chain[1] IN
       IF c \in Callers /\ call[c] = "waiting"
       THEN /\ call' = [call EXCEPT ![c] = answer]
            /\ acked' = IF answer = "ok" THEN acked \cup asked[c] ELSE acked
       ELSE UNCHANGED <<call, acked>>
    /\ UNCHANGED <<memory, pending, timer, asked, stopping>>

Written == work = "applied" /\ End("ok") /\ UNCHANGED <<store, bounds>>

(* Mutant: the caller waits for the chain, which swallows failures.        *)
Failed_Swallowed ==
    /\ work # "idle"
    /\ failures < MaxFail
    /\ failures' = failures + 1
    /\ End("ok")
    /\ UNCHANGED <<store, crashes>>

(* The write throws: at the pool, on the way, or with its answer lost. A   *)
(* statement on its way may still be applied later.                        *)
Failed ==
    /\ work # "idle"
    /\ failures < MaxFail
    /\ failures' = failures + 1
    /\ \/ UNCHANGED late
       \/ work = "sent" /\ late' = late \cup {sent}
    /\ End("failed")
    /\ UNCHANGED <<disk, strayed, crashes>>

Straggle ==
    /\ \E d \in late : disk' = d /\ late' = late \ {d}
    /\ strayed' = TRUE
    /\ UNCHANGED <<memory, queue, writer, caller, stopping, bounds>>

(* SIGTERM flushes once more, and the process ends when that is done.      *)
Terminate ==
    /\ ~stopping
    /\ crashes < MaxCrash
    /\ stopping' = TRUE
    /\ Enqueue(Flush)
    /\ UNCHANGED <<memory, pending, timer, writer, store, caller, bounds>>

(* The process is gone; the next one loads what storage holds. The write   *)
(* at work may be one that the database applies later.                     *)
Restart ==
    /\ crashes < MaxCrash
    /\ crashes' = crashes + 1
    /\ doc' = disk /\ saved' = disk
    /\ pending' = FALSE /\ timer' = FALSE /\ chain' = <<>>
    /\ work' = "idle" /\ sent' = {}
    /\ call' = [c \in Callers |-> "idle"]
    /\ asked' = [c \in Callers |-> {}]
    /\ stopping' = FALSE
    /\ \/ UNCHANGED late
       \/ work = "sent" /\ late' = late \cup {sent}
    /\ UNCHANGED <<made, disk, strayed, acked, failures>>

Next ==
    \/ Change \/ SaveState \/ Timer
    \/ \E c \in Callers : FlushDurably(c) \/ GiveUp(c) \/ Return(c)
    \/ Begin \/ Send \/ Apply \/ Written \/ Failed \/ Straggle
    \/ Terminate \/ Restart

Spec == Init /\ [][Next]_vars

(* A timer that was set fires, and the database answers every write.       *)
FairSpec == /\ Spec
            /\ WF_vars(Timer) /\ WF_vars(Begin) /\ WF_vars(Send)
            /\ WF_vars(Apply) /\ WF_vars(Written)

-----------------------------------------------------------------------------
(* A save gets to storage in the end, when no write fails and the process  *)
(* lives on: no save is left without a timer or a write.                   *)
SavedIsWritten ==
    \A e \in Changes :
        (e \in saved) ~> (e \in disk \/ failures > 0 \/ strayed \/ e \notin saved)

(* What the document store promises to the rest of the platform.           *)
Promise == INSTANCE LossyStore
KeepsPromise == Promise!Spec
=============================================================================
