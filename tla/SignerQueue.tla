----------------------------- MODULE SignerQueue -----------------------------
(* One signer's settlements on one EVM chain: the promise chain that makes *)
(* prepare, sign, note and send run in turn, the wait that runs out, and   *)
(* the nonce floor kept after an accepted send.                            *)
(* Source: mcp/src/chains/evm/send.ts (inTurn, sendCallSigned).            *)
EXTENDS Integers, FiniteSets

CONSTANTS Call,        \* the calls to sendCallSigned with this signer
          Nobody,      \* queues.get(key) when the map has no entry
          Impatient,   \* the calls whose wait (queueWaitMs) may run out
          Faults,      \* the steps that may fail: subset of Steps
          FloorTtl     \* FLOOR_TTL_MS, in ticks

Steps == {"prepare", "sign", "note", "send"}

ASSUME SignerAssumption ==
    /\ IsFiniteSet(Call)
    /\ Nobody \notin Call
    /\ Impatient \subseteq Call
    /\ Faults \subseteq Steps
    /\ FloorTtl \in Nat

VARIABLES
    tail,      \* the call whose tail queues holds, or Nobody
    before,    \* the calls whose turns the call waits for
    released,  \* the calls whose own promise is resolved
    stage,     \* where the call is
    nonce,     \* the nonce it signed with
    pending,   \* the count its prepare was answered
    floor,     \* the kept floor: at most one
    pool,      \* the calls a node took and no block holds
    mined,     \* nonces the chain has used
    lapsed,    \* history: a floor expired, or was dropped by a call not sent after it
    adrift,    \* history: the calls at work or waiting when the queue's entry was lost
    lost,      \* history: nonces of transactions every host dropped
    quiet      \* history: ticks since the hosts' counts last moved (see Quiet)

vars == <<tail, before, released, stage, nonce, pending, floor, pool, mined, lapsed, adrift, lost, quiet>>

Working == {"turn", "signed", "sending", "looking"}
Ended   == {"busy", "threw", "not_noted", "sent", "refused", "unknown"}
Nonces  == 0..Cardinality(Call)

(* age: ticks since the pending count last moved, and no more than says it *)
(* has expired.                                                            *)
Floor == [next : Nonces, age : 0..(FloorTtl + 1), pending : Nonces]

(* Two lives of a floor, and bound: ticks counted.                         *)
TwoLives == 2 * FloorTtl + 1
QuietMax == TwoLives + 1

TypeOK ==
    /\ tail \in Call \cup {Nobody}
    /\ before \in [Call -> SUBSET Call]
    /\ released \in SUBSET Call
    /\ stage \in [Call -> {"new", "queued"} \cup Working \cup Ended]
    /\ nonce \in [Call -> Nonces]
    /\ pending \in [Call -> Nonces]
    /\ floor \in SUBSET Floor
    /\ \A f, g \in floor : f = g
    /\ lapsed \in BOOLEAN
    /\ adrift \in SUBSET Call
    /\ pool \in SUBSET Call
    /\ mined \in Nonces
    /\ lost \in SUBSET Nonces
    /\ quiet \in 0..QuietMax

Init ==
    /\ tail = Nobody
    /\ before = [c \in Call |-> {}]
    /\ released = {}
    /\ stage = [c \in Call |-> "new"]
    /\ nonce = [c \in Call |-> 0]
    /\ pending = [c \in Call |-> 0]
    /\ floor = {}
    /\ pool = {}
    /\ mined = 0
    /\ lapsed = FALSE
    /\ adrift = {}
    /\ lost = {}
    /\ quiet = 0

-----------------------------------------------------------------------------
(* inTurn.                                                                 *)

Enter(c) ==
    /\ stage[c] = "new"
    /\ before' = [before EXCEPT ![c] = IF tail = Nobody THEN {} ELSE before[tail] \cup {tail}]
    /\ tail' = c
    /\ stage' = [stage EXCEPT ![c] = "queued"]
    /\ UNCHANGED <<released, nonce, pending, floor, pool, mined, lapsed, adrift, lost, quiet>>

(* Mutants: every exit clears the map; a waiter that gave up is never      *)
(* released.                                                               *)
Leave_ClearsAlways(c, outcome) ==
    /\ stage' = [stage EXCEPT ![c] = outcome]
    /\ released' = released \cup {c}
    /\ tail' = Nobody
Leave_HoldsOn(c, outcome) ==
    /\ stage' = [stage EXCEPT ![c] = outcome]
    /\ released' = IF outcome = "busy" THEN released ELSE released \cup {c}
    /\ tail' = IF tail = c THEN Nobody ELSE tail

(* The finally block: release, and clear the map when the tail is its own. *)
Leave(c, outcome) ==
    /\ stage' = [stage EXCEPT ![c] = outcome]
    /\ released' = released \cup {c}
    /\ tail' = IF tail = c THEN Nobody ELSE tail

TakeTurn(c) ==
    /\ stage[c] = "queued"
    /\ before[c] \subseteq released
    /\ stage' = [stage EXCEPT ![c] = "turn"]
    /\ UNCHANGED <<tail, before, released, nonce, pending, floor, pool, mined, lapsed, adrift, lost, quiet>>

(* A waiter that is the tail takes the entry with it, and whoever comes     *)
(* next waits for none of those still at work or waiting.                  *)
GiveUp(c) ==
    /\ stage[c] = "queued"
    /\ c \in Impatient
    /\ ~(before[c] \subseteq released)
    /\ Leave(c, "busy")
    /\ adrift' = IF tail = c
                 THEN adrift \cup {d \in Call \ {c} : stage[d] \in {"queued"} \cup Working}
                 ELSE adrift
    /\ UNCHANGED <<before, nonce, pending, floor, pool, mined, lapsed, lost, quiet>>

-----------------------------------------------------------------------------
(* sendCallSigned. A host's pending count may lag what another host took.  *)

Held(n) == \E d \in pool : nonce[d] = n

PendingCounts == {n \in mined..(mined + Cardinality(Call)) : \A k \in mined..(n - 1) : Held(k)}

(* Ticks are counted from the last step that moved a count, and from the   *)
(* last send that was prepared on a count the hosts no longer give.        *)
Quiet(asked) ==
    quiet' = IF PendingCounts' = PendingCounts /\ asked \subseteq PendingCounts
             THEN quiet ELSE 0

(* Mutant: no floor is kept.                                               *)
Expired_Always(f) == TRUE

Expired(f) == f.age > FloorTtl

(* A call that has a nonce ends without its send being accepted; the floor  *)
(* that an earlier accepted send kept may be gone by then.                 *)
LeaveUnsent(c, outcome) ==
    /\ Leave(c, outcome)
    /\ lapsed' = (lapsed \/ (floor' = {} /\ \E d \in Call : stage[d] = "sent"))

(* The floor is dropped when it expired or the count has reached it, and   *)
(* only then does the call sign: a sign that throws has dropped it too. A  *)
(* request that cannot be prepared leaves it.                              *)
Prepare(c) ==
    /\ stage[c] = "turn"
    /\ \/ \E n \in PendingCounts :
            LET over == {f \in floor : ~Expired(f) /\ n < f.next}
                mine == IF over = {} THEN n ELSE (CHOOSE f \in over : TRUE).next
            IN  /\ floor' = over
                /\ \/ /\ nonce' = [nonce EXCEPT ![c] = mine]
                      /\ pending' = [pending EXCEPT ![c] = n]
                      /\ lapsed' = (lapsed \/ \E f \in floor : f.age > FloorTtl)
                      /\ stage' = [stage EXCEPT ![c] = "signed"]
                      /\ UNCHANGED <<tail, released>>
                   \/ /\ "sign" \in Faults
                      /\ LeaveUnsent(c, "threw")
                      /\ UNCHANGED <<nonce, pending>>
       \/ /\ "prepare" \in Faults
          /\ Leave(c, "threw")
          /\ UNCHANGED <<nonce, pending, floor, lapsed>>
    /\ UNCHANGED <<before, pool, mined, adrift, lost, quiet>>

(* beforeSend: the caller saves the hash, or nothing is sent.              *)
Note(c) ==
    /\ stage[c] = "signed"
    /\ UNCHANGED <<before, nonce, pending, floor, pool, mined, adrift, lost, quiet>>
    /\ \/ stage' = [stage EXCEPT ![c] = "sending"] /\ UNCHANGED <<tail, released, lapsed>>
       \/ "note" \in Faults /\ LeaveUnsent(c, "not_noted")

(* Mutant: every send starts the floor's clock again.                      *)
KeepFloor_Fresh(c) == floor' = {[next |-> nonce[c] + 1, age |-> 0, pending |-> pending[c]]}

KeepFloor(c) ==
    LET stalled == {f \in floor : pending[c] <= f.pending}
    IN  floor' = IF stalled = {}
                 THEN {[next |-> nonce[c] + 1, age |-> 0, pending |-> pending[c]]}
                 ELSE {[f EXCEPT !.next = nonce[c] + 1] : f \in stalled}

Taken(c) == nonce[c] >= mined /\ pool' = pool \cup {c}

(* Mutant: a send with no clear answer keeps a floor too.                  *)
Send_FloorAnyway(c) ==
    /\ stage[c] = "sending"
    /\ KeepFloor(c)
    /\ \/ Taken(c) /\ Leave(c, "sent") /\ UNCHANGED lapsed
       \/ "send" \in Faults /\ LeaveUnsent(c, "unknown") /\ UNCHANGED pool
    /\ UNCHANGED <<before, nonce, pending, mined, adrift, lost>>
    /\ Quiet({pending[c]})

(* A host takes it, whatever another host holds at that nonce; or the      *)
(* answer is lost and it may have been taken; or it is turned away.        *)
Send(c) ==
    /\ stage[c] = "sending"
    /\ \/ Taken(c) /\ KeepFloor(c) /\ Leave(c, "sent") /\ UNCHANGED lapsed
       \/ /\ "send" \in Faults \/ nonce[c] < mined
          /\ Taken(c) \/ UNCHANGED pool
          /\ UNCHANGED floor
          /\ LeaveUnsent(c, "unknown")
       \/ /\ "send" \in Faults
          /\ stage' = [stage EXCEPT ![c] = "looking"]
          /\ UNCHANGED <<tail, released, floor, pool, lapsed>>
    /\ UNCHANGED <<before, nonce, pending, mined, adrift, lost>>
    /\ Quiet({pending[c]})

(* The look at every host after a refusal. The turn lasts until it ends.   *)
Look(c) ==
    /\ stage[c] = "looking"
    /\ UNCHANGED <<before, nonce, pending, floor, pool, mined, adrift, lost, quiet>>
    /\ \E outcome \in {"refused", "unknown"} : LeaveUnsent(c, outcome)

-----------------------------------------------------------------------------
(* The chain and the clock. A send whose answer was lost may be taken late.*)

TakenLate(c) ==
    /\ stage[c] = "unknown"
    /\ c \notin pool
    /\ nonce[c] >= mined
    /\ pool' = pool \cup {c}
    /\ UNCHANGED <<tail, before, released, stage, nonce, pending, floor, mined, lapsed, adrift, lost>>
    /\ Quiet({})

Mine(c) ==
    /\ c \in pool
    /\ nonce[c] = mined
    /\ mined' = mined + 1
    /\ pool' = {d \in pool : nonce[d] # mined}
    /\ UNCHANGED <<tail, before, released, stage, nonce, pending, floor, lapsed, adrift, lost>>
    /\ Quiet({})

(* Every host drops a transaction it held.                                 *)
Vanish(c) ==
    /\ c \in pool
    /\ pool' = pool \ {c}
    /\ lost' = lost \cup {nonce[c]}
    /\ UNCHANGED <<tail, before, released, stage, nonce, pending, floor, mined, lapsed, adrift>>
    /\ Quiet({})

Tick ==
    /\ \E f \in floor : f.age <= FloorTtl
    /\ floor' = {[f EXCEPT !.age = @ + 1] : f \in floor}
    /\ quiet' = IF quiet < QuietMax THEN quiet + 1 ELSE quiet
    /\ UNCHANGED <<tail, before, released, stage, nonce, pending, pool, mined, lapsed, adrift, lost>>

Turn(c) == TakeTurn(c) \/ Prepare(c) \/ Note(c) \/ Send(c) \/ Look(c)

Next ==
    \/ \E c \in Call : Enter(c) \/ GiveUp(c) \/ Turn(c) \/ TakenLate(c) \/ Mine(c) \/ Vanish(c)
    \/ Tick

Spec == Init /\ [][Next]_vars

-----------------------------------------------------------------------------
(* Prepare, sign, note and send run one at a time per signer and chain,    *)
(* whoever gives up, fails or overtakes: of two calls in their turns one   *)
(* was there when a waiter that gave up took the queue's entry with it.    *)
OneAtATime ==
    \A c, d \in Call : stage[c] \in Working /\ stage[d] \in Working /\ c # d
      => c \in adrift \/ d \in adrift

(* Two accepted sends never share a nonce, so one of two settlements is not*)
(* lost to the other's nonce, whatever the hosts drop or lag and whichever *)
(* calls fail, turn away or give up: while no floor has expired, none was  *)
(* dropped by the prepare of a call that then was not accepted, and no     *)
(* waiter took the queue's entry with it.                                  *)
Disturbed == lapsed \/ adrift # {}

NoncesDistinct ==
    \A c, d \in Call :
      c # d /\ stage[c] = "sent" /\ stage[d] = "sent" /\ nonce[c] = nonce[d]
        => Disturbed

(* Nothing a node took waits on a nonce nobody has sent: a floor never     *)
(* leaves a gap that stalls everything behind it. Only a transaction every *)
(* host dropped leaves one.                                                *)
NoGap == \A c \in pool : \A n \in mined..(nonce[c] - 1) : Held(n) \/ n \in lost

(* A gap a dropped transaction left is filled by the next send once the    *)
(* floors had time to run out twice: sends queued above the gap do not keep*)
(* the floor's clock from running. Calls that overlap, after the queue's   *)
(* entry was lost, may each keep a floor that another one dropped.         *)
GapIsRefilled ==
    [][\A c \in Call : stage[c] = "turn" /\ stage'[c] = "signed"
                       /\ ~Held(mined) /\ quiet > TwoLives
                       /\ adrift = {}
         => nonce'[c] = mined]_vars

(* Nobody waits for nothing: while a call waits, some call is in its turn  *)
(* or may take it, whoever gave up before it.                              *)
NobodyStranded ==
    (\E c \in Call : stage[c] = "queued")
      => \E c \in Call :
            \/ stage[c] \in Working
            \/ stage[c] = "queued" /\ before[c] \subseteq released
=============================================================================
