-------------------------- MODULE SignerQueue_proofs --------------------------
(* Proofs about SignerQueue, for any number of calls: inTurn's promise      *)
(* chain keeps one call at a time but for those a lost entry set adrift;    *)
(* sends leave no gap and share no nonce; a waiting call is never stranded; and a gap that a   *)
(* dropped transaction left is filled when the floor above it has run out.  *)
EXTENDS SignerQueue, FiniteSetTheorems, WellFoundedInduction, TLAPS

Live(c) == stage[c] = "queued" \/ stage[c] \in Working

QueueTyped ==
    /\ tail \in Call \cup {Nobody}
    /\ before \in [Call -> SUBSET Call]
    /\ released \in SUBSET Call
    /\ stage \in [Call -> {"new", "queued"} \cup Working \cup Ended]

(* A released call has left.                                               *)
ReleasedLeft == \A c \in released : stage[c] \in Ended

(* A call in its turn waited for all it had to.                            *)
TurnWaited == \A c \in Call : stage[c] \in Working => before[c] \subseteq released

(* The map's tail is behind every live call whose entry was not lost, so   *)
(* the next one waits for all of them.                                     *)
TailIsLast == \A c \in Call \ adrift : Live(c) => tail # Nobody /\ (c = tail \/ c \in before[tail])

(* Of two such calls one waits for the other.                              *)
Chained == \A c, d \in Call \ adrift : Live(c) /\ Live(d) /\ c # d => c \in before[d] \/ d \in before[c]

ChainInv == QueueTyped /\ ReleasedLeft /\ TurnWaited /\ TailIsLast /\ Chained

Typed == stage \in [Call -> {"new", "queued"} \cup Working \cup Ended]

(* What the steps within a turn do to the chain.                           *)
Within(c) ==
    /\ stage[c] \in Working
    /\ \E s \in Working : stage' = [stage EXCEPT ![c] = s]
    /\ UNCHANGED <<tail, before, released, adrift>>
Leaves(c) ==
    /\ stage[c] \in Working
    /\ \E s \in Ended : Leave(c, s)
    /\ UNCHANGED <<before, adrift>>

(* The chain has its shape before anybody calls.                           *)
LEMMA ChainInit == Init => ChainInv
BY SignerAssumption
   DEF Init, ChainInv, QueueTyped, ReleasedLeft, TurnWaited, TailIsLast, Chained, Live, Working, Ended

(* The chain admits one call.                                              *)
LEMMA ChainAdmitsOne == ChainInv => OneAtATime
<1> SUFFICES ASSUME ChainInv, NEW c \in Call \ adrift, NEW d \in Call \ adrift, c # d,
                    stage[c] \in Working, stage[d] \in Working
             PROVE  FALSE
  BY DEF OneAtATime
<1>1. c \in before[d] \/ d \in before[c]
  BY DEF ChainInv, Chained, Live
<1>2. c \in released \/ d \in released
  BY <1>1 DEF ChainInv, TurnWaited
<1> QED
  BY <1>2 DEF ChainInv, ReleasedLeft, Working, Ended

(* A newcomer waits for the tail and for all the tail waits for.           *)
LEMMA EnterChain == ASSUME ChainInv, NEW c \in Call, Enter(c) PROVE ChainInv'
<1> USE DEF Live, Working, Ended
<1>1. /\ stage[c] = "new"
      /\ c \notin released
      /\ released' = released /\ adrift' = adrift
      /\ tail' = c
      /\ stage'[c] = "queued"
      /\ \A d \in Call : d # c => stage'[d] = stage[d] /\ before'[d] = before[d]
  BY DEF Enter, ChainInv, QueueTyped, ReleasedLeft
<1>2. QueueTyped'
  BY SignerAssumption DEF Enter, ChainInv, QueueTyped
<1>3. \A d \in Call \ adrift : d # c /\ Live(d) => d \in before'[c]
  BY DEF Enter, ChainInv, QueueTyped, TailIsLast
<1>4. ReleasedLeft'
  BY <1>1 DEF ChainInv, QueueTyped, ReleasedLeft
<1>5. TurnWaited'
  BY <1>1 DEF ChainInv, QueueTyped, TurnWaited
<1>6. TailIsLast'
  BY <1>1, <1>3, SignerAssumption DEF TailIsLast
<1>7. Chained'
  BY <1>1, <1>3 DEF ChainInv, Chained
<1> QED
  BY <1>2, <1>4, <1>5, <1>6, <1>7 DEF ChainInv

(* A call takes its turn when all it waits for have left.                  *)
LEMMA TakeTurnChain == ASSUME ChainInv, NEW c \in Call, TakeTurn(c) PROVE ChainInv'
<1> USE DEF Live, Working, Ended
<1>1. /\ stage[c] = "queued"
      /\ stage'[c] = "turn"
      /\ before[c] \subseteq released
      /\ \A d \in Call : d # c => stage'[d] = stage[d]
      /\ UNCHANGED <<tail, before, released, adrift>>
  BY DEF TakeTurn, ChainInv, QueueTyped
<1>2. QueueTyped'
  BY DEF TakeTurn, ChainInv, QueueTyped
<1>3. ReleasedLeft'
  BY <1>1 DEF ChainInv, QueueTyped, ReleasedLeft
<1>4. TurnWaited'
  BY <1>1 DEF ChainInv, QueueTyped, TurnWaited
<1>5. TailIsLast'
  BY <1>1 DEF ChainInv, TailIsLast
<1>6. Chained'
  BY <1>1 DEF ChainInv, Chained
<1> QED
  BY <1>2, <1>3, <1>4, <1>5, <1>6 DEF ChainInv

(* Going on within a turn leaves the chain alone.                          *)
LEMMA WithinChain == ASSUME ChainInv, NEW c \in Call, Within(c) PROVE ChainInv'
<1> USE DEF Live, Working, Ended
<1>1. /\ stage[c] \in Working
      /\ stage'[c] \in Working
      /\ \A d \in Call : d # c => stage'[d] = stage[d]
      /\ UNCHANGED <<tail, before, released, adrift>>
  BY DEF Within, ChainInv, QueueTyped
<1>2. QueueTyped'
  BY DEF Within, ChainInv, QueueTyped
<1>3. ReleasedLeft'
  BY <1>1 DEF ChainInv, QueueTyped, ReleasedLeft
<1>4. TurnWaited'
  BY <1>1 DEF ChainInv, QueueTyped, TurnWaited
<1>5. TailIsLast'
  BY <1>1 DEF ChainInv, TailIsLast
<1>6. Chained'
  BY <1>1 DEF ChainInv, Chained
<1> QED
  BY <1>2, <1>3, <1>4, <1>5, <1>6 DEF ChainInv

(* The call in its turn is the first of the chain: when it is the tail too,*)
(* nobody is left, and the map may forget the chain.                       *)
LEMMA LeaveChain == ASSUME ChainInv, NEW c \in Call, Leaves(c) PROVE ChainInv'
<1> USE DEF Live, Working, Ended
<1>1. /\ stage[c] \in Working
      /\ stage'[c] \in Ended
      /\ \A d \in Call : d # c => stage'[d] = stage[d]
      /\ released' = released \cup {c}
      /\ tail' = IF tail = c THEN Nobody ELSE tail
      /\ before' = before /\ adrift' = adrift
  BY DEF Leaves, Leave, ChainInv, QueueTyped
<1>2. QueueTyped'
  BY <1>1 DEF Leaves, Leave, ChainInv, QueueTyped
<1>3. ReleasedLeft'
  BY <1>1 DEF ChainInv, QueueTyped, ReleasedLeft
<1>4. TurnWaited'
  BY <1>1 DEF ChainInv, QueueTyped, TurnWaited
<1>5. \A d \in before[c] : stage[d] \in Ended
  BY <1>1 DEF ChainInv, TurnWaited, ReleasedLeft
<1>6. TailIsLast'
  <2>1. SUFFICES ASSUME NEW d \in Call \ adrift, Live(d)'
                 PROVE  tail' # Nobody /\ (d = tail' \/ d \in before'[tail'])
    BY <1>1 DEF TailIsLast
  <2>2. d # c /\ Live(d)
    BY <1>1, <2>1
  <2>3. tail # Nobody /\ (d = tail \/ d \in before[tail])
    BY <2>2 DEF ChainInv, TailIsLast
  <2>4. tail # c
    BY <1>5, <2>2, <2>3
  <2> QED
    BY <1>1, <2>3, <2>4
<1>7. Chained'
  BY <1>1 DEF ChainInv, Chained
<1> QED
  BY <1>2, <1>3, <1>4, <1>6, <1>7 DEF ChainInv

(* Each step of a turn goes on within it or leaves.                        *)
LEMMA TurnSteps ==
    ASSUME NEW c \in Call, Prepare(c) \/ Note(c) \/ Send(c) \/ Look(c)
    PROVE  Within(c) \/ Leaves(c)
<1>1. CASE Prepare(c)
  BY <1>1 DEF Prepare, LeaveUnsent, Within, Leaves, Working, Ended
<1>2. CASE Note(c)
  BY <1>2 DEF Note, LeaveUnsent, Within, Leaves, Working, Ended
<1>3. CASE Send(c)
  BY <1>3 DEF Send, LeaveUnsent, Within, Leaves, Working, Ended
<1>4. CASE Look(c)
  BY <1>4 DEF Look, LeaveUnsent, Within, Leaves, Working, Ended
<1> QED
  BY <1>1, <1>2, <1>3, <1>4

(* A waiter that gives up stays in the chain of those behind it; as the     *)
(* tail it takes the entry, and all the live ones are adrift.               *)
LEMMA GiveUpChain == ASSUME ChainInv, NEW c \in Call, GiveUp(c) PROVE ChainInv'
<1> USE DEF Live, Working, Ended
<1>1. /\ stage'[c] = "busy"
      /\ \A d \in Call : d # c => stage'[d] = stage[d]
      /\ released' = released \cup {c}
      /\ tail' = IF tail = c THEN Nobody ELSE tail
      /\ before' = before
      /\ adrift \subseteq adrift'
  BY DEF GiveUp, Leave, ChainInv, QueueTyped
<1>2. QueueTyped'
  BY <1>1 DEF GiveUp, Leave, ChainInv, QueueTyped
<1>3. ReleasedLeft'
  BY <1>1 DEF ChainInv, QueueTyped, ReleasedLeft
<1>4. TurnWaited'
  BY <1>1 DEF ChainInv, QueueTyped, TurnWaited
<1>5. TailIsLast'
  <2>1. CASE tail = c
    <3>1. \A d \in Call : Live(d)' => d \in adrift'
      BY <1>1, <2>1 DEF GiveUp
    <3> QED
      BY <3>1 DEF TailIsLast
  <2>2. CASE tail # c
    BY <1>1, <2>2 DEF ChainInv, TailIsLast
  <2> QED
    BY <2>1, <2>2
<1>6. Chained'
  BY <1>1 DEF ChainInv, Chained
<1> QED
  BY <1>2, <1>3, <1>4, <1>5, <1>6 DEF ChainInv

(* Every step keeps the chain's shape.                                     *)
LEMMA ChainStep == ASSUME ChainInv, [Next]_vars PROVE ChainInv'
<1> USE DEF ChainInv, QueueTyped, ReleasedLeft, TurnWaited, TailIsLast, Chained, Live
<1>1. CASE UNCHANGED <<tail, before, released, stage, adrift>>
  BY <1>1
<1>2. ASSUME NEW c \in Call, Turn(c)
      PROVE  ChainInv'
  <2> HIDE DEF ChainInv
  <2> QED
    BY <1>2, TakeTurnChain, TurnSteps, WithinChain, LeaveChain DEF Turn
<1>3. ASSUME NEW c \in Call, Enter(c) \/ GiveUp(c)
      PROVE  ChainInv'
  <2> HIDE DEF ChainInv
  <2> QED
    BY <1>3, EnterChain, GiveUpChain
<1>4. ASSUME NEW c \in Call, TakenLate(c) \/ Mine(c) \/ Vanish(c)
      PROVE  ChainInv'
  BY <1>1, <1>4 DEF TakenLate, Mine, Vanish
<1>5. CASE Tick
  BY <1>1, <1>5 DEF Tick
<1>6. CASE UNCHANGED vars
  BY <1>1, <1>6 DEF vars
<1> HIDE DEF ChainInv
<1> QED
  BY <1>2, <1>3, <1>4, <1>5, <1>6 DEF Next

(* Every step keeps the stages what they are, and who is adrift stays so.  *)
LEMMA StageStep == ASSUME Typed, [Next]_vars PROVE Typed' /\ adrift \subseteq adrift'
<1> USE DEF Typed, Working, Ended
<1>1. CASE UNCHANGED <<stage, adrift>>
  BY <1>1
<1>2. ASSUME NEW c \in Call, NEW to \in {"queued"} \cup Working \cup Ended,
             stage' = [stage EXCEPT ![c] = to]
      PROVE  Typed'
  BY <1>2
<1>3. ASSUME NEW c \in Call, Enter(c) \/ GiveUp(c) \/ TakeTurn(c)
      PROVE  Typed' /\ adrift \subseteq adrift'
  BY <1>2, <1>3 DEF Enter, GiveUp, TakeTurn, Leave
<1>4. ASSUME NEW c \in Call, Prepare(c) \/ Note(c) \/ Send(c) \/ Look(c)
      PROVE  Typed' /\ adrift \subseteq adrift'
  BY <1>2, <1>4, TurnSteps DEF Within, Leaves, Leave
<1>5. ASSUME NEW c \in Call, TakenLate(c) \/ Mine(c) \/ Vanish(c)
      PROVE  UNCHANGED <<stage, adrift>>
  BY <1>5 DEF TakenLate, Mine, Vanish
<1>6. CASE Tick \/ UNCHANGED vars
  BY <1>1, <1>6 DEF Tick, vars
<1> QED
  BY <1>1, <1>3, <1>4, <1>5, <1>6 DEF Next, Turn

(* send.ts's header: prepare, sign, note and send run one at a time per    *)
(* signer, for any number of calls, any faults and any lag of the hosts.   *)
(* Only a call that was there when a waiter took the queue's entry with it *)
(* may have company.                                                       *)
THEOREM TurnsTaken == Spec => []OneAtATime
BY ChainInit, ChainStep, ChainAdmitsOne, PTL DEF Spec

-----------------------------------------------------------------------------
(* Nonces. A call past its prepare has one it may send with.                *)
Signed == {"signed", "sending", "looking"}
Sent   == {"sent", "unknown"}

NonceTyped ==
    /\ Typed
    /\ nonce \in [Call -> Nat] /\ pending \in [Call -> Nat]
    /\ floor \in SUBSET [next : Nat, age : Nat, pending : Nat]
    /\ \A f, g \in floor : f = g
    /\ mined \in Nat
    /\ pool \in SUBSET Call
    /\ \A c \in pool : stage[c] \in Sent

(* Nobody has to send anything more for this nonce to be next.              *)
Filled(n) == \A k \in mined..(n - 1) : Held(k) \/ k \in lost

(* Whatever was signed, sent or is kept as the floor, nothing is missing    *)
(* below it.                                                                *)
Grounded ==
    /\ \A c \in Call : stage[c] \in Signed \cup Sent => Filled(nonce[c])
    /\ \A f \in floor : Filled(f.next)

GapInv == NonceTyped /\ Grounded

(* What an accepted send used is below what is signed after it and below    *)
(* the floor; with nobody signed there is a floor.                          *)
Behind(c) ==
    /\ \A d \in Call : stage[d] \in Signed => nonce[c] < nonce[d]
    /\ \A f \in floor : nonce[c] < f.next
    /\ (\A d \in Call : stage[d] \notin Signed) => floor # {}
NonceInv ==
    ~Disturbed =>
        /\ \A c \in Call : stage[c] = "sent" => Behind(c)
        /\ \A c, d \in Call : stage[c] = "sent" /\ stage[d] = "sent" /\ c # d => nonce[c] # nonce[d]

LEMMA GapInit == Init => GapInv /\ NonceInv
BY DEF Init, GapInv, NonceTyped, Typed, Grounded, NonceInv, Signed, Sent, Working, Ended

(* Steps that touch no nonce, no floor and no pool, and sign nothing.       *)
LEMMA GapIdle ==
    ASSUME GapInv, UNCHANGED <<nonce, pending, floor, pool, mined, lost>>, Typed',
           \A c \in Call : /\ stage'[c] \in Signed \cup Sent => stage[c] \in Signed \cup Sent
                           /\ c \in pool => stage'[c] = stage[c]
    PROVE  GapInv'
BY DEF GapInv, NonceTyped, Grounded, Filled, Held

LEMMA NonceIdle ==
    ASSUME NonceInv, UNCHANGED <<nonce, floor>>, Disturbed => Disturbed',
           \A c \in Call : /\ stage'[c] = "sent" <=> stage[c] = "sent"
                           /\ stage'[c] \in Signed <=> stage[c] \in Signed
    PROVE  NonceInv'
BY DEF NonceInv, Behind

(* A call that ends unsent leaves a floor, or is counted.                   *)
LEMMA NonceUnsent ==
    ASSUME NonceInv, Typed, UNCHANGED nonce, floor' \subseteq floor, ~Disturbed, ~Disturbed',
           NEW c \in Call, stage[c] # "sent",
           NEW s \in Ended \ {"sent"}, LeaveUnsent(c, s)
    PROVE  NonceInv'
<1>1. \A d \in Call : /\ stage'[d] = "sent" <=> stage[d] = "sent"
                      /\ stage'[d] \in Signed => stage[d] \in Signed
  BY DEF LeaveUnsent, Leave, Typed, Signed, Ended
<1>2. \A d \in Call : stage[d] = "sent" => floor' # {}
  BY DEF LeaveUnsent, Disturbed
<1> QED
  BY <1>1, <1>2 DEF NonceInv, Behind

(* Once disturbed, always disturbed.                                        *)
LEMMA DisturbedStays == ASSUME Typed, [Next]_vars PROVE Disturbed => Disturbed'
<1>1. adrift \subseteq adrift'
  BY StageStep
<1>2. lapsed => lapsed'
  BY DEF Next, Turn, Enter, GiveUp, TakeTurn, Prepare, Note, Send, Look, LeaveUnsent,
         TakenLate, Mine, Vanish, Tick, vars
<1> QED
  BY <1>1, <1>2 DEF Disturbed

(* A nonce that is filled stays so while the pool grows or drops one.       *)
LEMMA FilledStays ==
    ASSUME GapInv, NEW n \in Nat, Filled(n), UNCHANGED <<nonce, mined>>, lost \subseteq lost',
           \A c \in pool : c \in pool' \/ nonce[c] \in lost'
    PROVE  Filled(n)'
BY DEF GapInv, NonceTyped, Filled, Held

(* The nonce of a prepare is the count a host gave or the floor above it.   *)
LEMMA PrepareGap ==
    ASSUME GapInv, NEW c \in Call, Prepare(c), Typed'
    PROVE  GapInv'
<1>1. CASE Leave(c, "threw") /\ UNCHANGED <<nonce, pending, pool, mined, lost>> /\ floor' \subseteq floor
  <2>1. \A n : Filled(n)' <=> Filled(n)
    BY <1>1 DEF Filled, Held
  <2>2. \A d \in Call : stage'[d] = IF d = c THEN "threw" ELSE stage[d]
    BY <1>1 DEF Leave, GapInv, NonceTyped, Typed
  <2>3. c \notin pool
    BY DEF Prepare, GapInv, NonceTyped, Sent
  <2> QED
    BY <1>1, <2>1, <2>2, <2>3 DEF GapInv, NonceTyped, Grounded, Signed, Sent
<1>2. ASSUME NEW n \in PendingCounts,
             LET over == {f \in floor : ~Expired(f) /\ n < f.next}
                 mine == IF over = {} THEN n ELSE (CHOOSE f \in over : TRUE).next
             IN  /\ floor' = over
                 /\ nonce' = [nonce EXCEPT ![c] = mine]
                 /\ pending' = [pending EXCEPT ![c] = n]
                 /\ stage' = [stage EXCEPT ![c] = "signed"],
             UNCHANGED <<pool, mined, lost>>
      PROVE  GapInv'
  <2> DEFINE over == {f \in floor : ~Expired(f) /\ n < f.next}
             mine == IF over = {} THEN n ELSE (CHOOSE f \in over : TRUE).next
  <2>1. n \in Nat /\ n >= mined /\ Filled(n)
    BY DEF PendingCounts, GapInv, NonceTyped, Filled
  <2>2. mine \in Nat /\ Filled(mine)
    BY <2>1 DEF GapInv, NonceTyped, Grounded
  <2>3. c \notin pool
    BY DEF Prepare, GapInv, NonceTyped, Sent
  <2>4. \A k : Held(k)' <=> Held(k)
    BY <1>2, <2>3 DEF Held, GapInv, NonceTyped
  <2>5. \A k : Filled(k)' <=> Filled(k)
    BY <1>2, <2>4 DEF Filled
  <2>6. /\ floor' \subseteq floor
        /\ nonce' = [nonce EXCEPT ![c] = mine]
        /\ pending' = [pending EXCEPT ![c] = n]
        /\ stage' = [stage EXCEPT ![c] = "signed"]
    BY <1>2
  <2>7. NonceTyped'
    BY <1>2, <2>1, <2>2, <2>3, <2>6 DEF GapInv, NonceTyped, Typed
  <2>8. Grounded'
    BY <2>2, <2>5, <2>6 DEF GapInv, NonceTyped, Typed, Grounded
  <2> QED
    BY <2>7, <2>8 DEF GapInv
<1> QED
  BY <1>1, <1>2 DEF Prepare, LeaveUnsent

(* A floor is kept one above a nonce that a node just took.                 *)
LEMMA SendGap ==
    ASSUME GapInv, NEW c \in Call, Send(c), Typed'
    PROVE  GapInv'
<1>1. stage[c] = "sending" /\ UNCHANGED <<nonce, pending, mined, lost>>
  BY DEF Send
<1>2. \A d \in Call : d # c => stage'[d] = stage[d]
  BY DEF Send, LeaveUnsent, Leave, GapInv, NonceTyped, Typed
<1>3. stage'[c] \in Sent \cup Signed /\ pool \subseteq pool'
  BY DEF Send, LeaveUnsent, Leave, Taken, GapInv, NonceTyped, Typed, Sent, Signed
<1>4. pool' \subseteq pool \cup {c} /\ (c \in pool' => stage'[c] \in Sent)
  BY <1>1 DEF Send, LeaveUnsent, Leave, Taken, GapInv, NonceTyped, Typed, Sent
<1>5. \A n \in Nat : Filled(n) => Filled(n)'
  BY <1>1, <1>3, FilledStays
<1>6. Filled(nonce[c]) /\ nonce[c] \in Nat
  BY <1>1 DEF GapInv, NonceTyped, Grounded, Signed
<1>7. CASE Taken(c) /\ KeepFloor(c)
  <2>1. Held(nonce[c])' /\ Filled(nonce[c])'
    BY <1>1, <1>5, <1>6, <1>7 DEF Taken, Held
  <2>2. Filled(nonce[c] + 1)'
    BY <1>1, <1>6, <2>1 DEF Filled, GapInv, NonceTyped
  <2>3. /\ floor' \in SUBSET [next : Nat, age : Nat, pending : Nat]
        /\ \A f, g \in floor' : f = g
        /\ \A f \in floor' : f.next = nonce[c] + 1
    BY <1>6, <1>7 DEF KeepFloor, GapInv, NonceTyped
  <2> QED
    BY <1>1, <1>2, <1>3, <1>4, <1>5, <1>6, <2>2, <2>3 DEF GapInv, NonceTyped, Grounded
<1>8. CASE UNCHANGED floor
  BY <1>1, <1>2, <1>3, <1>4, <1>5, <1>6, <1>8 DEF GapInv, NonceTyped, Grounded
<1> QED
  BY <1>7, <1>8 DEF Send

(* A block takes the lowest nonce; what is above it was filled without it.  *)
LEMMA MineGap ==
    ASSUME GapInv, NEW c \in Call, Mine(c)
    PROVE  GapInv'
<1>1. \A n \in Nat : Filled(n) => Filled(n)'
  BY DEF Mine, Filled, Held, GapInv, NonceTyped
<1> QED
  BY <1>1 DEF Mine, GapInv, NonceTyped, Grounded, Typed

LEMMA GapStep == ASSUME GapInv, [Next]_vars PROVE GapInv'
<1>1. Typed'
  BY StageStep DEF GapInv, NonceTyped
<1>2. ASSUME NEW c \in Call, Enter(c) \/ GiveUp(c) \/ TakeTurn(c) \/ Note(c) \/ Look(c)
      PROVE  GapInv'
  BY <1>1, <1>2, GapIdle
  DEF Enter, GiveUp, TakeTurn, Note, Look, LeaveUnsent, Leave, GapInv, NonceTyped, Typed, Signed, Sent
<1>3. ASSUME NEW c \in Call, TakenLate(c)
      PROVE  GapInv'
  <2>1. \A n \in Nat : Filled(n) => Filled(n)'
    BY <1>3, FilledStays DEF TakenLate
  <2> QED
    BY <1>3, <2>1 DEF TakenLate, GapInv, NonceTyped, Typed, Grounded, Sent
<1>4. ASSUME NEW c \in Call, Vanish(c)
      PROVE  GapInv'
  <2>1. \A n \in Nat : Filled(n) => Filled(n)'
    BY <1>4, FilledStays DEF Vanish
  <2> QED
    BY <1>4, <2>1 DEF Vanish, GapInv, NonceTyped, Typed, Grounded
<1>5. CASE Tick
  <2>1. \A n : Filled(n)' <=> Filled(n)
    BY <1>5 DEF Tick, Filled, Held
  <2>2. /\ floor' \in SUBSET [next : Nat, age : Nat, pending : Nat]
        /\ \A f, g \in floor' : f = g
        /\ \A f \in floor' : \E g \in floor : f.next = g.next
    BY <1>5 DEF Tick, GapInv, NonceTyped
  <2> QED
    BY <1>1, <1>5, <2>1, <2>2 DEF Tick, GapInv, NonceTyped, Grounded
<1>6. CASE UNCHANGED vars
  BY <1>1, <1>6, GapIdle DEF vars, GapInv, NonceTyped
<1> QED
  BY <1>1, <1>2, <1>3, <1>4, <1>5, <1>6, PrepareGap, SendGap, MineGap DEF Next, Turn

(* keepFloor: a floor never leaves a nonce below it that nobody sends, for  *)
(* any number of calls and faults, however the hosts lag and calls overlap. *)
THEOREM NoGapLeft == Spec => []NoGap
<1>1. GapInv => NoGap
  BY DEF GapInv, NonceTyped, Grounded, Filled, NoGap, Sent
<1> QED
  BY <1>1, GapInit, GapStep, PTL DEF Spec

-----------------------------------------------------------------------------
(* With one call at a time and the floor alive, the prepare of a call signs *)
(* above everything accepted before it.                                     *)
LEMMA PrepareNonce ==
    ASSUME ChainInv, GapInv, NonceInv, NEW c \in Call, Prepare(c), ~Disturbed'
    PROVE  NonceInv'
<1>1. ~Disturbed /\ OneAtATime /\ Typed
  BY ChainAdmitsOne, DisturbedStays DEF ChainInv, QueueTyped, Typed, Next, Turn
<1>2. \A d \in Call \ {c} : stage[d] \notin Working
  BY <1>1 DEF Prepare, OneAtATime, Disturbed, Working
<1>3. \A e \in Call : stage[e] = "sent" => floor # {} /\ \A f \in floor : nonce[e] < f.next
  BY <1>1, <1>2 DEF NonceInv, Behind, Prepare, Signed, Working
<1>4. CASE Leave(c, "threw") /\ UNCHANGED <<nonce, floor>>
  BY <1>1, <1>4, NonceIdle DEF Leave, Prepare, Typed, Signed
<1>5. CASE LeaveUnsent(c, "threw") /\ UNCHANGED nonce /\ floor' \subseteq floor
  BY <1>1, <1>5, NonceUnsent DEF Prepare, Ended
<1>6. ASSUME NEW n \in PendingCounts,
             LET over == {f \in floor : ~Expired(f) /\ n < f.next}
                 mine == IF over = {} THEN n ELSE (CHOOSE f \in over : TRUE).next
             IN  /\ floor' = over
                 /\ nonce' = [nonce EXCEPT ![c] = mine]
                 /\ stage' = [stage EXCEPT ![c] = "signed"],
             lapsed' = (lapsed \/ \E f \in floor : f.age > FloorTtl)
      PROVE  NonceInv'
  <2> DEFINE over == {f \in floor : ~Expired(f) /\ n < f.next}
             mine == IF over = {} THEN n ELSE (CHOOSE f \in over : TRUE).next
  <2>1. \A f \in floor : ~Expired(f)
    BY <1>6 DEF Expired, Disturbed
  <2>2. n \in Nat
    BY DEF PendingCounts, GapInv, NonceTyped
  <2>3. \A f \in floor : mine >= f.next
    BY <2>1, <2>2 DEF GapInv, NonceTyped
  <2>4. mine \in Nat
    BY <2>2 DEF GapInv, NonceTyped
  <2>5. \A e \in Call : stage[e] = "sent" => nonce[e] < mine
    BY <1>3, <2>3, <2>4 DEF GapInv, NonceTyped
  <2>6. /\ nonce' = [nonce EXCEPT ![c] = mine] /\ nonce \in [Call -> Nat]
        /\ stage' = [stage EXCEPT ![c] = "signed"] /\ stage \in [Call -> {"new", "queued"} \cup Working \cup Ended]
    BY <1>6 DEF GapInv, NonceTyped, Typed
  <2>7. \A d \in Call : stage'[d] \in Signed <=> d = c
    BY <1>2, <2>6 DEF Signed, Working
  <2>8. \A e \in Call : stage'[e] = "sent" => e # c /\ stage[e] = "sent" /\ nonce'[e] = nonce[e]
    BY <2>6
  <2>9. \A f \in floor' : f \in floor
    BY <1>6
  <2> QED
    BY <1>1, <1>3, <2>5, <2>6, <2>7, <2>8, <2>9 DEF NonceInv, Behind
<1> QED
  BY <1>4, <1>5, <1>6 DEF Prepare

(* An accepted send used a nonce above all the others and keeps the floor   *)
(* above it.                                                                *)
LEMMA SendNonce ==
    ASSUME ChainInv, GapInv, NonceInv, NEW c \in Call, Send(c), ~Disturbed'
    PROVE  NonceInv'
<1>1. ~Disturbed /\ OneAtATime /\ Typed
  BY ChainAdmitsOne, DisturbedStays DEF ChainInv, QueueTyped, Typed, Next, Turn
<1>2. \A d \in Call \ {c} : stage[d] \notin Working
  BY <1>1 DEF Send, OneAtATime, Disturbed, Working
<1>3. \A e \in Call : stage[e] = "sent" => nonce[e] < nonce[c]
  BY <1>1 DEF NonceInv, Behind, Send, Signed
<1>4. CASE Taken(c) /\ KeepFloor(c) /\ Leave(c, "sent")
  <2> DEFINE stalled == {f \in floor : pending[c] <= f.pending}
  <2>1. floor' # {}
    BY <1>4 DEF KeepFloor
  <2>2. \A f \in floor' : f.next = nonce[c] + 1
    BY <1>4 DEF KeepFloor, GapInv, NonceTyped
  <2>3. \A d \in Call : stage'[d] \notin Signed
    BY <1>1, <1>2, <1>4 DEF Leave, Typed, Signed, Working
  <2>4. \A e \in Call : stage'[e] = "sent" => e = c \/ stage[e] = "sent"
    BY <1>1, <1>4 DEF Leave, Typed
  <2>5. nonce \in [Call -> Nat] /\ nonce' = nonce
    BY DEF Send, GapInv, NonceTyped
  <2>6. \A e \in Call : stage'[e] = "sent" => nonce[e] <= nonce[c] /\ (e # c => nonce[e] # nonce[c])
    BY <1>3, <2>4, <2>5
  <2>7. \A e \in Call : stage'[e] = "sent" => Behind(e)'
    BY <2>1, <2>2, <2>3, <2>5, <2>6 DEF Behind
  <2> QED
    BY <1>1, <2>4, <2>5, <2>6, <2>7 DEF NonceInv
<1>5. CASE stage' = [stage EXCEPT ![c] = "looking"] /\ UNCHANGED floor
  BY <1>1, <1>5, NonceIdle DEF Send, Typed, Signed
<1>6. CASE LeaveUnsent(c, "unknown") /\ UNCHANGED floor
  BY <1>1, <1>6, NonceUnsent DEF Send, Ended
<1> QED
  BY <1>4, <1>5, <1>6 DEF Send

LEMMA NonceStep ==
    ASSUME ChainInv, GapInv, NonceInv, [Next]_vars
    PROVE  NonceInv'
<1> SUFFICES ASSUME ~Disturbed'
             PROVE  NonceInv'
  BY DEF NonceInv
<1>1. ~Disturbed /\ Typed
  BY DisturbedStays DEF ChainInv, QueueTyped, Typed
<1>2. ASSUME NEW c \in Call, Enter(c) \/ GiveUp(c) \/ TakeTurn(c)
      PROVE  NonceInv'
  BY <1>1, <1>2, NonceIdle DEF Enter, GiveUp, TakeTurn, Leave, Typed, Signed
<1>3. ASSUME NEW c \in Call, Note(c) \/ Look(c)
      PROVE  NonceInv'
  <2>1. CASE stage[c] = "signed" /\ stage' = [stage EXCEPT ![c] = "sending"]
             /\ UNCHANGED <<nonce, floor>>
    BY <1>1, <2>1, NonceIdle DEF Typed, Signed
  <2>2. CASE /\ \E s \in {"not_noted", "refused", "unknown"} : LeaveUnsent(c, s)
             /\ stage[c] # "sent"
             /\ UNCHANGED <<nonce, floor>>
    BY <1>1, <2>2, NonceUnsent DEF Ended
  <2> QED
    BY <1>3, <2>1, <2>2 DEF Note, Look
<1>4. ASSUME NEW c \in Call, TakenLate(c) \/ Mine(c) \/ Vanish(c)
      PROVE  NonceInv'
  BY <1>1, <1>4, NonceIdle DEF TakenLate, Mine, Vanish
<1>5. CASE Tick
  <2>1. \A f \in floor' : \E g \in floor : g.next = f.next
    BY <1>5 DEF Tick, GapInv, NonceTyped
  <2>2. UNCHANGED <<stage, nonce, lapsed, adrift>> /\ floor' # {}
    BY <1>5 DEF Tick
  <2> QED
    BY <1>1, <2>1, <2>2 DEF NonceInv, Behind
<1>6. CASE UNCHANGED vars
  BY <1>1, <1>6, NonceIdle DEF vars
<1> QED
  BY <1>2, <1>3, <1>4, <1>5, <1>6, PrepareNonce, SendNonce DEF Next, Turn

(* send.ts keeps two settlements of one signer from taking one nonce, for   *)
(* any number of calls, whatever hosts lag or drop and whichever calls      *)
(* throw, are not noted, are turned away, go unanswered or give up waiting, *)
(* until a floor expires, one is dropped by the prepare of a call that then *)
(* is not accepted, or a waiter takes the queue's entry with it.            *)
THEOREM NoncesApart == Spec => []NoncesDistinct
<1>1. NonceInv => NoncesDistinct
  BY DEF NonceInv, NoncesDistinct
<1> QED
  BY <1>1, ChainInit, ChainStep, GapInit, GapStep, NonceStep, PTL DEF Spec

-----------------------------------------------------------------------------
(* Waiting. Whom a call waits for entered before it and waits for no more   *)
(* than it does; whoever has left is released, by giving up too.            *)
WaitInv ==
    /\ QueueTyped
    /\ \A c \in Call : stage[c] \in Ended => c \in released
    /\ tail # Nobody => stage[tail] # "new"
    /\ \A c \in Call : c \notin before[c]
    /\ \A c \in Call : \A d \in before[c] : stage[d] # "new" /\ before[d] \subseteq before[c]

LEMMA WaitInit == Init => WaitInv
BY SignerAssumption DEF Init, WaitInv, QueueTyped, Working, Ended

(* Going on or leaving, no call waits for another than it did.              *)
LEMMA WaitGoesOn ==
    ASSUME WaitInv, NEW c \in Call, stage[c] # "new",
           NEW to \in {"queued"} \cup Working \cup Ended, stage' = [stage EXCEPT ![c] = to],
           released' = IF to \in Ended THEN released \cup {c} ELSE released,
           tail' \in {tail, Nobody}, before' = before
    PROVE  WaitInv'
BY DEF WaitInv, QueueTyped, Working, Ended

LEMMA WaitEnter == ASSUME WaitInv, NEW c \in Call, Enter(c) PROVE WaitInv'
<1> DEFINE ahead == IF tail = Nobody THEN {} ELSE before[tail] \cup {tail}
<1>1. /\ stage[c] = "new" /\ stage' = [stage EXCEPT ![c] = "queued"]
      /\ before' = [before EXCEPT ![c] = ahead]
      /\ tail' = c /\ released' = released
  BY DEF Enter
<1>2. ahead \subseteq Call /\ c \notin ahead
  BY <1>1 DEF WaitInv, QueueTyped
<1>3. QueueTyped'
  BY <1>1, <1>2 DEF WaitInv, QueueTyped, Working, Ended
<1>4. \A d \in ahead : stage[d] # "new" /\ before[d] \subseteq ahead
  BY <1>2 DEF WaitInv, QueueTyped
<1>5. /\ before'[c] = ahead
      /\ \A d \in Call \ {c} : before'[d] = before[d] /\ stage'[d] = stage[d] /\ c \notin before[d]
  BY <1>1 DEF WaitInv, QueueTyped
<1>6. \A d \in Call : d \notin before'[d]
  BY <1>2, <1>5 DEF WaitInv
<1>7. \A d \in Call : \A e \in before'[d] : stage'[e] # "new" /\ before'[e] \subseteq before'[d]
  <2>1. \A e \in ahead : stage'[e] # "new" /\ before'[e] \subseteq ahead
    BY <1>2, <1>4, <1>5
  <2>2. \A d \in Call \ {c} : \A e \in before[d] : e \in Call \ {c}
    BY <1>5 DEF WaitInv, QueueTyped
  <2> QED
    BY <1>5, <2>1, <2>2 DEF WaitInv
<1> QED
  BY <1>1, <1>3, <1>6, <1>7, SignerAssumption DEF WaitInv, QueueTyped, Ended

LEMMA WaitStep == ASSUME WaitInv, [Next]_vars PROVE WaitInv'
<1>1. CASE UNCHANGED <<tail, before, released, stage>>
  BY <1>1 DEF WaitInv, QueueTyped
<1>2. ASSUME NEW c \in Call, GiveUp(c)
      PROVE  WaitInv'
  BY <1>2, WaitGoesOn DEF GiveUp, Leave, Ended
<1>3. ASSUME NEW c \in Call, TakeTurn(c)
      PROVE  WaitInv'
  BY <1>3, WaitGoesOn DEF TakeTurn, Working, Ended
<1>4. ASSUME NEW c \in Call, Within(c) \/ Leaves(c)
      PROVE  WaitInv'
  BY <1>4, WaitGoesOn DEF Within, Leaves, Leave, Working, Ended
<1>5. ASSUME NEW c \in Call, TakenLate(c) \/ Mine(c) \/ Vanish(c)
      PROVE  WaitInv'
  BY <1>1, <1>5 DEF TakenLate, Mine, Vanish
<1>6. CASE Tick \/ UNCHANGED vars
  BY <1>1, <1>6 DEF Tick, vars
<1> QED
  BY <1>2, <1>3, <1>4, <1>5, <1>6, WaitEnter, TurnSteps DEF Next, Turn

(* Of the live calls, one that waits for the fewest waits for nobody: whom  *)
(* it waits for and is not released would be live and wait for fewer.       *)
LEMMA SomebodyMayGo == WaitInv => NobodyStranded
<1> SUFFICES ASSUME WaitInv, NEW c \in Call, stage[c] = "queued"
             PROVE  \E d \in Call : \/ stage[d] \in Working
                                    \/ stage[d] = "queued" /\ before[d] \subseteq released
  BY DEF NobodyStranded
<1> DEFINE sets == {before[d] : d \in {e \in Call : Live(e)}}
<1>1. sets \subseteq FiniteSubsetsOf(Call) /\ sets # {}
  BY SignerAssumption, FS_Subset DEF FiniteSubsetsOf, WaitInv, QueueTyped, Live
<1>2. PICK least \in sets : \A other \in sets : <<other, least>> \notin StrictSubsetOrdering(Call)
  BY <1>1, WFMin, FS_StrictSubsetOrderingWellFounded
<1>3. PICK d \in Call : Live(d) /\ least = before[d]
  OBVIOUS
<1>4. ASSUME NEW e \in before[d], e \notin released
      PROVE  FALSE
  <2>1. e \in Call /\ stage[e] # "new" /\ stage[e] \notin Ended /\ before[e] \subseteq before[d]
    BY <1>4 DEF WaitInv, QueueTyped
  <2>2. Live(e)
    BY <2>1 DEF WaitInv, QueueTyped, Live
  <2>3. before[e] \in sets
    BY <2>1, <2>2
  <2>4. before[e] # before[d] /\ before[e] \in SUBSET Call /\ before[d] \in SUBSET Call
    BY <1>4, <2>1 DEF WaitInv, QueueTyped
  <2>5. <<before[e], before[d]>> \in StrictSubsetOrdering(Call)
    BY <2>1, <2>4 DEF StrictSubsetOrdering
  <2> QED
    BY <1>2, <1>3, <2>3, <2>5
<1> QED
  BY <1>3, <1>4 DEF Live

(* inTurn: while a call waits somebody is at work or may go on, whoever     *)
(* failed or gave up, for any number of calls.                              *)
THEOREM NobodyLeft == Spec => []NobodyStranded
BY WaitInit, WaitStep, SomebodyMayGo, PTL DEF Spec

-----------------------------------------------------------------------------
(* The floor's clock. A floor ages until it has just expired.               *)
Life == FloorTtl + 1

(* While nothing holds the next nonce, a floor above it is as old as the    *)
(* quiet, or was kept once more by a send that had asked during it; and     *)
(* what such a call will keep is no younger.                                *)
Aged(f) ==
    \/ quiet <= f.age
    \/ quiet <= Life + f.age /\ f.pending >= mined

KeepsAged(c) ==
    pending[c] = mined => IF floor = {} THEN quiet = 0 ELSE \A f \in floor : Aged(f)

Stalled ==
    /\ \A f \in floor : f.next > mined => Aged(f)
    /\ \A c \in Call : stage[c] \in {"signed", "sending"} /\ nonce[c] > mined => KeepsAged(c)

RefillInv ==
    /\ ChainInv
    /\ GapInv
    /\ quiet \in Nat
    /\ \A f \in floor : f.age <= Life
    /\ adrift = {} /\ ~Held(mined) => Stalled

LEMMA RefillInit == Init => RefillInv
<1> SUFFICES ASSUME Init PROVE RefillInv
  OBVIOUS
<1>1. ChainInv
  BY ChainInit
<1>2. GapInv
  BY GapInit
<1>3. quiet = 0 /\ floor = {} /\ \A c \in Call : stage[c] = "new"
  BY DEF Init
<1>4. Stalled
  BY <1>3 DEF Stalled
<1>5. QED
  BY <1>1, <1>2, <1>3, <1>4 DEF RefillInv

(* There is a call if a node holds its transaction.                         *)
LEMMA SomeCall == Cardinality(Call) \in Nat /\ (Call # {} => Cardinality(Call) >= 1)
<1>1. Cardinality(Call) \in Nat
  BY SignerAssumption, FS_CardinalityType
<1>2. Cardinality(Call) = 0 <=> Call = {}
  BY SignerAssumption, FS_EmptySet
<1>3. QED
  BY <1>1, <1>2

(* Without the next nonce every host gives the same count.                  *)
LEMMA GapCount ==
    ASSUME GapInv
    PROVE  /\ mined \in PendingCounts
           /\ ~Held(mined) <=> PendingCounts = {mined}
<1>1. mined \in Nat
  BY DEF GapInv, NonceTyped
<1>2. mined \in PendingCounts
  BY <1>1, SomeCall DEF PendingCounts
<1>3. ASSUME ~Held(mined), NEW n \in PendingCounts PROVE n = mined
  BY <1>1, <1>3 DEF PendingCounts
<1>4. ASSUME Held(mined) PROVE mined + 1 \in PendingCounts
  <2>1. Call # {}
    BY <1>4 DEF Held, GapInv, NonceTyped
  <2>2. QED
    BY <1>1, <1>4, <2>1, SomeCall DEF PendingCounts
<1>5. mined + 1 # mined
  BY <1>1
<1>6. QED
  BY <1>2, <1>3, <1>4, <1>5

(* While the counts stand still and the gap is there, it is the same one.   *)
LEMMA SameGap ==
    ASSUME GapInv, GapInv', PendingCounts' = PendingCounts, ~Held(mined)'
    PROVE  mined' = mined /\ ~Held(mined) /\ PendingCounts = {mined}
<1>1. mined' \in PendingCounts' /\ PendingCounts' = {mined'}
  <2>1. GapInv' => (mined \in PendingCounts /\ (~Held(mined) <=> PendingCounts = {mined}))'
    BY GapCount, PTL
  <2>2. QED
    BY <2>1
<1>2. mined \in PendingCounts /\ (~Held(mined) <=> PendingCounts = {mined})
  BY GapCount
<1>3. QED
  BY <1>1, <1>2

(* A floor is never younger than no quiet.                                  *)
LEMMA NoQuiet == ASSUME GapInv', quiet' = 0 PROVE Stalled'
<1>1. \A f \in floor' : Aged(f)'
  BY DEF Aged, GapInv, NonceTyped
<1>2. QED
  BY <1>1 DEF Stalled, KeepsAged

(* The clock and the ages keep their bounds.                                *)
LEMMA ClockStep ==
    ASSUME GapInv, quiet \in Nat, \A f \in floor : f.age <= Life, [Next]_vars
    PROVE  quiet' \in Nat /\ \A f \in floor' : f.age <= Life
<1> USE SignerAssumption DEF Life
<1>1. CASE UNCHANGED <<floor, quiet>>
  BY <1>1
<1>2. ASSUME NEW c \in Call, Prepare(c)
      PROVE  quiet' = quiet /\ floor' \subseteq floor
  BY <1>2 DEF Prepare
<1>3. ASSUME NEW c \in Call, Send(c)
      PROVE  quiet' \in {quiet, 0} /\ \A f \in floor' : f.age <= Life
  <2>1. quiet' \in {quiet, 0}
    BY <1>3 DEF Send, Quiet
  <2>2. CASE KeepFloor(c)
    BY <2>1, <2>2 DEF KeepFloor, GapInv, NonceTyped
  <2>3. CASE floor' = floor
    BY <2>1, <2>3
  <2> QED
    BY <1>3, <2>1, <2>2, <2>3 DEF Send
<1>4. ASSUME NEW c \in Call, TakenLate(c) \/ Mine(c) \/ Vanish(c)
      PROVE  quiet' \in {quiet, 0} /\ floor' = floor
  BY <1>4 DEF TakenLate, Mine, Vanish, Quiet
<1>5. CASE Tick
  <2>1. PICK g \in floor : g.age <= FloorTtl
    BY <1>5 DEF Tick
  <2>2. \A f \in floor : f = g
    BY DEF GapInv, NonceTyped
  <2>3. \A f \in floor' : f = [g EXCEPT !.age = @ + 1]
    BY <1>5, <2>2 DEF Tick
  <2>4. \A f \in floor' : f.age = g.age + 1
    BY <2>3 DEF GapInv, NonceTyped
  <2>5. g.age \in Nat
    BY DEF GapInv, NonceTyped
  <2>6. quiet' \in Nat
    BY <1>5 DEF Tick
  <2> QED
    BY <2>1, <2>4, <2>5, <2>6
<1>6. ASSUME NEW c \in Call, Enter(c) \/ GiveUp(c) \/ TakeTurn(c) \/ Note(c) \/ Look(c)
      PROVE  UNCHANGED <<floor, quiet>>
  BY <1>6 DEF Enter, GiveUp, TakeTurn, Note, Look
<1>7. CASE UNCHANGED vars
  BY <1>1, <1>7 DEF vars
<1> QED
  BY <1>1, <1>2, <1>3, <1>4, <1>5, <1>6, <1>7 DEF Next, Turn

(* A step of the nodes moves a count, and the quiet ends, or leaves the gap.*)
LEMMA NodeStalled ==
    ASSUME RefillInv, GapInv', adrift = {}, ~Held(mined)', NEW c \in Call,
           TakenLate(c) \/ Mine(c) \/ Vanish(c)
    PROVE  Stalled'
<1>1. UNCHANGED <<nonce, pending, floor, stage>>
  BY DEF TakenLate, Mine, Vanish
<1>2. CASE quiet' = 0
  BY <1>2, NoQuiet
<1>3. CASE quiet' # 0
  <2>1. quiet' = quiet /\ PendingCounts' = PendingCounts
    BY <1>3 DEF TakenLate, Mine, Vanish, Quiet
  <2>2. mined' = mined /\ Stalled
    BY <2>1, SameGap DEF RefillInv
  <2> QED
    BY <1>1, <2>1, <2>2 DEF Stalled, KeepsAged, Aged
<1> QED
  BY <1>2, <1>3

(* A call that comes, waits, notes or ends signs nothing.                   *)
LEMMA CallStalled ==
    ASSUME RefillInv, adrift = {}, ~Held(mined)',
           UNCHANGED <<nonce, pending, floor, pool, mined, quiet>>,
           \A c \in Call : stage'[c] \in {"signed", "sending"} => stage[c] \in {"signed", "sending"}
    PROVE  Stalled'
<1>1. ~Held(mined)
  BY DEF Held
<1>2. Stalled
  BY <1>1 DEF RefillInv
<1> QED
  BY <1>2 DEF Stalled, KeepsAged, Aged

(* A tick ages the quiet and the floor alike.                               *)
LEMMA TickStalled ==
    ASSUME RefillInv, adrift = {}, ~Held(mined)', Tick
    PROVE  Stalled'
<1>1. UNCHANGED <<nonce, pending, stage, pool, mined>> /\ floor # {} /\ floor' # {}
  BY DEF Tick
<1>2. Stalled
  BY <1>1 DEF RefillInv, Held
<1>3. quiet \in Nat /\ quiet' <= quiet + 1 /\ quiet' \in Nat
  BY DEF Tick, RefillInv
<1>4. ASSUME NEW g \in floor, Aged(g)
      PROVE  \/ quiet' <= g.age + 1
             \/ quiet' <= Life + (g.age + 1) /\ g.pending >= mined'
  <2>1. g.age \in Nat /\ Life \in Nat
    BY SignerAssumption DEF Life, RefillInv, GapInv, NonceTyped
  <2> QED
    BY <1>1, <1>3, <1>4, <2>1 DEF Aged
<1>5. ASSUME NEW f \in floor', \A g \in floor : g.next = f.next => Aged(g)
      PROVE  \/ quiet' <= f.age
             \/ quiet' <= Life + f.age /\ f.pending >= mined'
  <2>1. PICK g \in floor : f = [g EXCEPT !.age = @ + 1]
    BY DEF Tick
  <2>2. f.next = g.next /\ f.pending = g.pending /\ f.age = g.age + 1
    BY <2>1 DEF RefillInv, GapInv, NonceTyped
  <2> QED
    BY <1>4, <1>5, <2>2
<1>6. \A f \in floor' : f.next > mined' => Aged(f)'
  BY <1>1, <1>2, <1>5 DEF Stalled, Aged
<1>7. \A c \in Call : KeepsAged(c) => KeepsAged(c)'
  BY <1>1, <1>5 DEF KeepsAged, Aged
<1> QED
  BY <1>1, <1>2, <1>6, <1>7 DEF Stalled

(* With the gap there, a prepare signs the missing nonce, or one above a    *)
(* floor that is aged.                                                      *)
LEMMA PrepareStalled ==
    ASSUME RefillInv, ChainInv', GapInv', adrift' = {}, adrift = {}, ~Held(mined)',
           NEW c \in Call, Prepare(c), stage'[c] = "signed"
    PROVE  Stalled' /\ (quiet > TwoLives => nonce'[c] = mined)
<1>1. PICK n \in PendingCounts :
        LET over == {f \in floor : ~Expired(f) /\ n < f.next}
            mine == IF over = {} THEN n ELSE (CHOOSE f \in over : TRUE).next
        IN  /\ floor' = over
            /\ nonce' = [nonce EXCEPT ![c] = mine]
            /\ pending' = [pending EXCEPT ![c] = n]
            /\ stage' = [stage EXCEPT ![c] = "signed"]
  BY DEF Prepare, LeaveUnsent, Leave, RefillInv, GapInv, NonceTyped, Typed
<1>2. UNCHANGED <<pool, mined, quiet>> /\ stage[c] = "turn"
  BY DEF Prepare
<1>3. ~Held(mined)
  <2>1. c \notin pool
    BY <1>2 DEF RefillInv, GapInv, NonceTyped, Sent
  <2> QED
    BY <1>1, <1>2, <2>1 DEF Held, RefillInv, GapInv, NonceTyped
<1>4. n = mined /\ mined \in Nat
  BY <1>3, GapCount DEF RefillInv, GapInv, NonceTyped
<1>5. Stalled
  BY <1>3 DEF RefillInv
<1>6. \A f \in floor' : f \in floor /\ ~Expired(f) /\ f.next > mined /\ Aged(f)
  BY <1>1, <1>4, <1>5 DEF Stalled, RefillInv, GapInv, NonceTyped
<1>7. /\ floor' = {} => nonce'[c] = mined
      /\ pending'[c] = mined
  BY <1>1, <1>4 DEF RefillInv, GapInv, NonceTyped
<1>8. \A d \in Call : stage'[d] \in {"signed", "sending"} => d = c
  <2>1. ChainInv' => OneAtATime'
    BY ChainAdmitsOne, PTL
  <2> QED
    BY <2>1 DEF OneAtATime, Working
<1>9. \A f \in floor' : Aged(f)'
  BY <1>2, <1>6 DEF Aged
<1>10. Stalled'
  BY <1>2, <1>7, <1>8, <1>9 DEF Stalled, KeepsAged, GapInv, NonceTyped
<1>11. ASSUME quiet > TwoLives PROVE floor' = {}
  <2> SUFFICES ASSUME NEW f \in floor' PROVE FALSE
    OBVIOUS
  <2>1. f.age <= FloorTtl /\ f.age \in Nat /\ Aged(f)
    BY <1>6, SignerAssumption DEF Expired, RefillInv, GapInv, NonceTyped
  <2> QED
    BY <1>11, <2>1, SignerAssumption DEF Aged, Life, TwoLives, RefillInv
<1> QED
  BY <1>7, <1>10, <1>11

(* A prepare that throws drops a floor or leaves it, and nobody is signed.  *)
LEMMA ThrewStalled ==
    ASSUME RefillInv, adrift = {}, ~Held(mined)', NEW c \in Call, Prepare(c), Leave(c, "threw")
    PROVE  Stalled'
<1>1. UNCHANGED <<pool, mined, quiet>> /\ stage[c] = "turn" /\ floor' \subseteq floor
  BY DEF Prepare
<1>2. UNCHANGED <<nonce, pending>>
  BY DEF Prepare, Leave, RefillInv, GapInv, NonceTyped, Typed
<1>3. Stalled
  BY <1>1, <1>2 DEF Held, RefillInv
<1>4. \A d \in Call : stage'[d] \notin {"signed", "sending"}
  <2>1. \A d \in Call : stage[d] \in Working => d = c
    BY <1>1, ChainAdmitsOne DEF OneAtATime, RefillInv, Working
  <2>2. stage'[c] = "threw" /\ \A d \in Call \ {c} : stage'[d] = stage[d]
    BY DEF Leave, RefillInv, GapInv, NonceTyped, Typed
  <2> QED
    BY <2>1, <2>2 DEF Working
<1> QED
  BY <1>1, <1>3, <1>4 DEF Stalled, Aged

(* A send keeps an aged floor, or one that is fresh for the last time.      *)
LEMMA SendStalled ==
    ASSUME RefillInv, ChainInv', GapInv', adrift' = {}, adrift = {}, ~Held(mined)',
           NEW c \in Call, Send(c)
    PROVE  Stalled'
<1>1. UNCHANGED <<nonce, pending, mined>> /\ stage[c] = "sending"
  BY DEF Send
<1>2. CASE quiet' = 0
  BY <1>2, NoQuiet
<1>3. CASE quiet' # 0
  <2>1. quiet' = quiet /\ PendingCounts' = PendingCounts /\ pending[c] \in PendingCounts
    BY <1>3 DEF Send, Quiet
  <2>2. mined' = mined /\ ~Held(mined) /\ pending[c] = mined /\ Stalled
    BY <2>1, SameGap DEF RefillInv
  <2>3. \A d \in Call : stage'[d] \notin {"signed", "sending"}
    <3>1. \A d \in Call : stage[d] \in Working => d = c
      BY <1>1, ChainAdmitsOne DEF OneAtATime, RefillInv, Working
    <3>2. stage'[c] \notin {"signed", "sending"} /\ \A d \in Call \ {c} : stage'[d] = stage[d]
      BY DEF Send, LeaveUnsent, Leave, RefillInv, GapInv, NonceTyped, Typed
    <3> QED
      BY <3>1, <3>2 DEF Working
  <2>4. \A f \in floor' : f.next > mined => Aged(f)'
    <3>1. CASE floor' = floor
      BY <2>1, <2>2, <3>1 DEF Stalled, Aged
    <3>2. CASE Taken(c) /\ KeepFloor(c)
      <4>1. nonce[c] \in Nat /\ mined \in Nat /\ pending[c] \in Nat
        BY DEF RefillInv, GapInv, NonceTyped
      <4>2. nonce[c] > mined
        BY <1>1, <3>2, <4>1 DEF Taken, Held
      <4>3. KeepsAged(c)
        BY <1>1, <2>2, <4>2 DEF Stalled
      <4>4. ASSUME NEW f \in floor' PROVE Aged(f)'
        <5>1. CASE \E g \in floor : pending[c] <= g.pending /\ f = [g EXCEPT !.next = nonce[c] + 1]
          <6>1. PICK g \in floor : f = [g EXCEPT !.next = nonce[c] + 1]
            BY <5>1
          <6>2. f.age = g.age /\ f.pending = g.pending
            BY <6>1 DEF RefillInv, GapInv, NonceTyped
          <6>3. Aged(g)
            BY <2>2, <4>3 DEF KeepsAged
          <6> QED
            BY <2>1, <2>2, <6>2, <6>3 DEF Aged
        <5>2. CASE /\ f = [next |-> nonce[c] + 1, age |-> 0, pending |-> pending[c]]
                   /\ \A g \in floor : ~(pending[c] <= g.pending)
          <6>1. f.age = 0 /\ f.pending = mined
            BY <2>2, <5>2
          <6>2. quiet <= Life
            <7>1. CASE floor = {}
              BY <2>2, <4>3, <7>1, SignerAssumption DEF KeepsAged, Life
            <7>2. CASE floor # {}
              <8>1. PICK g \in floor : Aged(g) /\ ~(mined <= g.pending)
                BY <2>2, <4>3, <5>2, <7>2 DEF KeepsAged
              <8>2. g.pending \in Nat /\ g.age \in Nat /\ g.age <= Life
                BY DEF RefillInv, GapInv, NonceTyped
              <8> QED
                BY <4>1, <8>1, <8>2, SignerAssumption DEF Aged, Life, RefillInv
            <7> QED
              BY <7>1, <7>2
          <6> QED
            BY <2>1, <2>2, <4>1, <6>1, <6>2, SignerAssumption DEF Aged, Life, RefillInv
        <5> QED
          BY <3>2, <5>1, <5>2 DEF KeepFloor
      <4> QED
        BY <4>4
    <3> QED
      BY <3>1, <3>2 DEF Send
  <2> QED
    BY <2>2, <2>3, <2>4 DEF Stalled
<1> QED
  BY <1>2, <1>3

LEMMA RefillStep == RefillInv /\ [Next]_vars => RefillInv'
<1> SUFFICES ASSUME RefillInv, [Next]_vars PROVE RefillInv'
  OBVIOUS
<1>1. ChainInv' /\ GapInv' /\ quiet' \in Nat /\ \A f \in floor' : f.age <= Life
  BY ChainStep, GapStep, ClockStep DEF RefillInv
<1>2. ASSUME adrift' = {}, ~Held(mined)' PROVE Stalled'
  <2>1. adrift = {}
    BY <1>2, StageStep DEF RefillInv, GapInv, NonceTyped
  <2>2. ASSUME NEW c \in Call, Prepare(c) PROVE Stalled'
    <3>1. CASE stage'[c] = "signed"
      BY <1>1, <1>2, <2>1, <2>2, <3>1, PrepareStalled
    <3>2. CASE Leave(c, "threw")
      BY <1>1, <1>2, <2>1, <2>2, <3>2, ThrewStalled
    <3>3. Leave(c, "threw") \/ stage'[c] = "signed"
      BY <2>2 DEF Prepare, LeaveUnsent, RefillInv, GapInv, NonceTyped, Typed
    <3> QED
      BY <3>1, <3>2, <3>3
  <2>3. ASSUME NEW c \in Call, Send(c) PROVE Stalled'
    BY <1>1, <1>2, <2>1, <2>3, SendStalled
  <2>4. ASSUME NEW c \in Call, Enter(c) \/ GiveUp(c) \/ TakeTurn(c) \/ Note(c) \/ Look(c)
        PROVE  Stalled'
    <3>1. /\ UNCHANGED <<nonce, pending, floor, pool, mined, quiet>>
          /\ \A d \in Call : stage'[d] \in {"signed", "sending"} => stage[d] \in {"signed", "sending"}
      BY <2>4 DEF Enter, GiveUp, TakeTurn, Note, Look, LeaveUnsent, Leave, RefillInv, GapInv, NonceTyped, Typed
    <3> QED
      BY <1>2, <2>1, <3>1, CallStalled
  <2>5. ASSUME NEW c \in Call, TakenLate(c) \/ Mine(c) \/ Vanish(c) PROVE Stalled'
    BY <1>1, <1>2, <2>1, <2>5, NodeStalled
  <2>6. CASE Tick
    BY <1>2, <2>1, <2>6, TickStalled
  <2>7. CASE UNCHANGED vars
    BY <1>2, <2>1, <2>7, CallStalled DEF vars
  <2> QED
    BY <2>2, <2>3, <2>4, <2>5, <2>6, <2>7 DEF Next, Turn
<1> QED
  BY <1>1, <1>2 DEF RefillInv

(* keepFloor: a gap that a dropped transaction left is filled by the next   *)
(* send once two lives of a floor have passed, for any number of calls and  *)
(* any time to live, however many sends were queued above the gap.          *)
THEOREM GapRefilled == Spec => GapIsRefilled
<1>1. RefillInv /\ RefillInv' /\ [Next]_vars
        => [\A c \in Call : stage[c] = "turn" /\ stage'[c] = "signed"
                             /\ ~Held(mined) /\ quiet > TwoLives
                             /\ adrift = {}
              => nonce'[c] = mined]_vars
  <2> SUFFICES ASSUME RefillInv, RefillInv', Next, NEW c \in Call, stage[c] = "turn",
                      stage'[c] = "signed", ~Held(mined), quiet > TwoLives, adrift = {}
               PROVE  nonce'[c] = mined
    OBVIOUS
  <2>1. Prepare(c)
    <3>1. ASSUME NEW d \in Call, d # c, Turn(d) \/ Enter(d) \/ GiveUp(d) PROVE FALSE
      <4>1. stage'[c] = stage[c]
        <5>1. CASE Turn(d)
          <6>1. TakeTurn(d) \/ Within(d) \/ Leaves(d)
            BY <5>1, TurnSteps DEF Turn
          <6> QED
            BY <3>1, <6>1 DEF TakeTurn, Within, Leaves, Leave, RefillInv, GapInv, NonceTyped, Typed
        <5>2. CASE Enter(d) \/ GiveUp(d)
          BY <3>1, <5>2 DEF Enter, GiveUp, Leave, RefillInv, GapInv, NonceTyped, Typed
        <5> QED
          BY <3>1, <5>1, <5>2
      <4> QED
        BY <4>1
    <3>2. ASSUME NEW d \in Call, TakenLate(d) \/ Mine(d) \/ Vanish(d) PROVE FALSE
      BY <3>2 DEF TakenLate, Mine, Vanish
    <3>3. ~Tick
      BY DEF Tick
    <3>4. Turn(c) \/ Enter(c) \/ GiveUp(c)
      BY <3>1, <3>2, <3>3 DEF Next
    <3> QED
      BY <3>4 DEF Turn, TakeTurn, Note, Send, Look, Enter, GiveUp
  <2>2. adrift' = {} /\ ~Held(mined)'
    <3>1. \A d \in Call : stage'[d] = IF d = c THEN "signed" ELSE stage[d]
      BY <2>1 DEF Prepare, LeaveUnsent, Leave, RefillInv, GapInv, NonceTyped, Typed
    <3>2. c \notin pool /\ UNCHANGED <<pool, mined>> /\ \A d \in Call \ {c} : nonce'[d] = nonce[d]
      BY <2>1 DEF Prepare, RefillInv, GapInv, NonceTyped, Sent
    <3> QED
      BY <2>1, <3>2 DEF Prepare, Held, RefillInv, GapInv, NonceTyped
  <2> QED
    BY <2>1, <2>2, PrepareStalled DEF RefillInv
<1> QED
  BY <1>1, RefillInit, RefillStep, PTL DEF Spec, GapIsRefilled
=============================================================================
