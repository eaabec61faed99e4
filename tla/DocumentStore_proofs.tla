------------------------- MODULE DocumentStore_proofs -------------------------
(* The document store keeps the promise of LossyStore, for any changes,     *)
(* callers, failing writes and restarts.                                    *)
EXTENDS DocumentStore, TLAPS

StoreTyped ==
    /\ doc \in SUBSET Changes
    /\ chain \in Seq(Links)
    /\ sent \in SUBSET Changes
    /\ disk \in SUBSET Changes
    /\ late \in SUBSET (SUBSET Changes)
    /\ call \in [Callers -> {"idle", "waiting", "ok", "failed"}]
    /\ asked \in [Callers -> SUBSET Changes]
    /\ acked \in SUBSET Changes
    /\ strayed \in BOOLEAN

(* The document holds what was asked for and what was written down.         *)
Covered ==
    /\ sent \subseteq doc
    /\ \A c \in Callers : asked[c] \subseteq doc

(* A write at work is the first of the chain and carries what its caller    *)
(* asked for.                                                               *)
Carried ==
    /\ work # "idle" => chain # <<>>
    /\ work \in {"sent", "applied"} /\ chain[1] \in Callers =>
          asked[chain[1]] \subseteq sent

(* Storage is behind the document and never goes back.                      *)
Behind ==
    ~strayed =>
        /\ disk \subseteq doc /\ acked \subseteq disk
        /\ work = "sent" => disk \subseteq sent
        /\ work = "applied" => disk = sent

StoreInv == StoreTyped /\ Covered /\ Carried /\ Behind

LEMMA StoreStarts == Init => StoreInv
<1> SUFFICES ASSUME Init PROVE StoreInv
  OBVIOUS
<1>1. StoreTyped
  <2>1. chain \in Seq(Links)
    BY DEF Init, Fresh
  <2> QED
    BY <2>1 DEF Init, Fresh, StoreTyped
<1>2. Covered /\ Carried /\ Behind
  BY DEF Init, Fresh, Covered, Carried, Behind
<1> QED
  BY <1>1, <1>2 DEF StoreInv

(* What the chain looks like after one more link, or one less.              *)
LEMMA ChainGrows ==
    ASSUME chain \in Seq(Links), NEW link \in Links
    PROVE  /\ Append(chain, link) \in Seq(Links)
           /\ Append(chain, link) # <<>>
           /\ chain # <<>> => Append(chain, link)[1] = chain[1]
<1>1. Append(chain, link) \in Seq(Links) /\ Len(Append(chain, link)) = Len(chain) + 1
  OBVIOUS
<1>2. Append(chain, link) # <<>>
  <2>1. Len(chain) \in Nat /\ Len(chain) + 1 # 0
    OBVIOUS
  <2>2. Len(<<>>) = 0
    OBVIOUS
  <2> QED
    BY <1>1, <2>1, <2>2
<1>3. chain # <<>> => 1 \in 1..Len(chain)
  OBVIOUS
<1>4. \A k \in 1..Len(chain) : Append(chain, link)[k] = chain[k]
  OBVIOUS
<1> QED
  BY <1>1, <1>2, <1>3, <1>4

LEMMA ChainFirst ==
    ASSUME chain \in Seq(Links), chain # <<>>
    PROVE  chain[1] \in Links /\ Tail(chain) \in Seq(Links) /\ 1 \in DOMAIN chain
  OBVIOUS

LEMMA EndKeeps ==
    ASSUME StoreInv, work # "idle", NEW answer \in {"ok", "failed"}, End(answer),
           answer = "ok" => work = "applied",
           UNCHANGED <<disk, strayed>>, late' \in SUBSET (SUBSET Changes)
    PROVE  StoreInv'
<1> USE DEF StoreInv
<1>1. /\ chain' = Tail(chain) /\ work' = "idle" /\ sent' = {}
      /\ UNCHANGED <<doc, asked>>
  BY DEF End, memory
<1>2. chain # <<>> /\ chain[1] \in Links /\ Tail(chain) \in Seq(Links)
  BY ChainFirst DEF Carried, StoreTyped
<1>3. /\ call' \in [Callers -> {"idle", "waiting", "ok", "failed"}]
      /\ \/ acked' = acked
         \/ answer = "ok" /\ chain[1] \in Callers /\ acked' = acked \cup asked[chain[1]]
  BY DEF End, StoreTyped
<1>4. acked' \in SUBSET Changes
  BY <1>3 DEF StoreTyped
<1>5. ~strayed => acked' \subseteq disk
  BY <1>3 DEF Behind, Carried
<1>6. StoreTyped'
  BY <1>1, <1>2, <1>3, <1>4 DEF StoreTyped
<1>7. Behind'
  BY <1>1, <1>5 DEF Behind
<1> QED
  BY <1>1, <1>6, <1>7 DEF Covered, Carried

LEMMA StoreStep ==
    ASSUME StoreInv, [Next]_vars
    PROVE  StoreInv'
<1> USE DEF StoreInv, store, caller, memory, queue, writer, bounds
<1>1. CASE Change \/ SaveState \/ UNCHANGED vars
  BY <1>1 DEF Change, SaveState, vars, StoreTyped, Covered, Carried, Behind
<1>2. ASSUME NEW link \in Links, Enqueue(link),
             UNCHANGED <<doc, work, sent, disk, late, acked, strayed>>,
             \/ UNCHANGED <<call, asked>>
             \/ \E c \in Callers :
                   /\ ~\E k \in DOMAIN chain : chain[k] = c
                   /\ call' = [call EXCEPT ![c] = "waiting"]
                   /\ asked' = [asked EXCEPT ![c] = doc]
      PROVE  StoreInv'
  <2>1. /\ chain' \in Seq(Links) /\ chain' # <<>>
        /\ chain # <<>> => chain'[1] = chain[1]
    BY <1>2, ChainGrows DEF Enqueue, StoreTyped
  <2>2. StoreTyped'
    BY <1>2, <2>1 DEF StoreTyped
  <2>3. Covered'
    BY <1>2 DEF Covered, StoreTyped
  <2>4. chain # <<>> /\ chain[1] \in Callers => asked'[chain[1]] = asked[chain[1]]
    BY <1>2, ChainFirst DEF StoreTyped
  <2>5. Carried'
    BY <1>2, <2>1, <2>4 DEF Carried
  <2>6. Behind'
    BY <1>2 DEF Behind
  <2> QED
    BY <2>2, <2>3, <2>5, <2>6
<1>3. CASE Timer
  BY <1>2, <1>3 DEF Timer, Links
<1>4. CASE Terminate
  BY <1>2, <1>4 DEF Terminate, Links
<1>5. ASSUME NEW c \in Callers, FlushDurably(c) PROVE StoreInv'
  BY <1>2, <1>5 DEF FlushDurably, Links
<1>6. ASSUME NEW c \in Callers, GiveUp(c) PROVE StoreInv'
  BY <1>6 DEF GiveUp, StoreTyped, Covered, Carried, Behind
<1>7. ASSUME NEW c \in Callers, Return(c) PROVE StoreInv'
  <2>1. StoreTyped' /\ Covered'
    BY <1>7 DEF Return, StoreTyped, Covered
  <2>2. Carried'
    BY <1>7 DEF Return, StoreTyped, Carried
  <2>3. Behind'
    BY <1>7 DEF Return, Behind
  <2> QED
    BY <2>1, <2>2, <2>3
<1>8. CASE Begin
  <2>1. chain # <<>> /\ Tail(chain) \in Seq(Links)
    BY <1>8, ChainFirst DEF Begin, StoreTyped
  <2>2. StoreTyped'
    BY <1>8, <2>1 DEF Begin, StoreTyped
  <2>3. Covered' /\ Carried' /\ Behind'
    BY <1>8, <2>1 DEF Begin, Covered, Carried, Behind
  <2> QED
    BY <2>2, <2>3
<1>9. CASE Send
  BY <1>9 DEF Send, StoreTyped, Covered, Carried, Behind
<1>10. CASE Apply
  BY <1>10 DEF Apply, StoreTyped, Covered, Carried, Behind
<1>11. CASE Written
  BY <1>11, EndKeeps DEF Written, StoreTyped
<1>12. CASE Failed
  <2>1. late' \in SUBSET (SUBSET Changes)
    BY <1>12 DEF Failed, StoreTyped
  <2> QED
    BY <1>12, <2>1, EndKeeps DEF Failed
<1>13. CASE Straggle
  BY <1>13 DEF Straggle, StoreTyped, Covered, Carried, Behind
<1>14. CASE Restart
  BY <1>14 DEF Restart, StoreTyped, Covered, Carried, Behind
<1> QED
  BY <1>1, <1>3, <1>4, <1>5, <1>6, <1>7, <1>8, <1>9, <1>10, <1>11, <1>12, <1>13, <1>14
     DEF Next

(* A step of the store is a step of what it promises, or none of it.        *)
LEMMA StepKeepsPromise ==
    ASSUME StoreInv, [Next]_vars
    PROVE  [Promise!Next]_(Promise!vars)
<1> USE DEF store, caller, memory, queue, writer, bounds, StoreInv
<1>1. CASE Change
  BY <1>1 DEF Change, Promise!vars, Promise!Next, Promise!Change, StoreTyped
<1>2. CASE Apply
  BY <1>2 DEF Apply, Promise!Next, Promise!Write, Covered, Behind, StoreTyped
<1>3. CASE Written
  <2>1. UNCHANGED <<doc, disk, strayed>>
    BY <1>3 DEF Written, End
  <2>2. \/ acked' = acked
        \/ chain[1] \in Callers /\ acked' = acked \cup asked[chain[1]]
    BY <1>3 DEF Written, End
  <2>3. acked' \in SUBSET Changes
    BY <2>2 DEF StoreTyped
  <2>4. strayed \/ acked' \subseteq acked \cup disk
    BY <1>3, <2>2 DEF Written, Carried, Behind
  <2> QED
    BY <2>1, <2>2, <2>3, <2>4 DEF Promise!Next, Promise!Acknowledge
<1>4. CASE Failed
  BY <1>4 DEF Failed, End, Promise!vars
<1>5. CASE Straggle
  BY <1>5 DEF Straggle, Promise!Next, Promise!Stray, StoreTyped
<1>6. CASE Restart
  BY <1>6 DEF Restart, Promise!Next, Promise!Reload
<1>7. ASSUME NEW c \in Callers, FlushDurably(c) \/ GiveUp(c) \/ Return(c)
      PROVE  UNCHANGED Promise!vars
  BY <1>7 DEF FlushDurably, GiveUp, Return, Promise!vars
<1>8. CASE SaveState \/ Timer \/ Begin \/ Send \/ Terminate \/ UNCHANGED vars
  BY <1>8 DEF SaveState, Timer, Begin, Send, Terminate, vars, Promise!vars
<1> QED
  BY <1>1, <1>2, <1>3, <1>4, <1>5, <1>6, <1>7, <1>8 DEF Next

(* storage.ts keeps the promise: what a caller was told is in storage is    *)
(* there after a restart, and storage never goes back, unless a write that  *)
(* was given up on was applied late.                                        *)
THEOREM PromiseKept == Spec => KeepsPromise
<1>1. Init => StoreInv
  BY StoreStarts
<1>2. StoreInv /\ [Next]_vars => StoreInv'
  BY StoreStep
<1>3. Init => Promise!Init
  BY DEF Init, Fresh, Promise!Init
<1>4. StoreInv /\ [Next]_vars => [Promise!Next]_(Promise!vars)
  BY StepKeepsPromise
<1> QED
  BY <1>1, <1>2, <1>3, <1>4, PTL DEF Spec, KeepsPromise, Promise!Spec
=============================================================================
