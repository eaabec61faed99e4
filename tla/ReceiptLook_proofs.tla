-------------------------- MODULE ReceiptLook_proofs --------------------------
(* What a look may conclude from the hosts of a chain, for any hosts, any   *)
(* that serve transactions or receipts, any number of blocks and of answers *)
(* that do not come: "dropped" on a chain that takes no block back, and     *)
(* "settled" on one that takes back fewer than the depth asked for.         *)
EXTENDS ReceiptLook, TLAPS

LookTyped ==
    /\ setting \in Settings
    /\ chain \in Seq(Blocks)
    /\ view \in [Hosts -> Seq(Blocks)]
    /\ asked \in SUBSET Hosts

Prefix(v, c) == Len(v) <= Len(c) /\ \A i \in 1..Len(v) : v[i] = c[i]

(* A host has some of the chain, and what it has seen it has seen for good. *)
Lagging == \A h \in Hosts : Prefix(view[h], chain)

(* What the answers so far say: whoever was asked for its count has used    *)
(* the nonce, and whoever would have served our transaction or its receipt  *)
(* and did not has another one there.                                       *)
Told ==
    /\ step = "counts" => \A h \in asked : Used(view[h])
    /\ step \in {"transactions", "receipts"} => \A h \in Hosts : Used(view[h])
    /\ step = "transactions" =>
          (asked \cap setting.transactions # {} => Holds(chain, "other"))
    /\ step = "receipts" =>
          (setting.transactions \cup (asked \cap setting.receipts) # {}
              => Holds(chain, "other"))
    /\ verdict = "dropped" => Holds(chain, "other")

LookInv == LookTyped /\ (setting.reorg = 0 => Lagging /\ Told)

(* What a prefix holds the whole holds too.                                 *)
LEMMA PrefixHolds ==
    ASSUME NEW v \in Seq(Blocks), NEW c \in Seq(Blocks), Prefix(v, c),
           NEW b, Holds(v, b)
    PROVE  Holds(c, b)
  BY DEF Prefix, Holds

LEMMA LookStarts == Init => LookInv
<1> SUFFICES ASSUME Init PROVE LookInv
  OBVIOUS
<1>1. chain = <<>> /\ \A h \in Hosts : view[h] = <<>>
  BY DEF Init
<1>2. LookTyped
  BY <1>1 DEF Init, LookTyped
<1>3. Lagging /\ Told
  BY <1>1 DEF Init, Lagging, Prefix, Told
<1> QED
  BY <1>2, <1>3 DEF LookInv

(* A block is added.                                                        *)
LEMMA MineKeeps ==
    ASSUME LookInv, Mine
    PROVE  LookInv'
<1>1. PICK b \in Blocks : chain' = Append(chain, b)
  BY DEF Mine
<1>2. /\ chain' \in Seq(Blocks) /\ Len(chain') = Len(chain) + 1
      /\ \A i \in 1..Len(chain) : chain'[i] = chain[i]
  BY <1>1 DEF LookInv, LookTyped
<1>3. UNCHANGED <<setting, view, step, asked, block, verdict>>
  BY DEF Mine, look
<1>4. LookTyped'
  BY <1>2, <1>3 DEF LookInv, LookTyped
<1>5. ASSUME setting.reorg = 0 PROVE Lagging' /\ Told'
  <2>1. Lagging /\ Told /\ chain \in Seq(Blocks) /\ view \in [Hosts -> Seq(Blocks)]
    BY <1>5 DEF LookInv, LookTyped
  <2>2. Prefix(chain, chain')
    BY <1>2, <2>1 DEF Prefix
  <2>3. Holds(chain, "other") => Holds(chain', "other")
    BY <1>2, <2>1, <2>2, PrefixHolds
  <2>4. Lagging'
    <3> SUFFICES ASSUME NEW h \in Hosts PROVE Prefix(view[h], chain')
      BY <1>3 DEF Lagging
    <3>1. Prefix(view[h], chain) /\ Len(view[h]) \in Nat /\ Len(chain) \in Nat
      BY <2>1 DEF Lagging
    <3> QED
      BY <1>2, <3>1 DEF Prefix
  <2> QED
    BY <1>3, <2>1, <2>3, <2>4 DEF Told
<1> QED
  BY <1>3, <1>4, <1>5 DEF LookInv

(* A host sees more of the chain.                                           *)
LEMMA CatchUpKeeps ==
    ASSUME LookInv, NEW h \in Hosts, CatchUp(h)
    PROVE  LookInv'
<1>1. PICK n \in Len(view[h])..Len(chain) :
         view' = [view EXCEPT ![h] = SubSeq(chain, 1, n)]
  BY DEF CatchUp
<1>2. /\ chain \in Seq(Blocks) /\ view \in [Hosts -> Seq(Blocks)]
      /\ n \in Nat /\ n <= Len(chain) /\ Len(view[h]) <= n
  BY <1>1 DEF LookInv, LookTyped
<1> DEFINE w == SubSeq(chain, 1, n)
<1>3. w \in Seq(Blocks) /\ Len(w) = n /\ \A i \in 1..n : w[i] = chain[i]
  BY <1>2
<1> HIDE DEF w
<1>4. view'[h] = w /\ \A g \in Hosts \ {h} : view'[g] = view[g]
  BY <1>1, <1>2 DEF w
<1>5. UNCHANGED <<setting, chain, step, asked, block, verdict>>
  BY DEF CatchUp, look
<1>6. view' \in [Hosts -> Seq(Blocks)]
  BY <1>1, <1>2, <1>3 DEF w
<1>7. LookTyped'
  BY <1>5, <1>6 DEF LookInv, LookTyped
<1>8. ASSUME setting.reorg = 0 PROVE Lagging' /\ Told'
  <2>1. Lagging /\ Told
    BY <1>8 DEF LookInv
  <2>2. Prefix(w, chain)
    BY <1>2, <1>3 DEF Prefix
  <2>3. Lagging'
    BY <1>4, <1>5, <2>1, <2>2 DEF Lagging
  <2>4. Prefix(view[h], w)
    BY <1>2, <1>3, <2>1 DEF Lagging, Prefix
  <2>5. Used(view[h]) => Used(w)
    BY <1>2, <1>3, <2>4, PrefixHolds DEF Used
  <2>6. \A g \in Hosts : Used(view[g]) => Used(view'[g])
    BY <1>4, <2>5
  <2> QED
    BY <1>5, <1>7, <2>1, <2>3, <2>6 DEF Told, LookTyped
<1> QED
  BY <1>5, <1>7, <1>8 DEF LookInv

(* An answer of a host, or none.                                            *)
LEMMA AnswerKeeps ==
    ASSUME LookInv, Look \/ NoAnswer \/ \E h \in Hosts : Answer(h)
    PROVE  LookInv'
<1> USE DEF Ask, Idle, Conclude
<1>1. UNCHANGED <<setting, chain, view>>
  BY DEF Look, NoAnswer, Answer, AskReceipt, AskHead, AskCount, AskTransaction,
         AskReceipts, ledger
<1>2. asked' \in SUBSET Hosts
  BY DEF Look, NoAnswer, Answer, AskReceipt, AskHead, AskCount, AskTransaction,
         AskReceipts, LookInv, LookTyped
<1>3. LookTyped'
  BY <1>1, <1>2 DEF LookInv, LookTyped
<1>4. ASSUME setting.reorg = 0 PROVE Told'
  <2>1. Lagging /\ Told /\ LookTyped
    BY <1>4 DEF LookInv
  <2>2. \A h \in Hosts : Used(view[h]) /\ ~Holds(view[h], "ours") => Holds(chain, "other")
    BY <2>1, PrefixHolds DEF Lagging, LookTyped, Used
  <2>3. CASE Look
    BY <1>1, <2>1, <2>3 DEF Look, Told
  <2>4. CASE NoAnswer
    BY <1>1, <2>1, <2>4 DEF NoAnswer, Told
  <2>5. ASSUME NEW h \in Hosts, AskReceipt(h) PROVE Told'
    BY <1>1, <2>1, <2>5 DEF AskReceipt, Told
  <2>6. ASSUME NEW h \in Hosts, AskHead(h) PROVE Told'
    BY <1>1, <2>1, <2>6 DEF AskHead, Told
  <2>7. ASSUME NEW h \in Hosts, AskCount(h) PROVE Told'
    BY <1>1, <2>1, <2>7 DEF AskCount, Told
  <2>8. ASSUME NEW h \in Hosts, AskTransaction(h) PROVE Told'
    <3>1. setting.transactions \subseteq Hosts
      BY <2>1, LookAssumption DEF LookTyped
    <3>2. Used(view[h])
      BY <2>1, <2>8 DEF AskTransaction, Told
    <3>3. CASE Idle
      BY <1>1, <2>1, <3>3 DEF Told
    <3>4. CASE /\ ~(h \in setting.transactions /\ Holds(view[h], "ours"))
               /\ UNCHANGED verdict
               /\ IF asked \cup {h} = Hosts
                  THEN step' = "receipts" /\ asked' = {}
                  ELSE asked' = asked \cup {h} /\ step' = "transactions"
      <4>1. (asked \cup {h}) \cap setting.transactions # {} => Holds(chain, "other")
        BY <2>1, <2>2, <2>8, <3>2, <3>4 DEF AskTransaction, Told
      <4>2. CASE asked \cup {h} = Hosts
        BY <1>1, <2>1, <2>8, <3>1, <3>4, <4>1, <4>2 DEF AskTransaction, Told
      <4>3. CASE asked \cup {h} # Hosts
        BY <1>1, <2>1, <2>8, <3>4, <4>1, <4>3 DEF AskTransaction, Told
      <4> QED
        BY <4>2, <4>3
    <3> QED
      BY <2>8, <3>3, <3>4 DEF AskTransaction
  <2>9. ASSUME NEW h \in Hosts, AskReceipts(h) PROVE Told'
    <3>1. setting.receipts \subseteq Hosts /\ setting.transactions \cup setting.receipts # {}
      BY <2>1, LookAssumption DEF LookTyped
    <3>2. Used(view[h])
      BY <2>1, <2>9 DEF AskReceipts, Told
    <3>3. CASE Idle
      BY <1>1, <2>1, <3>3 DEF Told
    <3>4. CASE /\ ~(h \in setting.receipts /\ Holds(view[h], "ours"))
               /\ IF asked \cup {h} = Hosts
                  THEN Conclude("dropped")
                  ELSE asked' = asked \cup {h} /\ UNCHANGED <<step, block, verdict>>
      <4>1. setting.transactions \cup ((asked \cup {h}) \cap setting.receipts) # {}
               => Holds(chain, "other")
        BY <2>1, <2>2, <2>9, <3>2, <3>4 DEF AskReceipts, Told
      <4>2. CASE asked \cup {h} = Hosts
        BY <1>1, <3>1, <3>4, <4>1, <4>2 DEF Told
      <4>3. CASE asked \cup {h} # Hosts
        BY <1>1, <2>1, <2>9, <3>4, <4>1, <4>3 DEF AskReceipts, Told
      <4> QED
        BY <4>2, <4>3
    <3> QED
      BY <2>9, <3>3, <3>4 DEF AskReceipts
  <2> QED
    BY <2>3, <2>4, <2>5, <2>6, <2>7, <2>8, <2>9 DEF Answer
<1>5. setting.reorg = 0 => Lagging'
  BY <1>1 DEF LookInv, Lagging
<1> QED
  BY <1>1, <1>3, <1>4, <1>5 DEF LookInv

(* A chain that takes no block back has no such step; another is not bound. *)
LEMMA ReorgKeeps ==
    ASSUME LookInv, Reorg
    PROVE  LookInv'
<1>1. PICK k \in 1..Len(chain), b \in Blocks :
         /\ Len(chain) - k < setting.reorg
         /\ chain' = [chain EXCEPT ![k] = b]
  BY DEF Reorg
<1>2. chain' \in Seq(Blocks)
  BY <1>1 DEF LookInv, LookTyped
<1>3. setting.reorg # 0
  <2>1. Len(chain) \in Nat
    BY DEF LookInv, LookTyped
  <2> QED
    BY <1>1, <2>1
<1> QED
  BY <1>2, <1>3 DEF Reorg, look, LookInv, LookTyped

(* A transaction said never to land is not on the chain and never gets      *)
(* there, whatever the hosts had not seen yet and whichever of them serve   *)
(* transactions or receipts (receipts.ts, canNeverLand).                    *)
THEOREM DroppedTrue == Spec => []DroppedIsTrue
<1>1. Init => LookInv
  BY LookStarts
<1>2. LookInv /\ [Next]_vars => LookInv'
  <2> SUFFICES ASSUME LookInv, [Next]_vars PROVE LookInv'
    OBVIOUS
  <2>1. CASE UNCHANGED vars
    BY <2>1 DEF vars, ledger, look, LookInv, LookTyped, Lagging, Told
  <2> QED
    BY <2>1, MineKeeps, ReorgKeeps, CatchUpKeeps, AnswerKeeps DEF Next
<1>3. LookInv => DroppedIsTrue
  BY DEF LookInv, Told, DroppedIsTrue
<1> QED
  BY <1>1, <1>2, <1>3, PTL DEF Spec

-----------------------------------------------------------------------------
(* A settled payment, on a chain that may take blocks back.                 *)

OursAt(i) == i \in DOMAIN chain /\ chain[i] = "ours"

(* Until a look concludes and unless a reorg has touched the block of our   *)
(* transaction: what a host or the look saw of it is still so.              *)
SeenIsThere ==
    /\ \A h \in Hosts, i \in Nat :
          i \in DOMAIN view[h] /\ view[h][i] = "ours" => OursAt(i)
    /\ step = "head" => OursAt(block)

(* What makes it last: the block lies at the depth asked for.               *)
Buried == \E i \in Nat : OursAt(i) /\ Len(chain) >= i + setting.confirmations - 1

FinalInv ==
    /\ LookTyped
    /\ block \in Nat
    /\ \A h \in Hosts : Len(view[h]) <= Len(chain)
    /\ step # "idle" => verdict = "none"
    /\ ~moved /\ verdict # "settled" => SeenIsThere
    /\ ~moved /\ verdict = "settled" /\ setting.reorg < setting.confirmations
          => Buried

LEMMA SettingTyped ==
    ASSUME LookTyped
    PROVE  setting.confirmations \in Nat \ {0} /\ setting.reorg \in Nat
  BY LookAssumption DEF LookTyped

LEMMA FinalStarts == Init => FinalInv
<1> SUFFICES ASSUME Init PROVE FinalInv
  OBVIOUS
<1>1. chain = <<>> /\ \A h \in Hosts : view[h] = <<>>
  BY DEF Init
<1>2. LookTyped
  BY <1>1 DEF Init, LookTyped
<1> QED
  BY <1>1, <1>2 DEF Init, FinalInv, SeenIsThere

(* A block is added: every block keeps its place and lies deeper.           *)
LEMMA MineBuries ==
    ASSUME FinalInv, Mine
    PROVE  FinalInv'
<1>1. PICK b \in Blocks : chain' = Append(chain, b)
  BY DEF Mine
<1>2. /\ chain \in Seq(Blocks) /\ view \in [Hosts -> Seq(Blocks)]
      /\ chain' \in Seq(Blocks) /\ Len(chain') = Len(chain) + 1
      /\ \A i \in 1..Len(chain) : chain'[i] = chain[i]
  BY <1>1 DEF FinalInv, LookTyped
<1>3. UNCHANGED <<setting, view, step, asked, block, verdict, moved>>
  BY DEF Mine, look
<1>4. LookTyped'
  BY <1>2, <1>3 DEF FinalInv, LookTyped
<1>5. \A i \in Nat : OursAt(i) => OursAt(i)'
  BY <1>2 DEF OursAt
<1>6. \A h \in Hosts : Len(view'[h]) <= Len(chain')
  BY <1>2, <1>3 DEF FinalInv
<1>7. SeenIsThere => SeenIsThere'
  BY <1>3, <1>5 DEF SeenIsThere, FinalInv
<1>8. Buried => Buried'
  BY <1>2, <1>3, <1>5, SettingTyped DEF Buried, FinalInv
<1> QED
  BY <1>3, <1>4, <1>6, <1>7, <1>8 DEF FinalInv

(* A reorg before the look concludes counts as one that moved the block; a  *)
(* later one does not reach it.                                             *)
LEMMA ReorgSpares ==
    ASSUME FinalInv, Reorg
    PROVE  FinalInv'
<1>1. PICK k \in 1..Len(chain), b \in Blocks :
         /\ Len(chain) - k < setting.reorg
         /\ chain' = [chain EXCEPT ![k] = b]
  BY DEF Reorg
<1>2. /\ chain \in Seq(Blocks) /\ chain' \in Seq(Blocks)
      /\ Len(chain') = Len(chain) /\ Len(chain) \in Nat
      /\ \A i \in 1..Len(chain) : i # k => chain'[i] = chain[i]
  BY <1>1 DEF FinalInv, LookTyped
<1>3. UNCHANGED <<setting, view, step, asked, block, verdict>>
  BY DEF Reorg, look
<1>4. moved' = (moved \/ (Holds(chain, "ours") /\ verdict # "settled"))
  BY DEF Reorg
<1>5. LookTyped'
  BY <1>2, <1>3 DEF FinalInv, LookTyped
<1>6. ASSUME ~moved', verdict # "settled" PROVE SeenIsThere'
  <2>1. \A i \in Nat : ~OursAt(i)
    BY <1>4, <1>6 DEF Holds, OursAt
  <2> QED
    BY <1>3, <1>4, <1>6, <2>1 DEF SeenIsThere, FinalInv
<1>7. ASSUME ~moved', verdict = "settled", setting.reorg < setting.confirmations
      PROVE  Buried'
  <2>1. PICK i \in Nat : OursAt(i) /\ Len(chain) >= i + setting.confirmations - 1
    BY <1>4, <1>7 DEF FinalInv, Buried
  <2>2. i # k
    BY <1>1, <1>2, <1>7, <2>1, SettingTyped DEF FinalInv
  <2>3. OursAt(i)'
    BY <1>2, <2>1, <2>2 DEF OursAt
  <2> QED
    BY <1>2, <1>3, <2>1, <2>3 DEF Buried
<1> QED
  BY <1>2, <1>3, <1>5, <1>6, <1>7 DEF FinalInv

(* A host sees more of the chain as it is.                                  *)
LEMMA CatchUpSees ==
    ASSUME FinalInv, NEW h \in Hosts, CatchUp(h)
    PROVE  FinalInv'
<1>1. PICK n \in Len(view[h])..Len(chain) :
         view' = [view EXCEPT ![h] = SubSeq(chain, 1, n)]
  BY DEF CatchUp
<1>2. /\ chain \in Seq(Blocks) /\ view \in [Hosts -> Seq(Blocks)]
      /\ n \in Nat /\ n <= Len(chain)
  BY <1>1 DEF FinalInv, LookTyped
<1> DEFINE w == SubSeq(chain, 1, n)
<1>3. w \in Seq(Blocks) /\ Len(w) = n /\ \A i \in 1..n : w[i] = chain[i]
  BY <1>2
<1>4. view'[h] = w /\ \A g \in Hosts \ {h} : view'[g] = view[g]
  BY <1>1, <1>2
<1>5. view' \in [Hosts -> Seq(Blocks)]
  BY <1>1, <1>2, <1>3
<1> HIDE DEF w
<1>6. UNCHANGED <<setting, chain, step, asked, block, verdict, moved>>
  BY DEF CatchUp, look
<1>7. LookTyped'
  BY <1>5, <1>6 DEF FinalInv, LookTyped
<1>8. \A g \in Hosts : Len(view'[g]) <= Len(chain')
  BY <1>2, <1>3, <1>4, <1>6 DEF FinalInv
<1>9. SeenIsThere => SeenIsThere'
  <2> SUFFICES ASSUME SeenIsThere, NEW g \in Hosts, NEW i \in Nat,
                      i \in DOMAIN view'[g], view'[g][i] = "ours"
               PROVE  OursAt(i)
    BY <1>6 DEF SeenIsThere, OursAt
  <2>1. CASE g = h
    BY <1>2, <1>3, <1>4, <2>1 DEF OursAt
  <2>2. CASE g # h
    BY <1>4, <2>2 DEF SeenIsThere
  <2> QED
    BY <2>1, <2>2
<1>10. Buried => Buried'
  BY <1>6 DEF Buried, OursAt
<1> QED
  BY <1>6, <1>7, <1>8, <1>9, <1>10 DEF FinalInv

(* The receipt is in a block of the chain, and settles the payment at once  *)
(* only where one block is deep enough.                                     *)
LEMMA ReceiptIsThere ==
    ASSUME FinalInv, NEW h \in Hosts, AskReceipt(h)
    PROVE  FinalInv'
<1> USE DEF Ask
<1>1. UNCHANGED <<setting, chain, view, moved>> /\ verdict = "none"
  BY DEF AskReceipt, ledger, FinalInv
<1>2. LookTyped'
  <2>1. asked' \in SUBSET Hosts
    BY DEF AskReceipt, FinalInv, LookTyped
  <2> QED
    BY <1>1, <2>1 DEF FinalInv, LookTyped
<1>3. view \in [Hosts -> Seq(Blocks)] /\ chain \in Seq(Blocks)
  BY DEF FinalInv, LookTyped
<1>4. CASE h \in setting.receipts /\ Holds(view[h], "ours")
  <2>1. /\ block' \in DOMAIN view[h] /\ view[h][block'] = "ours"
        /\ IF setting.confirmations = 1
           THEN step' = "idle" /\ verdict' = "settled"
           ELSE step' = "head" /\ verdict' = "none"
    BY <1>1, <1>4 DEF AskReceipt, Holds
  <2>2. block' \in Nat
    BY <1>3, <2>1
  <2>3. ~moved => SeenIsThere /\ OursAt(block')
    BY <1>1, <2>1, <2>2 DEF FinalInv, SeenIsThere
  <2>4. ~moved /\ verdict' # "settled" => SeenIsThere'
    BY <1>1, <2>3 DEF SeenIsThere, OursAt
  <2>5. ~moved /\ verdict' = "settled" => Buried'
    <3> SUFFICES ASSUME ~moved, verdict' = "settled" PROVE Buried'
      OBVIOUS
    <3>1. setting.confirmations = 1 /\ OursAt(block')
      BY <2>1, <2>3
    <3>2. Len(chain) >= block' + setting.confirmations - 1
      BY <1>3, <2>2, <3>1 DEF OursAt
    <3> QED
      BY <1>1, <2>2, <3>1, <3>2 DEF Buried, OursAt
  <2> QED
    BY <1>1, <1>2, <2>1, <2>2, <2>4, <2>5 DEF FinalInv
<1>5. CASE ~(h \in setting.receipts /\ Holds(view[h], "ours"))
  <2>1. UNCHANGED <<block, verdict>> /\ step' \in {"receipt", "counts"}
    BY <1>5 DEF AskReceipt
  <2>2. SeenIsThere => SeenIsThere'
    BY <1>1, <2>1 DEF SeenIsThere, OursAt
  <2> QED
    BY <1>1, <1>2, <2>1, <2>2 DEF FinalInv
<1> QED
  BY <1>4, <1>5

(* A host whose head is deep enough has no more than the chain has.         *)
LEMMA HeadBuries ==
    ASSUME FinalInv, NEW h \in Hosts, AskHead(h)
    PROVE  FinalInv'
<1> USE DEF Ask, Idle, Conclude
<1>1. UNCHANGED <<setting, chain, view, block, moved>> /\ verdict = "none"
  BY DEF AskHead, ledger, FinalInv
<1>2. step = "head" /\ step' = "idle" /\ asked' = {}
  BY DEF AskHead
<1>3. LookTyped'
  BY <1>1, <1>2 DEF FinalInv, LookTyped
<1>4. ~moved => SeenIsThere /\ OursAt(block)
  BY <1>1, <1>2 DEF FinalInv, SeenIsThere
<1>5. SeenIsThere => SeenIsThere'
  BY <1>1, <1>2 DEF SeenIsThere, OursAt
<1>6. ASSUME ~moved, verdict' = "settled" PROVE Buried'
  <2>1. Len(view[h]) >= block + setting.confirmations - 1
    BY <1>1, <1>6 DEF AskHead
  <2>2. /\ Len(view[h]) \in Nat /\ Len(chain) \in Nat /\ block \in Nat
        /\ Len(view[h]) <= Len(chain)
    BY DEF FinalInv, LookTyped
  <2>3. Len(chain) >= block + setting.confirmations - 1
    BY <2>1, <2>2, SettingTyped DEF FinalInv
  <2> QED
    BY <1>1, <1>4, <1>6, <2>2, <2>3 DEF Buried, OursAt
<1> QED
  BY <1>1, <1>2, <1>3, <1>4, <1>5, <1>6 DEF FinalInv

(* The other answers, and those that do not come, settle nothing.           *)
LEMMA OtherAnswersKeep ==
    ASSUME FinalInv,
           \/ Look \/ NoAnswer
           \/ \E h \in Hosts : AskCount(h) \/ AskTransaction(h) \/ AskReceipts(h)
    PROVE  FinalInv'
<1> USE DEF Ask, Idle, Conclude
<1>1. UNCHANGED <<setting, chain, view, block, moved>> /\ verdict = "none"
  BY DEF Look, NoAnswer, AskCount, AskTransaction, AskReceipts, ledger, FinalInv
<1>2. asked' \in SUBSET Hosts
  BY DEF Look, NoAnswer, AskCount, AskTransaction, AskReceipts, FinalInv, LookTyped
<1>3. step' # "head" /\ (step' # "idle" => verdict' = "none")
  BY <1>1 DEF Look, NoAnswer, AskCount, AskTransaction, AskReceipts
<1>4. verdict' # "settled"
  BY <1>1 DEF Look, NoAnswer, AskCount, AskTransaction, AskReceipts
<1>5. LookTyped'
  BY <1>1, <1>2 DEF FinalInv, LookTyped
<1>6. SeenIsThere => SeenIsThere'
  BY <1>1, <1>3 DEF SeenIsThere, OursAt
<1> QED
  BY <1>1, <1>3, <1>4, <1>5, <1>6 DEF FinalInv

(* A payment taken for settled stays on the chain when the depth asked for  *)
(* is more than a reorg takes back, unless a reorg had moved it while the   *)
(* look was still reading (receipts.ts, waitForReceiptOnEveryRpc).          *)
THEOREM SettledFinal == Spec => []SettledIsFinal
<1>1. Init => FinalInv
  BY FinalStarts
<1>2. FinalInv /\ [Next]_vars => FinalInv'
  <2> SUFFICES ASSUME FinalInv, [Next]_vars PROVE FinalInv'
    OBVIOUS
  <2>1. CASE UNCHANGED vars
    BY <2>1 DEF vars, ledger, look, FinalInv, LookTyped, SeenIsThere, Buried, OursAt
  <2> QED
    BY <2>1, MineBuries, ReorgSpares, CatchUpSees, ReceiptIsThere, HeadBuries,
       OtherAnswersKeep DEF Next, Answer
<1>3. FinalInv => SettledIsFinal
  BY DEF FinalInv, Buried, OursAt, Holds, SettledIsFinal
<1> QED
  BY <1>1, <1>2, <1>3, PTL DEF Spec
=============================================================================
