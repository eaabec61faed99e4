-------------------------- MODULE Settlement_proofs --------------------------
(* Proofs about Instructions, for any set of instructions, amounts, caps,  *)
(* agents and bounds: its typing; SettlementInv, kept by every step that is *)
(* not a restart from a document that lost a payment, and what follows from *)
(* it (an instruction pays at most once, its record is true, its claim is   *)
(* kept); when storage knows every payment; sums of amounts; and the books  *)
(* of the daily budget.                                                     *)
EXTENDS Instructions, FiniteSetTheorems, WellFoundedInduction, TLAPS

(* The bounds of the row's number fields include their unset value.        *)
LEMMA Unset == 0 \in 0..MaxTries /\ 0 \in 0..MaxDay
    BY ConstantsAssumption

LEMMA StatusNames ==
    /\ "pending_approval" \in Statuses
    /\ "executed_onchain" \in Statuses
    /\ "executed_simulated" \in Statuses
    /\ "rejected" \in Statuses
    /\ "auto_approved" \in Statuses
    /\ "approved" \in Statuses
    /\ "none" \in Statuses
    BY DEF Statuses

LEMMA DayOfRow == day \in Days => day \in 0..MaxDay /\ day # 0
    BY ConstantsAssumption DEF Days

LEMMA NoRowType == NoRow \in Row
    BY Unset, StatusNames, Zenon DEF Row, NoRow

(* What each operation on a row leaves in its fields.                      *)
LEMMA ClearFields ==
    ASSUME NEW r \in Row, NEW q, q = ClearUnconfirmedTx(r)
    PROVE  /\ q \in Row
           /\ q.tx = 0 /\ q.status = r.status /\ q.key = r.key /\ q.keyTx = r.keyTx
           /\ q.heldOn = r.heldOn /\ q.claim = r.claim /\ q.gaveUp = r.gaveUp
           /\ q.auto = r.auto
<1>1. q \in Row
    BY Unset, Zenon DEF Row, ClearUnconfirmedTx
<1>2. QED
    BY <1>1, SMT DEF Row, ClearUnconfirmedTx

LEMMA CloseFields ==
    ASSUME NEW r \in Row, NEW q, q = CloseOpenSettlement(r)
    PROVE  /\ q \in Row
           /\ q.tx = 0 /\ q.key = 0 /\ q.status = r.status
           /\ q.heldOn = r.heldOn /\ q.claim = r.claim /\ q.gaveUp = r.gaveUp
           /\ q.auto = r.auto
<1>1. q \in Row
    BY Unset, Zenon DEF Row, CloseOpenSettlement
<1>2. QED
    BY <1>1, SMT DEF Row, CloseOpenSettlement

LEMMA HoldFields ==
    ASSUME NEW r \in Row, day \in Days, NEW q, q = HoldSettlement(r)
    PROVE  /\ q \in Row
           /\ q.status = "pending_approval" /\ q.heldOn # 0
           /\ q.tx = r.tx /\ q.key = r.key /\ q.keyTx = r.keyTx
           /\ q.claim = r.claim /\ q.gaveUp = r.gaveUp /\ q.at = r.at
           /\ q.auto = r.auto /\ q.heldOn = IF r.heldOn = 0 THEN day ELSE r.heldOn
<1>1. q \in Row
    BY DayOfRow, StatusNames, Zenon DEF Row, HoldSettlement
<1>2. QED
    BY <1>1, DayOfRow, SMT DEF Row, HoldSettlement

LEMMA ReturnedFields ==
    ASSUME NEW r \in Row, NEW q, q = Returned(r)
    PROVE  /\ q \in Row
           /\ q.status = "pending_approval" /\ q.heldOn = 0 /\ q.claim = 0
           /\ q.tx = r.tx /\ q.key = r.key /\ q.gaveUp = r.gaveUp
<1>1. q \in Row
    BY Unset, StatusNames, Zenon DEF Row, Returned
<1>2. QED
    BY <1>1, SMT DEF Row, Returned

LEMMA SettledFields ==
    ASSUME NEW r \in Row, NEW q, q = Settled(r)
    PROVE  /\ q \in Row
           /\ q.status = "executed_onchain" /\ q.tx = 0 /\ q.key = 0
           /\ q.heldOn = r.heldOn /\ q.claim = r.claim /\ q.gaveUp = r.gaveUp
           /\ q.auto = r.auto
<1> DEFINE c == CloseOpenSettlement(r)
<1>1. c \in Row /\ c.tx = 0 /\ c.key = 0 /\ c.heldOn = r.heldOn
        /\ c.claim = r.claim /\ c.gaveUp = r.gaveUp /\ c.auto = r.auto
    BY CloseFields
<1>2. q = [c EXCEPT !.status = "executed_onchain"]
    BY DEF Settled
<1> HIDE DEF c
<1>3. q \in Row
    BY <1>1, <1>2, StatusNames, Zenon DEF Row
<1>4. QED
    BY <1>1, <1>2, <1>3, SMT DEF Row

LEMMA CounterType ==
    ASSUME NEW c \in Counter, NEW a \in Nat, day \in Days
    PROVE  AddSpend(c, a) \in Counter /\ ReverseSpend(c, a) \in Counter
    BY ConstantsAssumption DEF Counter, Days, AddSpend, ReverseSpend, DailySpent

LEMMA AmountType == ASSUME NEW i \in Ix PROVE Amount[i] \in Nat
    BY ConstantsAssumption

-----------------------------------------------------------------------------
(* Type correctness, first of the endings the handlers share.              *)
EndsTyped ==
    /\ row' \in [Ix -> Row]
    /\ counter' \in Counter
    /\ dirty' \in BOOLEAN
    /\ h' \in [Ix -> Handler]

LEMMA UpdateType ==
    ASSUME TypeOK, NEW i \in Ix, NEW r \in Row, NEW c \in Counter, Update(i, r, c)
    PROVE  row' \in [Ix -> Row] /\ counter' \in Counter /\ dirty' \in BOOLEAN
    BY DEF TypeOK, Update

LEMMA ReleaseType ==
    ASSUME TypeOK, NEW i \in Ix, Release(i)
    PROVE  h' \in [Ix -> Handler]
<1>1. Idle \in Handler
    BY DEF Idle, Handler
<1>2. QED
    BY <1>1 DEF TypeOK, Release

LEMMA AtType ==
    ASSUME TypeOK, NEW i \in Ix, NEW b \in BOOLEAN,
           NEW stage \in {"idle", "read", "rejectRead", "try", "send", "wait", "label"},
           NEW rail \in {"none", "vault", "circle", "batch", "direct"},
           At(i, stage, rail, b)
    PROVE  h' \in [Ix -> Handler]
<1>1. [stage |-> stage, rail |-> rail, resumed |-> b] \in Handler
    BY DEF Handler
<1>2. QED
    BY <1>1 DEF TypeOK, At

LEMMA ReturnToHumanType ==
    ASSUME TypeOK, NEW i \in Ix, NEW r \in Row, ReturnToHuman(i, r)
    PROVE  EndsTyped
<1>1. Returned(r) \in Row
    BY ReturnedFields
<1>2. ReverseSpend(counter, Amount[i]) \in Counter
    BY CounterType, AmountType DEF TypeOK
<1>3. QED
    BY <1>1, <1>2, UpdateType, ReleaseType DEF ReturnToHuman, EndsTyped

LEMMA ReturnHeldType ==
    ASSUME TypeOK, NEW i \in Ix, NEW r \in Row, ReturnHeld(i, r)
    PROVE  EndsTyped
<1> DEFINE q == CloseOpenSettlement(r)
           c == IF r.heldOn # 0 /\ r.heldOn # day
                THEN AddSpend(counter, Amount[i]) ELSE counter
<1>1. Returned(q) \in Row
    BY CloseFields, ReturnedFields
<1>2. c \in Counter
    BY CounterType, AmountType DEF TypeOK
<1>3. ReverseSpend(c, Amount[i]) \in Counter
    BY <1>2, CounterType, AmountType DEF TypeOK
<1>4. Update(i, Returned(q), ReverseSpend(c, Amount[i])) /\ Release(i)
    BY DEF ReturnHeld
<1> HIDE DEF q, c
<1>5. QED
    BY <1>1, <1>3, <1>4, UpdateType, ReleaseType DEF EndsTyped

LEMMA RecordSettledType ==
    ASSUME TypeOK, NEW i \in Ix, NEW r \in Row, RecordSettled(i, r)
    PROVE  EndsTyped
<1>1. Settled(r) \in Row
    BY SettledFields
<1>2. QED
    BY <1>1, UpdateType, ReleaseType DEF RecordSettled, EndsTyped, TypeOK

LEMMA RecordLandedType ==
    ASSUME TypeOK, NEW i \in Ix, NEW r \in Row, RecordLanded(i, r)
    PROVE  EndsTyped
<1>1. [r EXCEPT !.heldOn = 0] \in Row
    BY Unset, Zenon DEF Row
<1>2. QED
    BY <1>1, RecordSettledType DEF RecordLanded

LEMMA SimulatedType ==
    ASSUME NEW r \in Row
    PROVE  [r EXCEPT !.status = "executed_simulated"] \in Row
    BY StatusNames, Zenon DEF Row

LEMMA ContinueType ==
    ASSUME TypeOK, NEW i \in Ix, NEW r \in Row, NEW rail, Continue(i, rail, r)
    PROVE  EndsTyped
<1>1. CASE /\ rail \in {"vault", "circle", "batch", "direct"}
           /\ row' = [row EXCEPT ![i] = r]
           /\ At(i, "try", rail, FALSE)
           /\ UNCHANGED <<counter, dirty>>
    BY <1>1, AtType DEF TypeOK, EndsTyped
<1>2. CASE rail = "human" /\ ReturnToHuman(i, r)
    BY <1>2, ReturnToHumanType
<1>3. CASE /\ rail = "simulated"
           /\ Update(i, [r EXCEPT !.status = "executed_simulated"], counter)
           /\ Release(i)
    BY <1>3, SimulatedType, UpdateType, ReleaseType DEF EndsTyped, TypeOK
<1>4. QED
    BY <1>1, <1>2, <1>3 DEF Continue

LEMMA HoldUnconfirmedType ==
    ASSUME TypeOK, NEW i \in Ix, HoldUnconfirmed(i)
    PROVE  EndsTyped
<1> DEFINE q == HoldSettlement(row[i])
           z == [q EXCEPT !.at = IF @ = 0 THEN day ELSE @]
<1>1. q \in Row
    BY HoldFields DEF TypeOK
<1>2. Update(i, z, counter) /\ Release(i)
    BY DEF HoldUnconfirmed
<1> HIDE DEF q
<1>3. z \in Row
    BY <1>1, DayOfRow, Zenon DEF Row, TypeOK
<1>4. QED
    BY <1>2, <1>3, UpdateType, ReleaseType DEF EndsTyped, TypeOK

LEMMA HoldCircleType ==
    ASSUME TypeOK, NEW i \in Ix, NEW known \in BOOLEAN, HoldCircle(i, known)
    PROVE  EndsTyped
<1> DEFINE q == HoldSettlement(row[i])
           z == [q EXCEPT !.keyTx = @ \/ known, !.at = IF @ = 0 THEN day ELSE @]
<1>1. q \in Row
    BY HoldFields DEF TypeOK
<1>2. Update(i, z, counter) /\ Release(i)
    BY DEF HoldCircle
<1> HIDE DEF q
<1>3. z \in Row
    <2>1. (q.keyTx \/ known) \in BOOLEAN
        BY <1>1 DEF Row
    <2>2. (IF q.at = 0 THEN day ELSE q.at) \in 0..MaxDay
        BY <1>1, DayOfRow DEF Row, TypeOK
    <2>3. QED
        BY <1>1, <2>1, <2>2, Zenon DEF Row
<1>4. QED
    BY <1>2, <1>3, UpdateType, ReleaseType DEF EndsTyped, TypeOK

LEMMA DurableWriteType ==
    ASSUME TypeOK, NEW rs \in [Ix -> Row], NEW saved, DurableWrite(rs, saved)
    PROVE  disk' \in Document
    BY DEF TypeOK, DurableWrite, Document

LEMMA PayType ==
    ASSUME TypeOK, NEW i \in Ix, NEW n, NEW p \in Payment,
           pay' = [pay EXCEPT ![i][n] = p]
    PROVE  pay' \in [Ix -> [Tries -> Payment]]
    BY DEF TypeOK

LEMMA CreateType ==
    ASSUME TypeOK, NEW i \in Ix, CreateInstruction(i)
    PROVE  EndsTyped
<1> DEFINE a == [NoRow EXCEPT !.status = "rejected"]
           b == [NoRow EXCEPT !.status = "auto_approved", !.claim = day, !.auto = TRUE]
           c == [NoRow EXCEPT !.status = "pending_approval"]
<1>1. a \in Row /\ b \in Row /\ c \in Row
    <2>1. a \in Row
        BY NoRowType, StatusNames, Zenon DEF Row
    <2>2. b \in Row
        BY NoRowType, StatusNames, DayOfRow, Zenon DEF Row, TypeOK
    <2>3. c \in Row
        BY NoRowType, StatusNames, Zenon DEF Row
    <2>4. QED
        BY <2>1, <2>2, <2>3
<1>2. counter \in Counter /\ AddSpend(counter, Amount[i]) \in Counter
    BY CounterType, AmountType DEF TypeOK
<1>3. \/ Update(i, a, counter)
      \/ Update(i, b, AddSpend(counter, Amount[i]))
      \/ Update(i, c, counter)
    BY DEF CreateInstruction
<1>4. h' = h
    BY DEF CreateInstruction
<1> HIDE DEF a, b, c
<1>5. QED
    BY <1>1, <1>2, <1>3, <1>4, UpdateType DEF EndsTyped, TypeOK

LEMMA ApproveType ==
    ASSUME TypeOK, NEW i \in Ix, ApproveInstruction(i)
    PROVE  EndsTyped
<1> DEFINE a == [row[i] EXCEPT !.status = "approved"]
           b == [row[i] EXCEPT !.status = "approved", !.claim = day, !.auto = FALSE]
<1>1. row[i] \in Row
    BY DEF TypeOK
<1>2. a \in Row /\ b \in Row
    <2>1. a \in Row
        BY <1>1, StatusNames, Zenon DEF Row
    <2>2. b \in Row
        BY <1>1, StatusNames, DayOfRow, Zenon DEF Row, TypeOK
    <2>3. QED
        BY <2>1, <2>2
<1>3. counter \in Counter /\ AddSpend(counter, Amount[i]) \in Counter
    BY CounterType, AmountType DEF TypeOK
<1>4. \/ Update(i, a, counter)
      \/ Update(i, b, AddSpend(counter, Amount[i]))
    BY DEF ApproveInstruction
<1>5. h' = h
    BY DEF ApproveInstruction
<1> HIDE DEF a, b
<1>6. QED
    BY <1>2, <1>3, <1>4, <1>5, UpdateType DEF EndsTyped, TypeOK

LEMMA RejectType ==
    ASSUME TypeOK, NEW i \in Ix, RejectInstruction(i)
    PROVE  EndsTyped
<1> DEFINE a == [row[i] EXCEPT !.status = "rejected"]
<1>1. a \in Row
    BY StatusNames, Zenon DEF Row, TypeOK
<1>2. CASE At(i, "rejectRead", "none", FALSE) /\ UNCHANGED <<row, counter, dirty>>
    BY <1>2, AtType DEF EndsTyped, TypeOK
<1>3. CASE Update(i, a, counter) /\ UNCHANGED h
    <2> HIDE DEF a
    <2>1. QED
        BY <1>1, <1>3, UpdateType DEF EndsTyped, TypeOK
<1>4. QED
    BY <1>2, <1>3 DEF RejectInstruction

LEMMA RejectAnsweredType ==
    ASSUME TypeOK, NEW i \in Ix, NEW seen, RejectAnswered(i, seen)
    PROVE  EndsTyped
<1> DEFINE g == CloseOpenSettlement(row[i])
           a == [g EXCEPT !.status = "rejected", !.heldOn = 0, !.gaveUp = TRUE]
           b == [g EXCEPT !.status = "rejected", !.heldOn = 0, !.claim = 0]
           c == IF row[i].heldOn = day THEN ReverseSpend(counter, Amount[i]) ELSE counter
<1>1. row[i] \in Row /\ counter \in Counter
    BY DEF TypeOK
<1>2. g \in Row
    BY <1>1, CloseFields
<1>3. c \in Counter
    BY CounterType, AmountType DEF TypeOK
<1>4. \/ Release(i) /\ UNCHANGED <<row, counter, dirty>>
      \/ RecordLanded(i, row[i])
      \/ Update(i, a, counter) /\ Release(i)
      \/ Update(i, b, c) /\ Release(i)
    BY DEF RejectAnswered
<1> HIDE DEF g, c
<1>5. a \in Row /\ b \in Row
    <2>1. a \in Row
        BY <1>2, StatusNames, Unset, Zenon DEF Row
    <2>2. b \in Row
        BY <1>2, StatusNames, Unset, Zenon DEF Row
    <2>3. QED
        BY <2>1, <2>2
<1> HIDE DEF a, b
<1>6. CASE Release(i) /\ UNCHANGED <<row, counter, dirty>>
    BY <1>6, ReleaseType DEF EndsTyped, TypeOK
<1>7. CASE RecordLanded(i, row[i])
    BY <1>1, <1>7, RecordLandedType
<1>8. CASE Update(i, a, counter) /\ Release(i)
    BY <1>1, <1>5, <1>8, UpdateType, ReleaseType DEF EndsTyped
<1>9. CASE Update(i, b, c) /\ Release(i)
    BY <1>3, <1>5, <1>9, UpdateType, ReleaseType DEF EndsTyped
<1>10. QED
    BY <1>4, <1>6, <1>7, <1>8, <1>9

LEMMA ExecuteType ==
    ASSUME TypeOK, NEW i \in Ix, ExecuteInstruction(i)
    PROVE  EndsTyped
<1>1. CASE At(i, "read", "none", FALSE) /\ UNCHANGED <<row, counter, dirty>>
    BY <1>1, AtType DEF EndsTyped, TypeOK
<1>2. CASE Continue(i, FirstRail(i), row[i])
    BY <1>2, ContinueType DEF TypeOK
<1>3. QED
    BY <1>1, <1>2 DEF ExecuteInstruction

LEMMA ExecuteAnsweredType ==
    ASSUME TypeOK, NEW i \in Ix, NEW seen, ExecuteAnswered(i, seen)
    PROVE  EndsTyped
<1>1. row[i] \in Row /\ HoldSettlement(row[i]) \in Row /\ counter \in Counter
    BY HoldFields DEF TypeOK
<1>2. CASE Update(i, HoldSettlement(row[i]), counter) /\ Release(i)
    BY <1>1, <1>2, UpdateType, ReleaseType DEF EndsTyped
<1>3. CASE RecordLanded(i, row[i])
    BY <1>1, <1>3, RecordLandedType
<1>4. CASE ReturnHeld(i, row[i])
    BY <1>1, <1>4, ReturnHeldType
<1>5. QED
    BY <1>2, <1>3, <1>4 DEF ExecuteAnswered

LEMMA NothingSentType ==
    ASSUME TypeOK, NEW i \in Ix, NothingSent(i)
    PROVE  EndsTyped
<1>1. row[i] \in Row
    BY DEF TypeOK
<1>2. QED
    BY <1>1, ReturnToHumanType, ContinueType DEF NothingSent

LEMMA NoteTransactionType ==
    ASSUME TypeOK, NEW i \in Ix, NoteTransaction(i)
    PROVE  EndsTyped /\ disk' \in Document /\ pay' \in [Ix -> [Tries -> Payment]]
<1>1. PICK n \in Tries, saved \in BOOLEAN :
        LET r == [row[i] EXCEPT !.tx = n, !.at = day] IN
        /\ pay' = [pay EXCEPT ![i][n] = "noted"]
        /\ DurableWrite([row EXCEPT ![i] = r], saved)
        /\ IF saved
           THEN /\ row' = [row EXCEPT ![i] = r]
                /\ dirty' = FALSE
                /\ At(i, "send", h[i].rail, FALSE)
                /\ UNCHANGED counter
           ELSE ReturnToHuman(i, ClearUnconfirmedTx(r))
    BY DEF NoteTransaction
<1> DEFINE r == [row[i] EXCEPT !.tx = n, !.at = day]
<1>2. r \in Row
    <2>1. n \in 0..MaxTries
        BY ConstantsAssumption DEF Tries
    <2>2. QED
        BY <2>1, DayOfRow, Zenon DEF Row, TypeOK
<1>3. pay' = [pay EXCEPT ![i][n] = "noted"]
    BY <1>1
<1>4. DurableWrite([row EXCEPT ![i] = r], saved)
    BY <1>1
<1>5. \/ /\ row' = [row EXCEPT ![i] = r]
         /\ dirty' = FALSE
         /\ At(i, "send", h[i].rail, FALSE)
         /\ UNCHANGED counter
      \/ ReturnToHuman(i, ClearUnconfirmedTx(r))
    BY <1>1
<1> HIDE DEF r
<1>6. pay' \in [Ix -> [Tries -> Payment]]
    BY <1>3, PayType DEF Payment
<1>7. disk' \in Document
    BY <1>2, <1>4, DurableWriteType DEF TypeOK
<1>8. ClearUnconfirmedTx(r) \in Row
    BY <1>2, ClearFields
<1>9. h[i].rail \in {"none", "vault", "circle", "batch", "direct"}
    BY DEF TypeOK, Handler
<1>10. EndsTyped
    <2>1. CASE /\ row' = [row EXCEPT ![i] = r]
               /\ dirty' = FALSE
               /\ At(i, "send", h[i].rail, FALSE)
               /\ UNCHANGED counter
        BY <1>2, <1>9, <2>1, AtType DEF EndsTyped, TypeOK
    <2>2. CASE ReturnToHuman(i, ClearUnconfirmedTx(r))
        BY <1>8, <2>2, ReturnToHumanType
    <2>3. QED
        BY <1>5, <2>1, <2>2
<1>11. QED
    BY <1>6, <1>7, <1>10

LEMMA SendTransactionType ==
    ASSUME TypeOK, NEW i \in Ix, SendTransaction(i)
    PROVE  EndsTyped /\ pay' \in [Ix -> [Tries -> Payment]]
<1> DEFINE n == row[i].tx
           r == ClearUnconfirmedTx(row[i])
<1>1. row[i] \in Row /\ r \in Row
    BY ClearFields DEF TypeOK
<1>2. h[i].rail \in {"none", "vault", "circle", "batch", "direct"}
    BY DEF TypeOK, Handler
<1>3. \/ pay' = [pay EXCEPT ![i][n] = "sent"]
      \/ UNCHANGED pay
      \/ pay' = [pay EXCEPT ![i][n] = "void"]
    BY DEF SendTransaction
<1>4. \/ At(i, "wait", h[i].rail, FALSE) /\ UNCHANGED <<row, counter, dirty>>
      \/ Continue(i, RailAfterVault(i), r)
      \/ ReturnToHuman(i, r)
    BY DEF SendTransaction
<1> HIDE DEF n, r
<1>5. pay' \in [Ix -> [Tries -> Payment]]
    BY <1>3 DEF TypeOK, Payment
<1>6. CASE At(i, "wait", h[i].rail, FALSE) /\ UNCHANGED <<row, counter, dirty>>
    BY <1>2, <1>5, <1>6, AtType DEF EndsTyped, TypeOK
<1>7. CASE Continue(i, RailAfterVault(i), r)
    BY <1>1, <1>5, <1>7, ContinueType
<1>8. CASE ReturnToHuman(i, r)
    BY <1>1, <1>5, <1>8, ReturnToHumanType
<1>9. QED
    BY <1>4, <1>6, <1>7, <1>8

LEMMA ReceiptAnsweredType ==
    ASSUME TypeOK, NEW i \in Ix, ReceiptAnswered(i)
    PROVE  EndsTyped
<1> DEFINE r == ClearUnconfirmedTx(row[i])
<1>1. row[i] \in Row /\ r \in Row
    BY ClearFields DEF TypeOK
<1>2. \/ HoldUnconfirmed(i)
      \/ ReturnToHuman(i, r)
      \/ /\ row' = [row EXCEPT ![i] = r]
         /\ At(i, "label", "vault", FALSE)
         /\ UNCHANGED <<counter, dirty>>
      \/ RecordSettled(i, row[i])
    BY DEF ReceiptAnswered
<1> HIDE DEF r
<1>3. CASE /\ row' = [row EXCEPT ![i] = r]
           /\ At(i, "label", "vault", FALSE)
           /\ UNCHANGED <<counter, dirty>>
    BY <1>1, <1>3, AtType DEF EndsTyped, TypeOK
<1>4. QED
    BY <1>1, <1>2, <1>3, HoldUnconfirmedType, ReturnToHumanType, RecordSettledType

LEMMA NoteCircleKeyType ==
    ASSUME TypeOK, NEW i \in Ix, NoteCircleKey(i)
    PROVE  EndsTyped /\ disk' \in Document /\ pay' \in [Ix -> [Tries -> Payment]]
<1> DEFINE resumed == row[i].key # 0
<1>1. PICK n \in Tries, saved \in BOOLEAN :
        LET r == [row[i] EXCEPT !.key = n] IN
        /\ pay' = IF resumed THEN pay ELSE [pay EXCEPT ![i][n] = "noted"]
        /\ DurableWrite([row EXCEPT ![i] = r], saved)
        /\ IF saved \/ resumed
           THEN /\ row' = [row EXCEPT ![i] = r]
                /\ dirty' = FALSE
                /\ At(i, "send", "circle", resumed)
                /\ UNCHANGED counter
           ELSE ReturnToHuman(i, row[i])
    BY DEF NoteCircleKey
<1> DEFINE r == [row[i] EXCEPT !.key = n]
<1>2. r \in Row
    <2>1. n \in 0..MaxTries
        BY ConstantsAssumption DEF Tries
    <2>2. QED
        BY <2>1, Zenon DEF Row, TypeOK
<1>3. pay' = IF resumed THEN pay ELSE [pay EXCEPT ![i][n] = "noted"]
    BY <1>1
<1>4. DurableWrite([row EXCEPT ![i] = r], saved)
    BY <1>1
<1>5. \/ /\ row' = [row EXCEPT ![i] = r]
         /\ dirty' = FALSE
         /\ At(i, "send", "circle", resumed)
         /\ UNCHANGED counter
      \/ ReturnToHuman(i, row[i])
    BY <1>1
<1>6. resumed \in BOOLEAN /\ row[i] \in Row
    BY DEF TypeOK
<1> HIDE DEF r, resumed
<1>7. pay' \in [Ix -> [Tries -> Payment]]
    BY <1>3, PayType DEF Payment, TypeOK
<1>8. disk' \in Document
    BY <1>2, <1>4, DurableWriteType DEF TypeOK
<1>9. EndsTyped
    <2>1. CASE /\ row' = [row EXCEPT ![i] = r]
               /\ dirty' = FALSE
               /\ At(i, "send", "circle", resumed)
               /\ UNCHANGED counter
        BY <1>2, <1>6, <2>1, AtType DEF EndsTyped, TypeOK
    <2>2. CASE ReturnToHuman(i, row[i])
        BY <1>6, <2>2, ReturnToHumanType
    <2>3. QED
        BY <1>5, <2>1, <2>2
<1>10. QED
    BY <1>7, <1>8, <1>9

LEMMA CircleTakesType ==
    ASSUME TypeOK, NEW i \in Ix, CircleTakes(i)
    PROVE  pay' \in [Ix -> [Tries -> Payment]]
    BY DEF TypeOK, CircleTakes, Payment

LEMMA CircleCreateType ==
    ASSUME TypeOK, NEW i \in Ix, CircleCreate(i)
    PROVE  EndsTyped /\ pay' \in [Ix -> [Tries -> Payment]]
<1> DEFINE r == CloseOpenSettlement(row[i])
<1>1. r \in Row
    BY CloseFields DEF TypeOK
<1>2. h[i].resumed \in BOOLEAN
    BY DEF TypeOK, Handler
<1>3. \/ CircleTakes(i)
      \/ UNCHANGED pay
      \/ pay' = [pay EXCEPT ![i][row[i].key] = "void"]
    BY DEF CircleCreate
<1>4. \/ At(i, "wait", "circle", h[i].resumed) /\ UNCHANGED <<row, counter, dirty>>
      \/ HoldCircle(i, FALSE)
      \/ Continue(i, RailAfterCircle(i), r)
    BY DEF CircleCreate
<1> HIDE DEF r
<1>5. pay' \in [Ix -> [Tries -> Payment]]
    BY <1>3, CircleTakesType, PayType DEF TypeOK, Payment
<1>6. CASE At(i, "wait", "circle", h[i].resumed) /\ UNCHANGED <<row, counter, dirty>>
    BY <1>2, <1>5, <1>6, AtType DEF EndsTyped, TypeOK
<1>7. QED
    BY <1>1, <1>4, <1>5, <1>6, HoldCircleType, ContinueType

LEMMA CirclePolledType ==
    ASSUME TypeOK, NEW i \in Ix, CirclePolled(i)
    PROVE  EndsTyped
<1> DEFINE r == CloseOpenSettlement(row[i])
<1>1. row[i] \in Row /\ r \in Row
    BY CloseFields DEF TypeOK
<1>2. \/ HoldCircle(i, TRUE)
      \/ RecordSettled(i, row[i])
      \/ ReturnToHuman(i, r)
      \/ ReturnHeld(i, row[i])
      \/ Continue(i, RailAfterCircle(i), r)
    BY DEF CirclePolled
<1> HIDE DEF r
<1>3. QED
    BY <1>1, <1>2, HoldCircleType, RecordSettledType, ReturnToHumanType,
       ReturnHeldType, ContinueType

(* Every step keeps every variable in its type.                            *)
LEMMA TypeStep == TypeOK /\ [Next]_vars => TypeOK'
<1> SUFFICES ASSUME TypeOK, [Next]_vars PROVE TypeOK'
    OBVIOUS
<1>1. ASSUME NEW i \in Ix, Request(i) PROVE TypeOK'
    <2>1. EndsTyped
        BY <1>1, CreateType, ApproveType, RejectType, ExecuteType DEF Request
    <2>2. UNCHANGED <<agent, day, disk, pay, crashes>>
        BY <1>1 DEF Request, CreateInstruction, ApproveInstruction, RejectInstruction,
                    ExecuteInstruction
    <2>3. QED
        BY <2>1, <2>2 DEF EndsTyped, TypeOK
<1>2. ASSUME NEW i \in Ix, Handle(i) PROVE TypeOK'
    <2>1. EndsTyped
        BY <1>2, RejectAnsweredType, ExecuteAnsweredType, NothingSentType, NoteTransactionType,
           SendTransactionType, ReceiptAnsweredType, RecordSettledType, NoteCircleKeyType,
           CircleCreateType, CirclePolledType
        DEF Handle, ReadSessionKeyBound, TypeOK
    <2>2. UNCHANGED <<agent, day, crashes>>
        BY <1>2 DEF Handle, RejectAnswered, ExecuteAnswered, NothingSent, NoteTransaction,
                    SendTransaction, ReceiptAnswered, ReadSessionKeyBound, NoteCircleKey,
                    CircleCreate, CirclePolled
    <2>3. disk' \in Document
        <3>1. CASE NoteTransaction(i)
            BY <3>1, NoteTransactionType
        <3>2. CASE NoteCircleKey(i)
            BY <3>2, NoteCircleKeyType
        <3>3. CASE ~NoteTransaction(i) /\ ~NoteCircleKey(i)
            BY <1>2, <3>3 DEF Handle, RejectAnswered, ExecuteAnswered, NothingSent,
               SendTransaction, ReceiptAnswered, ReadSessionKeyBound, CircleCreate,
               CirclePolled, TypeOK
        <3>4. QED
            BY <3>1, <3>2, <3>3
    <2>4. pay' \in [Ix -> [Tries -> Payment]]
        <3>1. CASE NoteTransaction(i)
            BY <3>1, NoteTransactionType
        <3>2. CASE NoteCircleKey(i)
            BY <3>2, NoteCircleKeyType
        <3>3. CASE SendTransaction(i)
            BY <3>3, SendTransactionType
        <3>4. CASE CircleCreate(i)
            BY <3>4, CircleCreateType
        <3>5. CASE ~(NoteTransaction(i) \/ NoteCircleKey(i) \/ SendTransaction(i) \/ CircleCreate(i))
            BY <1>2, <3>5 DEF Handle, RejectAnswered, ExecuteAnswered, NothingSent,
               ReceiptAnswered, ReadSessionKeyBound, CirclePolled, TypeOK
        <3>6. QED
            BY <3>1, <3>2, <3>3, <3>4, <3>5
    <2>5. QED
        BY <2>1, <2>2, <2>3, <2>4 DEF EndsTyped, TypeOK
<1>3. ASSUME NEW i \in Ix, NEW n \in Tries, Settle(i, n) PROVE TypeOK'
    <2>1. PICK p \in {"landed", "void"} : pay' = [pay EXCEPT ![i][n] = p]
        BY <1>3 DEF Settle
    <2>2. pay' \in [Ix -> [Tries -> Payment]]
        BY <2>1, PayType DEF Payment
    <2>3. QED
        BY <1>3, <2>2 DEF Settle, TypeOK
<1>4. CASE Flush
    <2>1. disk' \in Document
        BY <1>4 DEF Flush, TypeOK, Document
    <2>2. QED
        BY <1>4, <2>1 DEF Flush, TypeOK
<1>5. CASE Restart
    <2>1. h' \in [Ix -> Handler]
        BY <1>5 DEF Restart, Idle, Handler
    <2>2. crashes' \in 0..MaxCrash
        BY <1>5, ConstantsAssumption DEF Restart, TypeOK
    <2>3. QED
        BY <1>5, <2>1, <2>2 DEF Restart, TypeOK, Document
<1>6. CASE Midnight
    <2>1. day' \in Days
        BY <1>6, ConstantsAssumption DEF Midnight, TypeOK, Days
    <2>2. QED
        BY <1>6, <2>1 DEF Midnight, TypeOK
<1>7. CASE UNCHANGED vars
    BY <1>7 DEF vars, TypeOK
<1>8. QED
    BY <1>1, <1>2, <1>3, <1>4, <1>5, <1>6, <1>7 DEF Next

LEMMA TypeInit == Init => TypeOK
<1> SUFFICES ASSUME Init PROVE TypeOK
    OBVIOUS
<1>1. row \in [Ix -> Row]
    BY NoRowType DEF Init
<1>2. counter \in Counter
    BY Unset DEF Init, Counter
<1>3. day \in Days
    BY ConstantsAssumption DEF Init, Days
<1>4. h \in [Ix -> Handler]
    BY DEF Init, Idle, Handler
<1>5. pay \in [Ix -> [Tries -> Payment]]
    BY DEF Init, Payment
<1>6. crashes \in 0..MaxCrash
    BY ConstantsAssumption DEF Init
<1>7. QED
    BY <1>1, <1>2, <1>3, <1>4, <1>5, <1>6 DEF Init, TypeOK, Document

(* The record, its stored copy, the counter and the payments keep their    *)
(* types through every handler, restart and midnight.                      *)
THEOREM TypeCorrect == Spec => []TypeOK
<1>1. Init => TypeOK
    BY TypeInit
<1>2. TypeOK /\ [Next]_vars => TypeOK'
    BY TypeStep
<1>3. QED
    BY <1>1, <1>2, PTL DEF Spec

-----------------------------------------------------------------------------
InvAt(i) == InvOf(row[i], h[i], pay[i], disk.row[i])
InvAfter(i) == InvOf(row'[i], h'[i], pay'[i], disk'.row[i])

(* InvOf reads one state variable, the agent's configuration, and it never *)
(* changes.                                                                *)
LEMMA PrimeInv ==
    ASSUME NEW i, agent' = agent, InvAfter(i)
    PROVE  InvAt(i)'
    BY DEF InvAt, InvAfter, InvOf, RowOk, Knows, HandlerOk, StoredOk, LiveIn, HasOpenSettlement

(* A step that leaves instruction j alone may still save its row.          *)
LEMMA Frame ==
    ASSUME NEW j \in Ix, InvAt(j), row'[j] = row[j], h'[j] = h[j], pay'[j] = pay[j],
           disk'.row[j] \in {disk.row[j], row[j]}
    PROVE  InvAfter(j)
    BY DEF InvAt, InvAfter, InvOf, StoredOk

(* Deciding a payment takes nothing from a row that names it.              *)
LEMMA PayChange ==
    ASSUME NEW p, NEW q, NEW r \in Row, RowOk(r, p),
           \A n \in Tries : /\ p[n] # "none" => q[n] # "none"
                            /\ p[n] = "landed" => q[n] = "landed"
    PROVE  RowOk(r, q)
<1>1. r.tx # 0 => r.tx \in Tries
    BY ConstantsAssumption DEF Row, Tries
<1>2. r.key # 0 => r.key \in Tries
    BY ConstantsAssumption DEF Row, Tries
<1>3. QED
    BY <1>1, <1>2, SMT DEF RowOk

(* An authorized row names at most the one payment that may be live.       *)
LEMMA AuthorizedRow ==
    ASSUME NEW r, NEW p, r.status \in Authorized \cup {"pending_approval"}, RowOk(r, p), Knows(r, p)
    PROVE  /\ ~r.gaveUp
           /\ r.status \in Authorized => r.claim # 0
           /\ HasOpenSettlement(r) => r.claim # 0
           /\ \A n \in LiveIn(p) : n = r.tx \/ n = r.key
           /\ r.tx # 0 => r.key = 0
    BY DEF Authorized, RowOk, Knows

LEMMA TryNumbers == ASSUME NEW n \in Tries PROVE n # 0
    BY DEF Tries

(* The endings: back with a human, settled, and on to another rail.        *)
LEMMA ReturnInv ==
    ASSUME TypeOK, NEW i \in Ix, NEW r \in Row, ReturnToHuman(i, r),
           r.tx = 0, r.key = 0, ~r.gaveUp, LiveIn(pay'[i]) = {},
           StoredOk(Idle, pay'[i], disk'.row[i])
    PROVE  InvAfter(i)
<1> DEFINE q == Returned(r)
<1>1. row'[i] = q /\ h'[i] = Idle
    BY DEF ReturnToHuman, Update, Release, TypeOK
<1>2. /\ q.status = "pending_approval" /\ q.heldOn = 0 /\ q.claim = 0
      /\ q.tx = 0 /\ q.key = 0 /\ q.gaveUp = FALSE
    BY ReturnedFields, SMT DEF Row
<1> HIDE DEF q
<1>3. RowOk(q, pay'[i]) /\ Knows(q, pay'[i])
    BY <1>2 DEF RowOk, Knows, HasOpenSettlement
<1>4. HandlerOk(q, Idle, pay'[i])
    BY DEF HandlerOk, Idle
<1>5. QED
    BY <1>1, <1>2, <1>3, <1>4 DEF InvAfter, InvOf

LEMMA ReturnHeldInv ==
    ASSUME TypeOK, NEW i \in Ix, NEW r \in Row, ReturnHeld(i, r),
           ~r.gaveUp, LiveIn(pay'[i]) = {},
           StoredOk(Idle, pay'[i], disk'.row[i])
    PROVE  InvAfter(i)
<1> DEFINE c == CloseOpenSettlement(r)
           q == Returned(c)
<1>1. row'[i] = q /\ h'[i] = Idle
    BY DEF ReturnHeld, Update, Release, TypeOK
<1>2. c \in Row /\ c.tx = 0 /\ c.key = 0 /\ c.gaveUp = r.gaveUp
    BY CloseFields
<1> HIDE DEF c
<1>3. /\ q.status = "pending_approval" /\ q.heldOn = 0 /\ q.claim = 0
      /\ q.tx = 0 /\ q.key = 0 /\ q.gaveUp = FALSE
    BY <1>2, ReturnedFields, SMT DEF Row
<1> HIDE DEF q
<1>4. RowOk(q, pay'[i]) /\ Knows(q, pay'[i])
    BY <1>3 DEF RowOk, Knows, HasOpenSettlement
<1>5. HandlerOk(q, Idle, pay'[i])
    BY DEF HandlerOk, Idle
<1>6. QED
    BY <1>1, <1>3, <1>4, <1>5 DEF InvAfter, InvOf

LEMMA SettledInv ==
    ASSUME TypeOK, NEW i \in Ix, NEW r \in Row, RecordSettled(i, r),
           ~r.gaveUp, r.claim # 0,
           \E n \in Tries : pay'[i][n] = "landed",
           \A m, n \in LiveIn(pay'[i]) : m = n,
           StoredOk(Idle, pay'[i], disk'.row[i])
    PROVE  InvAfter(i)
<1> DEFINE q == Settled(r)
<1>1. row'[i] = q /\ h'[i] = Idle
    BY DEF RecordSettled, Update, Release, TypeOK
<1>2. /\ q.status = "executed_onchain" /\ q.tx = 0 /\ q.key = 0
      /\ q.claim = r.claim /\ q.gaveUp = r.gaveUp
    BY SettledFields
<1> HIDE DEF q
<1>3. RowOk(q, pay'[i]) /\ Knows(q, pay'[i])
    BY <1>2 DEF RowOk, Knows, HasOpenSettlement
<1>4. HandlerOk(q, Idle, pay'[i])
    BY DEF HandlerOk, Idle
<1>5. QED
    BY <1>1, <1>2, <1>3, <1>4 DEF InvAfter, InvOf

LEMMA LandedInv ==
    ASSUME TypeOK, NEW i \in Ix, NEW r \in Row, RecordLanded(i, r),
           ~r.gaveUp, r.claim # 0,
           \E n \in Tries : pay'[i][n] = "landed",
           \A m, n \in LiveIn(pay'[i]) : m = n,
           StoredOk(Idle, pay'[i], disk'.row[i])
    PROVE  InvAfter(i)
<1> DEFINE q == [r EXCEPT !.heldOn = 0]
<1>1. q \in Row /\ q.gaveUp = r.gaveUp /\ q.claim = r.claim
    <2>1. q \in Row
        BY Unset, Zenon DEF Row
    <2>2. QED
        BY <2>1, SMT DEF Row
<1>2. RecordSettled(i, q)
    BY DEF RecordLanded
<1> HIDE DEF q
<1>3. QED
    BY <1>1, <1>2, SettledInv

Rails == {"human", "simulated", "vault", "circle", "batch", "direct"}

LEMMA ContinueInv ==
    ASSUME TypeOK, NEW i \in Ix, NEW r \in Row, NEW rail \in Rails, Continue(i, rail, r),
           r.status \in Authorized, r.tx = 0, r.key = 0, ~r.gaveUp, r.claim # 0,
           rail = "vault" => agent.vault # "none",
           rail = "circle" => agent.vault # "stellar",
           LiveIn(pay'[i]) = {}, StoredOk(Idle, pay'[i], disk'.row[i])
    PROVE  InvAfter(i)
<1>1. CASE rail \in {"vault", "circle", "batch", "direct"}
    <2> DEFINE hd == [stage |-> "try", rail |-> rail, resumed |-> FALSE]
    <2>1. row'[i] = r /\ h'[i] = hd
        BY <1>1 DEF Continue, At, TypeOK
    <2>2. hd.stage = "try" /\ hd.rail = rail
        OBVIOUS
    <2> HIDE DEF hd
    <2>3. RowOk(r, pay'[i]) /\ Knows(r, pay'[i])
        BY DEF RowOk, Knows, HasOpenSettlement, Authorized
    <2>4. HandlerOk(r, hd, pay'[i])
        BY <1>1, <2>2 DEF HandlerOk, SigningRails, HasOpenSettlement, Authorized
    <2>5. StoredOk(hd, pay'[i], disk'.row[i])
        BY <2>2 DEF StoredOk
    <2>6. QED
        BY <2>1, <2>3, <2>4, <2>5 DEF InvAfter, InvOf
<1>2. CASE rail = "human"
    BY <1>2, ReturnInv DEF Continue
<1>3. CASE rail = "simulated"
    <2> DEFINE q == [r EXCEPT !.status = "executed_simulated"]
    <2>1. row'[i] = q /\ h'[i] = Idle
        BY <1>3 DEF Continue, Update, Release, TypeOK
    <2>2. q.status = "executed_simulated" /\ q.tx = 0 /\ q.key = 0 /\ q.gaveUp = FALSE
        BY SMT DEF Row
    <2> HIDE DEF q
    <2>3. RowOk(q, pay'[i]) /\ Knows(q, pay'[i])
        BY <2>2 DEF RowOk, Knows, HasOpenSettlement
    <2>4. HandlerOk(q, Idle, pay'[i])
        BY DEF HandlerOk, Idle
    <2>5. QED
        BY <2>1, <2>2, <2>3, <2>4 DEF InvAfter, InvOf
<1>4. QED
    BY <1>1, <1>2, <1>3 DEF Rails

(* A hold keeps what is open and its claim, and goes back to a human.      *)
LEMMA HeldInv ==
    ASSUME TypeOK, NEW i \in Ix, NEW q,
           row'[i] = q, h'[i] = Idle, RowOk(row[i], pay'[i]), Knows(row[i], pay'[i]),
           row[i].status \in Authorized, HasOpenSettlement(row[i]),
           q.status = "pending_approval", q.heldOn # 0,
           q.tx = row[i].tx, q.key = row[i].key,
           q.claim = row[i].claim, q.gaveUp = row[i].gaveUp,
           \A m, n \in LiveIn(pay'[i]) : m = n,
           q.tx # 0 => disk'.row[i].tx = q.tx,
           q.key # 0 => disk'.row[i].key = q.key,
           StoredOk(Idle, pay'[i], disk'.row[i])
    PROVE  InvAfter(i)
<1>1. /\ ~q.gaveUp
      /\ \A n \in LiveIn(pay'[i]) : n = q.tx \/ n = q.key
      /\ q.claim # 0
    BY AuthorizedRow
<1>2. RowOk(q, pay'[i]) /\ Knows(q, pay'[i])
    BY <1>1 DEF RowOk, Knows, HasOpenSettlement
<1>3. HandlerOk(q, Idle, pay'[i])
    BY DEF HandlerOk, Idle
<1>4. QED
    BY <1>2, <1>3 DEF InvAfter, InvOf

LEMMA HoldUnconfirmedInv ==
    ASSUME TypeOK, NEW i \in Ix, HoldUnconfirmed(i),
           RowOk(row[i], pay'[i]), Knows(row[i], pay'[i]),
           row[i].status \in Authorized, HasOpenSettlement(row[i]),
           \A m, n \in LiveIn(pay'[i]) : m = n,
           row[i].tx # 0 => disk'.row[i].tx = row[i].tx,
           row[i].key # 0 => disk'.row[i].key = row[i].key,
           StoredOk(Idle, pay'[i], disk'.row[i])
    PROVE  InvAfter(i)
<1> DEFINE z == HoldSettlement(row[i])
           q == [z EXCEPT !.at = IF @ = 0 THEN day ELSE @]
<1>1. row'[i] = q /\ h'[i] = Idle
    BY DEF HoldUnconfirmed, Update, Release, TypeOK
<1>2. /\ z \in Row
      /\ z.status = "pending_approval" /\ z.heldOn # 0
      /\ z.tx = row[i].tx /\ z.key = row[i].key
      /\ z.claim = row[i].claim /\ z.gaveUp = row[i].gaveUp
    BY HoldFields DEF TypeOK
<1> HIDE DEF z
<1>3. /\ q.status = "pending_approval" /\ q.heldOn # 0
      /\ q.tx = row[i].tx /\ q.key = row[i].key
      /\ q.claim = row[i].claim /\ q.gaveUp = row[i].gaveUp
    BY <1>2, SMT DEF Row
<1> HIDE DEF q
<1>4. QED
    BY <1>1, <1>3, HeldInv

LEMMA HoldCircleInv ==
    ASSUME TypeOK, NEW i \in Ix, NEW known \in BOOLEAN, HoldCircle(i, known),
           RowOk(row[i], pay'[i]), Knows(row[i], pay'[i]),
           row[i].status \in Authorized, HasOpenSettlement(row[i]),
           \A m, n \in LiveIn(pay'[i]) : m = n,
           row[i].tx # 0 => disk'.row[i].tx = row[i].tx,
           row[i].key # 0 => disk'.row[i].key = row[i].key,
           StoredOk(Idle, pay'[i], disk'.row[i])
    PROVE  InvAfter(i)
<1> DEFINE z == HoldSettlement(row[i])
           q == [z EXCEPT !.keyTx = @ \/ known, !.at = IF @ = 0 THEN day ELSE @]
<1>1. row'[i] = q /\ h'[i] = Idle
    BY DEF HoldCircle, Update, Release, TypeOK
<1>2. /\ z \in Row
      /\ z.status = "pending_approval" /\ z.heldOn # 0
      /\ z.tx = row[i].tx /\ z.key = row[i].key
      /\ z.claim = row[i].claim /\ z.gaveUp = row[i].gaveUp
    BY HoldFields DEF TypeOK
<1> HIDE DEF z
<1>3. /\ q.status = "pending_approval" /\ q.heldOn # 0
      /\ q.tx = row[i].tx /\ q.key = row[i].key
      /\ q.claim = row[i].claim /\ q.gaveUp = row[i].gaveUp
    BY <1>2, SMT DEF Row
<1> HIDE DEF q
<1>4. QED
    BY <1>1, <1>3, HeldInv

-----------------------------------------------------------------------------
(* The requests.                                                           *)
LEMMA CreateInv ==
    ASSUME TypeOK, NEW i \in Ix, InvAt(i), CreateInstruction(i)
    PROVE  InvAfter(i)
<1> DEFINE a == [NoRow EXCEPT !.status = "rejected"]
           b == [NoRow EXCEPT !.status = "auto_approved", !.claim = day, !.auto = TRUE]
           c == [NoRow EXCEPT !.status = "pending_approval"]
           q == row'[i]
<1>1. q = a \/ q = b \/ q = c
    BY DEF CreateInstruction, Update, TypeOK
<1>2. h'[i] = h[i] /\ pay'[i] = pay[i] /\ disk'.row[i] = disk.row[i]
    BY DEF CreateInstruction
<1>3. row[i].status = "none"
    BY DEF CreateInstruction
<1>4. row[i].tx = 0 /\ row[i].key = 0 /\ ~row[i].gaveUp
    BY <1>3 DEF InvAt, InvOf, RowOk, HasOpenSettlement
<1>5. h[i] = Idle
    BY <1>3 DEF InvAt, InvOf, HandlerOk, Authorized, TypeOK, Handler
<1>6. LiveIn(pay[i]) = {}
    BY <1>3, <1>4, <1>5, TryNumbers DEF InvAt, InvOf, Knows, Idle, LiveIn
<1>7. /\ q.tx = 0 /\ q.key = 0 /\ q.gaveUp = FALSE /\ q.heldOn = 0
      /\ q.status \in {"rejected", "auto_approved", "pending_approval"}
      /\ q.status = "auto_approved" => q.claim # 0
    BY <1>1, DayOfRow DEF NoRow, TypeOK
<1> HIDE DEF q
<1>8. RowOk(q, pay[i]) /\ Knows(q, pay[i])
    BY <1>6, <1>7 DEF RowOk, Knows, HasOpenSettlement
<1>9. HandlerOk(q, Idle, pay[i])
    BY DEF HandlerOk, Idle
<1>10. QED
    BY <1>2, <1>5, <1>6, <1>7, <1>8, <1>9 DEF InvAt, InvAfter, InvOf, q

LEMMA ApproveInv ==
    ASSUME TypeOK, NEW i \in Ix, InvAt(i), ApproveInstruction(i)
    PROVE  InvAfter(i)
<1> DEFINE a == [row[i] EXCEPT !.status = "approved"]
           b == [row[i] EXCEPT !.status = "approved", !.claim = day, !.auto = FALSE]
           q == row'[i]
<1>1. (row[i].heldOn # 0 /\ q = a) \/ q = b
    BY DEF ApproveInstruction, Update, TypeOK
<1>2. h'[i] = h[i] /\ pay'[i] = pay[i] /\ disk'.row[i] = disk.row[i]
    BY DEF ApproveInstruction
<1>3. row[i].status = "pending_approval" /\ row[i] \in Row
    BY DEF ApproveInstruction, TypeOK
<1>4. RowOk(row[i], pay[i]) /\ HandlerOk(row[i], h[i], pay[i])
    BY DEF InvAt, InvOf
<1>5. h[i].stage \in {"idle", "rejectRead"}
    BY <1>3, <1>4 DEF HandlerOk, Authorized, TypeOK, Handler
<1>6. /\ q.tx = row[i].tx /\ q.key = row[i].key /\ q.gaveUp = row[i].gaveUp
      /\ q.status = "approved"
    BY <1>1, <1>3 DEF Row
<1>7. q.claim # 0
    <2>1. CASE row[i].heldOn # 0 /\ q = a
        <3>1. q.claim = row[i].claim
            BY <1>3, <2>1 DEF Row
        <3>2. QED
            BY <1>3, <1>4, <2>1, <3>1 DEF RowOk
    <2>2. CASE q = b
        BY <1>3, <2>2, DayOfRow, SMT DEF Row, TypeOK
    <2>3. QED
        BY <1>1, <2>1, <2>2
<1> HIDE DEF q
<1>8. RowOk(q, pay[i])
    BY <1>3, <1>4, <1>6, <1>7 DEF RowOk, HasOpenSettlement
<1>9. h[i].stage # "label" => Knows(q, pay[i])
    BY <1>3, <1>6 DEF InvAt, InvOf, Knows
<1>10. HandlerOk(q, h[i], pay[i])
    BY <1>4, <1>5, <1>6 DEF HandlerOk, HasOpenSettlement, Authorized
<1>11. QED
    BY <1>2, <1>6, <1>8, <1>9, <1>10 DEF InvAt, InvAfter, InvOf, q

LEMMA RejectInv ==
    ASSUME TypeOK, NEW i \in Ix, InvAt(i), RejectInstruction(i)
    PROVE  InvAfter(i)
<1>1. row[i].status = "pending_approval" /\ row[i] \in Row
    BY DEF RejectInstruction, TypeOK
<1>2. pay'[i] = pay[i] /\ disk'.row[i] = disk.row[i]
    BY DEF RejectInstruction
<1>3. RowOk(row[i], pay[i]) /\ HandlerOk(row[i], h[i], pay[i])
    BY DEF InvAt, InvOf
<1>4. CASE HasOpenSettlement(row[i])
    <2> DEFINE hd == [stage |-> "rejectRead", rail |-> "none", resumed |-> FALSE]
    <2>1. row'[i] = row[i] /\ h'[i] = hd /\ h[i] = Idle
        BY <1>4 DEF RejectInstruction, At, TypeOK
    <2>2. hd.stage = "rejectRead" /\ hd.rail = "none"
        OBVIOUS
    <2> HIDE DEF hd
    <2>3. HandlerOk(row[i], hd, pay[i])
        BY <1>1, <1>4, <2>2 DEF HandlerOk
    <2>4. StoredOk(hd, pay[i], disk.row[i])
        BY <2>2 DEF InvAt, InvOf, StoredOk
    <2>5. Knows(row[i], pay[i])
        BY <2>1 DEF InvAt, InvOf, Idle
    <2>6. QED
        BY <1>2, <2>1, <2>3, <2>4, <2>5 DEF InvAt, InvAfter, InvOf
<1>5. CASE ~HasOpenSettlement(row[i])
    <2> DEFINE q == [row[i] EXCEPT !.status = "rejected"]
    <2>1. row'[i] = q /\ h'[i] = h[i]
        BY <1>5 DEF RejectInstruction, Update, TypeOK
    <2>2. /\ q.tx = 0 /\ q.key = 0 /\ q.gaveUp = row[i].gaveUp
          /\ q.status = "rejected"
        BY <1>1, <1>5 DEF Row, HasOpenSettlement
    <2> HIDE DEF q
    <2>3. h[i].stage = "idle" /\ h[i] = Idle
        BY <1>1, <1>3, <1>5 DEF HandlerOk, Authorized, TypeOK, Handler
    <2>4. Knows(row[i], pay[i])
        BY <2>3 DEF InvAt, InvOf
    <2>5. RowOk(q, pay[i]) /\ Knows(q, pay[i])
        BY <1>1, <1>3, <1>5, <2>2, <2>4 DEF RowOk, Knows, HasOpenSettlement
    <2>6. HandlerOk(q, h[i], pay[i])
        BY <2>3 DEF HandlerOk, Idle
    <2>7. QED
        BY <1>2, <2>1, <2>2, <2>5, <2>6 DEF InvAt, InvAfter, InvOf
<1>6. QED
    BY <1>4, <1>5

LEMMA RailChoice ==
    ASSUME NEW i \in Ix
    PROVE  /\ RailAfterCircle(i) \in {"batch", "direct"}
           /\ RailAfterVault(i) \in Rails
           /\ RailAfterVault(i) # "vault"
           /\ RailAfterVault(i) = "circle" => agent.vault # "stellar"
           /\ FirstRail(i) \in Rails
           /\ FirstRail(i) = "vault" => agent.vault # "none"
           /\ FirstRail(i) = "circle" => agent.vault # "stellar"
<1>1. RailAfterCircle(i) \in {"batch", "direct"}
    BY DEF RailAfterCircle
<1>2. /\ RailAfterVault(i) \in Rails
      /\ RailAfterVault(i) # "vault"
      /\ RailAfterVault(i) = "circle" => agent.vault # "stellar"
    BY <1>1 DEF RailAfterVault, Rails
<1>3. \/ FirstRail(i) = "simulated"
      \/ FirstRail(i) = "vault" /\ agent.vault # "none"
      \/ FirstRail(i) = RailAfterVault(i)
    BY DEF FirstRail
<1>4. QED
    BY <1>1, <1>2, <1>3 DEF Rails

LEMMA ExecuteInv ==
    ASSUME TypeOK, NEW i \in Ix, InvAt(i), ExecuteInstruction(i)
    PROVE  InvAfter(i)
<1>1. row[i].status \in Authorized /\ row[i] \in Row /\ h[i] = Idle
    BY DEF ExecuteInstruction, TypeOK, Authorized
<1>2. pay'[i] = pay[i] /\ disk'.row[i] = disk.row[i]
    BY DEF ExecuteInstruction
<1>3. RowOk(row[i], pay[i]) /\ Knows(row[i], pay[i]) /\ StoredOk(Idle, pay[i], disk.row[i])
    BY <1>1 DEF InvAt, InvOf, Idle
<1>4. CASE HasOpenSettlement(row[i]) /\ ~ResumeCircle(row[i])
    <2> DEFINE hd == [stage |-> "read", rail |-> "none", resumed |-> FALSE]
    <2>1. row'[i] = row[i] /\ h'[i] = hd
        BY <1>4 DEF ExecuteInstruction, At, TypeOK
    <2>2. hd.stage = "read" /\ hd.rail = "none"
        OBVIOUS
    <2> HIDE DEF hd
    <2>3. HandlerOk(row[i], hd, pay[i])
        BY <1>1, <1>4, <2>2 DEF HandlerOk
    <2>4. StoredOk(hd, pay[i], disk.row[i])
        BY <1>3, <2>2 DEF StoredOk
    <2>5. QED
        BY <1>2, <1>3, <2>1, <2>3, <2>4 DEF InvAt, InvAfter, InvOf
<1>5. CASE ~HasOpenSettlement(row[i])
    <2>1. row[i].tx = 0 /\ row[i].key = 0
        BY <1>5 DEF HasOpenSettlement
    <2>2. ~row[i].gaveUp /\ row[i].claim # 0 /\ LiveIn(pay[i]) = {}
        BY <1>1, <1>3, <2>1, AuthorizedRow, TryNumbers DEF LiveIn
    <2>3. Continue(i, FirstRail(i), row[i])
        BY <1>5 DEF ExecuteInstruction
    <2>4. QED
        BY <1>1, <1>2, <1>3, <2>1, <2>2, <2>3, RailChoice, ContinueInv
<1>6. CASE ResumeCircle(row[i])
    <2>1. /\ row[i].key # 0 /\ row[i].tx = 0
          /\ agent.circle = TRUE /\ agent.resolves = TRUE /\ agent.vault # "stellar"
        BY <1>3, <1>6 DEF ResumeCircle, RowOk, TypeOK, AgentConfig, ConstantsAssumption
    <2>2. RailAfterVault(i) = "circle"
        BY <2>1 DEF RailAfterVault
    <2>3. FirstRail(i) = "circle"
        BY <1>6, <2>1, <2>2 DEF FirstRail
    <2> DEFINE hd == [stage |-> "try", rail |-> "circle", resumed |-> FALSE]
    <2>4. row'[i] = row[i] /\ h'[i] = hd
        BY <1>6, <2>3 DEF ExecuteInstruction, Continue, At, TypeOK
    <2>5. hd.stage = "try" /\ hd.rail = "circle"
        OBVIOUS
    <2> HIDE DEF hd
    <2>6. HandlerOk(row[i], hd, pay[i])
        BY <1>1, <2>1, <2>5 DEF HandlerOk, SigningRails
    <2>7. StoredOk(hd, pay[i], disk.row[i])
        BY <1>3, <2>5 DEF StoredOk
    <2>8. QED
        BY <1>2, <1>3, <2>4, <2>6, <2>7 DEF InvAt, InvAfter, InvOf
<1>7. QED
    BY <1>4, <1>5, <1>6

-----------------------------------------------------------------------------
(* The handlers.                                                           *)
LEMMA ReadingsMean ==
    ASSUME TypeOK, NEW i \in Ix, NEW seen \in Readings(i),
           row[i].status \in Authorized \cup {"pending_approval"},
           RowOk(row[i], pay[i]), Knows(row[i], pay[i])
    PROVE  /\ seen = "success" => \E n \in Tries : pay[i][n] = "landed"
           /\ seen = "reverted" => LiveIn(pay[i]) = {}
<1> DEFINE n == IF row[i].tx # 0 THEN row[i].tx ELSE IF row[i].keyTx THEN row[i].key ELSE 0
<1>1. /\ seen = "success" => n # 0 /\ pay[i][n] = "landed"
      /\ seen = "reverted" => n # 0 /\ pay[i][n] = "void"
    BY DEF Readings
<1>2. n # 0 => n \in Tries
    BY ConstantsAssumption DEF TypeOK, Row, Tries
<1>3. n # 0 => \A m \in LiveIn(pay[i]) : m = n
    BY AuthorizedRow, TryNumbers DEF LiveIn
<1> HIDE DEF n
<1>4. QED
    BY <1>1, <1>2, <1>3 DEF LiveIn

LEMMA ExecuteAnsweredInv ==
    ASSUME TypeOK, NEW i \in Ix, InvAt(i), NEW seen, ExecuteAnswered(i, seen)
    PROVE  InvAfter(i)
<1>1. /\ pay'[i] = pay[i] /\ disk'.row[i] = disk.row[i] /\ row[i] \in Row
      /\ h[i].stage = "read"
    BY DEF ExecuteAnswered, TypeOK
<1>2. /\ RowOk(row[i], pay[i]) /\ Knows(row[i], pay[i])
      /\ StoredOk(Idle, pay[i], disk.row[i])
      /\ row[i].status \in Authorized /\ HasOpenSettlement(row[i])
      /\ \A m, n \in LiveIn(pay[i]) : m = n
      /\ row[i].tx # 0 => disk.row[i].tx = row[i].tx
      /\ row[i].key # 0 => disk.row[i].key = row[i].key
    BY <1>1 DEF InvAt, InvOf, HandlerOk, StoredOk, Idle
<1>3. ~row[i].gaveUp /\ row[i].claim # 0
    BY <1>2, AuthorizedRow
<1>4. CASE seen = "unknown"
    <2> DEFINE q == HoldSettlement(row[i])
    <2>1. row'[i] = q /\ h'[i] = Idle
        BY <1>4 DEF ExecuteAnswered, Update, Release, TypeOK
    <2>2. /\ q.status = "pending_approval" /\ q.heldOn # 0
          /\ q.tx = row[i].tx /\ q.key = row[i].key
          /\ q.claim = row[i].claim /\ q.gaveUp = row[i].gaveUp
        BY HoldFields DEF TypeOK
    <2> HIDE DEF q
    <2>3. QED
        BY <1>1, <1>2, <2>1, <2>2, HeldInv
<1>5. CASE seen = "success"
    <2>1. RecordLanded(i, row[i]) /\ seen \in Readings(i)
        BY <1>5 DEF ExecuteAnswered
    <2>2. \E n \in Tries : pay[i][n] = "landed"
        BY <1>2, <1>5, <2>1, ReadingsMean
    <2>3. QED
        BY <1>1, <1>2, <1>3, <2>1, <2>2, LandedInv
<1>6. CASE seen = "reverted"
    <2>1. ReturnHeld(i, row[i]) /\ seen \in Readings(i)
        BY <1>6 DEF ExecuteAnswered
    <2>2. LiveIn(pay[i]) = {}
        BY <1>2, <1>6, <2>1, ReadingsMean
    <2>3. QED
        BY <1>1, <1>2, <1>3, <2>1, <2>2, ReturnHeldInv
<1>7. QED
    BY <1>4, <1>5, <1>6 DEF ExecuteAnswered

LEMMA RejectAnsweredInv ==
    ASSUME TypeOK, NEW i \in Ix, InvAt(i), NEW seen, RejectAnswered(i, seen)
    PROVE  InvAfter(i)
<1>1. /\ pay'[i] = pay[i] /\ disk'.row[i] = disk.row[i] /\ row[i] \in Row
      /\ h[i].stage = "rejectRead" /\ seen \in Readings(i)
    BY DEF RejectAnswered, TypeOK
<1>2. /\ RowOk(row[i], pay[i]) /\ Knows(row[i], pay[i])
      /\ StoredOk(Idle, pay[i], disk.row[i])
      /\ row[i].status \in Authorized \cup {"pending_approval"} /\ HasOpenSettlement(row[i])
      /\ \A m, n \in LiveIn(pay[i]) : m = n
    BY <1>1 DEF InvAt, InvOf, HandlerOk, StoredOk, Idle
<1>3. ~row[i].gaveUp /\ row[i].claim # 0
    BY <1>2, AuthorizedRow
<1> DEFINE g == CloseOpenSettlement(row[i])
           a == [g EXCEPT !.status = "rejected", !.heldOn = 0, !.gaveUp = TRUE]
           b == [g EXCEPT !.status = "rejected", !.heldOn = 0, !.claim = 0]
<1>4. /\ g \in Row /\ g.tx = 0 /\ g.key = 0
      /\ g.claim = row[i].claim /\ g.gaveUp = row[i].gaveUp
    BY <1>1, CloseFields
<1>5. CASE Release(i) /\ UNCHANGED <<row, counter, dirty>>
    <2>1. row'[i] = row[i] /\ h'[i] = Idle
        BY <1>5 DEF Release, TypeOK
    <2>2. HandlerOk(row[i], Idle, pay[i])
        BY DEF HandlerOk, Idle
    <2>3. QED
        BY <1>1, <1>2, <2>1, <2>2 DEF InvAt, InvAfter, InvOf
<1>6. CASE seen = "success" /\ RecordLanded(i, row[i])
    <2>1. \E n \in Tries : pay[i][n] = "landed"
        BY <1>1, <1>2, <1>6, ReadingsMean
    <2>2. QED
        BY <1>1, <1>2, <1>3, <1>6, <2>1, LandedInv
<1>7. CASE row'[i] = a /\ Release(i)
    <2>1. a.status = "rejected" /\ a.tx = 0 /\ a.key = 0 /\ a.gaveUp = TRUE /\ a.claim # 0
        <3> HIDE DEF g
        <3>1. QED
            BY <1>3, <1>4, SMT DEF Row
    <2> HIDE DEF a
    <2>2. RowOk(a, pay[i]) /\ Knows(a, pay[i]) /\ HandlerOk(a, Idle, pay[i])
        BY <2>1 DEF RowOk, Knows, HandlerOk, HasOpenSettlement, Idle
    <2>3. h'[i] = Idle
        BY <1>7 DEF Release, TypeOK
    <2>4. QED
        BY <1>1, <1>2, <1>7, <2>1, <2>2, <2>3 DEF InvAfter, InvOf
<1>8. CASE seen = "reverted" /\ row'[i] = b /\ Release(i)
    <2>1. b.status = "rejected" /\ b.tx = 0 /\ b.key = 0 /\ b.gaveUp = FALSE
        <3> HIDE DEF g
        <3>1. QED
            BY <1>3, <1>4, SMT DEF Row
    <2>2. LiveIn(pay[i]) = {}
        BY <1>1, <1>2, <1>8, ReadingsMean
    <2> HIDE DEF b
    <2>3. RowOk(b, pay[i]) /\ Knows(b, pay[i]) /\ HandlerOk(b, Idle, pay[i])
        BY <2>1, <2>2 DEF RowOk, Knows, HandlerOk, HasOpenSettlement, Idle
    <2>4. h'[i] = Idle
        BY <1>8 DEF Release, TypeOK
    <2>5. QED
        BY <1>1, <1>2, <1>8, <2>1, <2>3, <2>4 DEF InvAfter, InvOf
<1>9. QED
    <2>1. \/ Release(i) /\ UNCHANGED <<row, counter, dirty>>
          \/ seen = "success" /\ RecordLanded(i, row[i])
          \/ row' = [row EXCEPT ![i] = a] /\ Release(i)
          \/ seen = "reverted" /\ row' = [row EXCEPT ![i] = b] /\ Release(i)
        BY DEF RejectAnswered, Update
    <2> HIDE DEF a, b
    <2>2. QED
        BY <1>5, <1>6, <1>7, <1>8, <2>1 DEF TypeOK

LEMMA NothingSentInv ==
    ASSUME TypeOK, NEW i \in Ix, InvAt(i), NothingSent(i)
    PROVE  InvAfter(i)
<1>1. /\ pay'[i] = pay[i] /\ disk'.row[i] = disk.row[i] /\ row[i] \in Row
      /\ h[i].stage = "try" /\ h[i].rail \in SigningRails
    BY DEF NothingSent, TypeOK
<1>2. /\ RowOk(row[i], pay[i]) /\ Knows(row[i], pay[i])
      /\ StoredOk(Idle, pay[i], disk.row[i])
      /\ row[i].status \in Authorized /\ row[i].tx = 0 /\ row[i].key = 0
    BY <1>1 DEF InvAt, InvOf, HandlerOk, StoredOk, Idle, HasOpenSettlement
<1>3. ~row[i].gaveUp /\ row[i].claim # 0 /\ LiveIn(pay[i]) = {}
    BY <1>2, AuthorizedRow, TryNumbers DEF LiveIn
<1>4. CASE ReturnToHuman(i, row[i])
    BY <1>1, <1>2, <1>3, <1>4, ReturnInv
<1>5. CASE Continue(i, RailAfter(i, h[i].rail), row[i])
    <2> DEFINE rail == RailAfter(i, h[i].rail)
    <2>1. rail \in Rails /\ rail # "vault" /\ (rail = "circle" => agent.vault # "stellar")
        BY RailChoice DEF RailAfter, Rails
    <2> HIDE DEF rail
    <2>2. QED
        BY <1>1, <1>2, <1>3, <1>5, <2>1, ContinueInv DEF rail
<1>6. QED
    BY <1>4, <1>5 DEF NothingSent

(* A payment that is only noted may not land: what a row knows is enough,  *)
(* and the row that names it is a good row to save.                        *)
LEMMA NoteFresh ==
    ASSUME NEW p \in [Tries -> Payment], NEW n \in Tries, p[n] = "none",
           NEW q, q = [p EXCEPT ![n] = "noted"]
    PROVE  /\ LiveIn(q) = LiveIn(p) /\ q[n] = "noted"
           /\ \A m \in Tries : /\ p[m] # "none" => q[m] # "none"
                               /\ p[m] = "landed" => q[m] = "landed"
    BY DEF LiveIn

LEMMA NoteTransactionInv ==
    ASSUME TypeOK, NEW i \in Ix, InvAt(i), NoteTransaction(i)
    PROVE  InvAfter(i)
<1>1. /\ row[i] \in Row /\ pay[i] \in [Tries -> Payment] /\ disk.row[i] \in Row
      /\ h[i].stage = "try" /\ h[i].rail \in SigningRails
    BY DEF NoteTransaction, TypeOK, Document
<1>2. /\ RowOk(row[i], pay[i]) /\ Knows(row[i], pay[i])
      /\ StoredOk(h[i], pay[i], disk.row[i])
      /\ row[i].status \in Authorized /\ row[i].tx = 0 /\ row[i].key = 0
    BY <1>1 DEF InvAt, InvOf, HandlerOk, HasOpenSettlement
<1>3. ~row[i].gaveUp /\ row[i].claim # 0 /\ LiveIn(pay[i]) = {}
    BY <1>2, AuthorizedRow, TryNumbers DEF LiveIn
<1>4. PICK n \in Tries, saved \in BOOLEAN :
        LET r == [row[i] EXCEPT !.tx = n, !.at = day] IN
        /\ Fresh(i, n)
        /\ pay' = [pay EXCEPT ![i][n] = "noted"]
        /\ DurableWrite([row EXCEPT ![i] = r], saved)
        /\ IF saved
           THEN /\ row' = [row EXCEPT ![i] = r]
                /\ dirty' = FALSE
                /\ At(i, "send", h[i].rail, FALSE)
                /\ UNCHANGED counter
           ELSE ReturnToHuman(i, ClearUnconfirmedTx(r))
    BY DEF NoteTransaction
<1> DEFINE r == [row[i] EXCEPT !.tx = n, !.at = day]
           p == pay'[i]
           d == disk'.row[i]
<1>5. r \in Row
    <2>1. n \in 0..MaxTries
        BY ConstantsAssumption DEF Tries
    <2>2. QED
        BY <1>1, <2>1, DayOfRow, Zenon DEF Row, TypeOK
<1>6. /\ r.tx = n /\ r.key = 0 /\ r.status = row[i].status
      /\ r.claim = row[i].claim /\ r.gaveUp = row[i].gaveUp /\ r.heldOn = row[i].heldOn
    BY <1>1, <1>2 DEF Row
<1>7. p = [pay[i] EXCEPT ![n] = "noted"] /\ pay[i][n] = "none"
    BY <1>4 DEF TypeOK, Fresh
<1>8. d = r \/ (saved = FALSE /\ d = disk.row[i])
    BY <1>4 DEF DurableWrite, TypeOK
<1>9. \/ saved = TRUE /\ row'[i] = r /\ At(i, "send", h[i].rail, FALSE)
      \/ saved = FALSE /\ ReturnToHuman(i, ClearUnconfirmedTx(r))
    BY <1>4 DEF TypeOK
<1> HIDE DEF r, p
<1>10. /\ LiveIn(p) = LiveIn(pay[i]) /\ p[n] = "noted"
       /\ \A m \in Tries : /\ pay[i][m] # "none" => p[m] # "none"
                           /\ pay[i][m] = "landed" => p[m] = "landed"
    BY <1>1, <1>7, NoteFresh
<1>11. RowOk(r, p) /\ Knows(r, p)
    BY <1>2, <1>3, <1>6, <1>10, TryNumbers DEF RowOk, Knows, HasOpenSettlement, Authorized
<1>12. StoredOk(h[i], p, d)
    <2>1. CASE d = r
        BY <1>2, <1>11, <2>1 DEF StoredOk
    <2>2. CASE d = disk.row[i]
        <3>1. RowOk(d, p)
            BY <1>1, <1>2, <1>10, <2>2, PayChange DEF StoredOk
        <3>2. QED
            BY <1>2, <3>1 DEF StoredOk
    <2>3. QED
        BY <1>8, <2>1, <2>2
<1>13. CASE saved = TRUE /\ row'[i] = r /\ At(i, "send", h[i].rail, FALSE)
    <2> DEFINE hd == [stage |-> "send", rail |-> h[i].rail, resumed |-> FALSE]
    <2>1. h'[i] = hd
        BY <1>13 DEF At, TypeOK
    <2>2. hd.stage = "send" /\ hd.rail = h[i].rail
        OBVIOUS
    <2> HIDE DEF hd
    <2>3. HandlerOk(r, hd, p)
        BY <1>1, <1>2, <1>6, <1>10, <2>2, TryNumbers DEF HandlerOk, SigningRails
    <2>4. StoredOk(hd, p, d)
        BY <1>12, <2>2 DEF StoredOk
    <2>5. QED
        BY <1>3, <1>6, <1>8, <1>10, <1>11, <1>13, <2>1, <2>3, <2>4 DEF InvAfter, InvOf, p
<1>14. CASE saved = FALSE /\ ReturnToHuman(i, ClearUnconfirmedTx(r))
    <2> DEFINE q == ClearUnconfirmedTx(r)
    <2>1. q \in Row /\ q.tx = 0 /\ q.key = 0 /\ ~q.gaveUp
        BY <1>3, <1>5, <1>6, ClearFields
    <2>2. StoredOk(Idle, p, d)
        BY <1>12 DEF StoredOk, Idle
    <2> HIDE DEF q
    <2>3. QED
        BY <1>3, <1>10, <1>14, <2>1, <2>2, ReturnInv DEF p, q
<1>15. QED
    BY <1>9, <1>13, <1>14

LEMMA SendTransactionInv ==
    ASSUME TypeOK, NEW i \in Ix, InvAt(i), SendTransaction(i)
    PROVE  InvAfter(i)
<1> DEFINE n == row[i].tx
           r == ClearUnconfirmedTx(row[i])
           p == pay'[i]
           d == disk'.row[i]
<1>1. /\ row[i] \in Row /\ pay[i] \in [Tries -> Payment] /\ disk.row[i] \in Row
      /\ h[i].stage = "send" /\ h[i].rail \in SigningRails /\ d = disk.row[i]
    BY DEF SendTransaction, TypeOK, Document
<1>2. /\ RowOk(row[i], pay[i]) /\ Knows(row[i], pay[i])
      /\ StoredOk(h[i], pay[i], d)
      /\ row[i].status \in Authorized /\ n # 0 /\ row[i].key = 0
      /\ pay[i][n] = "noted" /\ d.tx = n
    BY <1>1 DEF InvAt, InvOf, HandlerOk, RowOk
<1>3. n \in Tries
    BY <1>1, <1>2, ConstantsAssumption DEF Row, Tries
<1>4. ~row[i].gaveUp /\ row[i].claim # 0 /\ LiveIn(pay[i]) = {}
    BY <1>2, AuthorizedRow, TryNumbers DEF LiveIn
<1>5. p \in [Tries -> Payment] /\ \E s \in {"noted", "sent", "void"} : p = [pay[i] EXCEPT ![n] = s]
    <2>1. \E s \in {"noted", "sent", "void"} : p = [pay[i] EXCEPT ![n] = s]
        BY <1>1, <1>2 DEF SendTransaction, TypeOK
    <2>2. QED
        BY <1>1, <2>1 DEF Payment
<1>6. /\ r \in Row /\ r.tx = 0 /\ r.key = 0 /\ r.status = row[i].status
      /\ r.claim = row[i].claim /\ r.gaveUp = row[i].gaveUp
    BY <1>1, <1>2, ClearFields
<1>7. \/ At(i, "wait", h[i].rail, FALSE) /\ UNCHANGED <<row, counter, dirty>>
      \/ /\ p = [pay[i] EXCEPT ![n] = "void"]
         /\ \/ h[i].rail = "vault" /\ Continue(i, RailAfterVault(i), r)
            \/ ReturnToHuman(i, r)
    BY DEF SendTransaction, TypeOK
<1> HIDE DEF p, r
<1>8. /\ LiveIn(p) \subseteq {n}
      /\ \A m \in Tries : /\ pay[i][m] # "none" => p[m] # "none"
                          /\ pay[i][m] = "landed" => p[m] = "landed"
    BY <1>1, <1>2, <1>3, <1>4, <1>5 DEF LiveIn
<1>9. StoredOk(h[i], p, d)
    <2>1. RowOk(d, p)
        BY <1>1, <1>2, <1>8, PayChange DEF StoredOk
    <2>2. QED
        BY <1>2, <2>1 DEF StoredOk
<1>10. CASE At(i, "wait", h[i].rail, FALSE) /\ UNCHANGED <<row, counter, dirty>>
    <2> DEFINE hd == [stage |-> "wait", rail |-> h[i].rail, resumed |-> FALSE]
    <2>1. h'[i] = hd /\ row'[i] = row[i]
        BY <1>10 DEF At, TypeOK
    <2>2. hd.stage = "wait" /\ hd.rail = h[i].rail
        OBVIOUS
    <2> HIDE DEF hd
    <2>3. HandlerOk(row[i], hd, p)
        BY <1>1, <1>2, <2>2 DEF HandlerOk, SigningRails
    <2>4. StoredOk(hd, p, d)
        BY <1>9, <2>2 DEF StoredOk
    <2>5. RowOk(row[i], p) /\ Knows(row[i], p)
        BY <1>2, <1>3, <1>8 DEF RowOk, Knows
    <2> HIDE DEF n, d
    <2>6. QED
        BY <1>2, <1>8, <2>1, <2>3, <2>4, <2>5 DEF InvAfter, InvOf, p, n, d
<1>11. CASE p = [pay[i] EXCEPT ![n] = "void"]
            /\ \/ h[i].rail = "vault" /\ Continue(i, RailAfterVault(i), r)
               \/ ReturnToHuman(i, r)
    <2>1. LiveIn(p) = {}
        BY <1>1, <1>3, <1>8, <1>11 DEF LiveIn
    <2>2. StoredOk(Idle, p, d)
        BY <1>9 DEF StoredOk, Idle
    <2>3. CASE ReturnToHuman(i, r)
        BY <1>4, <1>6, <2>1, <2>2, <2>3, ReturnInv DEF p
    <2>4. CASE Continue(i, RailAfterVault(i), r)
        BY <1>2, <1>4, <1>6, <2>1, <2>2, <2>4, ContinueInv, RailChoice DEF p
    <2>5. QED
        BY <1>11, <2>3, <2>4
<1>12. QED
    BY <1>7, <1>10, <1>11

LEMMA ReceiptAnsweredInv ==
    ASSUME TypeOK, NEW i \in Ix, InvAt(i), ReceiptAnswered(i)
    PROVE  InvAfter(i)
<1> DEFINE n == row[i].tx
           r == ClearUnconfirmedTx(row[i])
           p == pay[i]
           d == disk.row[i]
<1>1. /\ row[i] \in Row /\ pay'[i] = p /\ disk'.row[i] = d
      /\ h[i].stage = "wait" /\ h[i].rail \in SigningRails
    BY DEF ReceiptAnswered, TypeOK
<1>2. /\ RowOk(row[i], p) /\ Knows(row[i], p) /\ StoredOk(h[i], p, d)
      /\ StoredOk(Idle, p, d)
      /\ row[i].status \in Authorized /\ n # 0 /\ row[i].key = 0 /\ d.tx = n
      /\ \A x, y \in LiveIn(p) : x = y
    BY <1>1 DEF InvAt, InvOf, HandlerOk, RowOk, StoredOk, Idle
<1>3. n \in Tries
    BY <1>1, <1>2, ConstantsAssumption DEF Row, Tries
<1>4. ~row[i].gaveUp /\ row[i].claim # 0 /\ LiveIn(p) \subseteq {n}
    BY <1>2, AuthorizedRow, TryNumbers DEF LiveIn
<1>5. /\ r \in Row /\ r.tx = 0 /\ r.key = 0 /\ r.status = row[i].status
      /\ r.claim = row[i].claim /\ r.gaveUp = row[i].gaveUp /\ r.heldOn = row[i].heldOn
    BY <1>1, <1>2, ClearFields
<1>6. CASE HoldUnconfirmed(i)
    BY <1>1, <1>2, <1>6, HoldUnconfirmedInv DEF HasOpenSettlement
<1>7. CASE p[n] = "void" /\ ReturnToHuman(i, r)
    <2>1. LiveIn(p) = {}
        BY <1>4, <1>7 DEF LiveIn
    <2> HIDE DEF r, n, p, d
    <2>2. QED
        BY <1>1, <1>2, <1>4, <1>5, <1>7, <2>1, ReturnInv
<1>8. CASE p[n] = "landed" /\ RecordSettled(i, row[i])
    <2>1. \E m \in Tries : p[m] = "landed"
        BY <1>3, <1>8
    <2>2. QED
        BY <1>1, <1>2, <1>4, <1>8, <2>1, SettledInv
<1>9. CASE /\ p[n] = "landed" /\ h[i].rail = "vault"
           /\ row' = [row EXCEPT ![i] = r]
           /\ At(i, "label", "vault", FALSE)
    <2> DEFINE hd == [stage |-> "label", rail |-> "vault", resumed |-> FALSE]
    <2>1. h'[i] = hd /\ row'[i] = r
        BY <1>9 DEF At, TypeOK
    <2>2. hd.stage = "label" /\ hd.rail = "vault"
        OBVIOUS
    <2>3. \E m \in Tries : p[m] = "landed"
        BY <1>3, <1>9
    <2>4. agent.vault # "none"
        BY <1>2, <1>9 DEF StoredOk
    <2> HIDE DEF hd, r, n, p, d
    <2>5. HandlerOk(r, hd, p)
        BY <1>2, <1>5, <2>2, <2>3 DEF HandlerOk, HasOpenSettlement
    <2>6. RowOk(r, p) /\ StoredOk(hd, p, d)
        BY <1>2, <1>4, <1>5, <2>4 DEF RowOk, StoredOk, HasOpenSettlement, Authorized
    <2>7. QED
        BY <1>1, <1>2, <1>5, <2>1, <2>2, <2>5, <2>6 DEF InvAfter, InvOf
<1>10. QED
    BY <1>6, <1>7, <1>8, <1>9 DEF ReceiptAnswered

LEMMA ReadSessionKeyBoundInv ==
    ASSUME TypeOK, NEW i \in Ix, InvAt(i), ReadSessionKeyBound(i)
    PROVE  InvAfter(i)
<1>1. /\ row[i] \in Row /\ pay'[i] = pay[i] /\ disk'.row[i] = disk.row[i]
      /\ h[i].stage = "label" /\ RecordSettled(i, row[i])
    BY DEF ReadSessionKeyBound, TypeOK
<1>2. /\ RowOk(row[i], pay[i]) /\ StoredOk(Idle, pay[i], disk.row[i])
      /\ row[i].status \in Authorized
      /\ \E n \in Tries : pay[i][n] = "landed"
      /\ \A x, y \in LiveIn(pay[i]) : x = y
    BY <1>1 DEF InvAt, InvOf, HandlerOk, StoredOk, Idle
<1>3. ~row[i].gaveUp /\ row[i].claim # 0
    BY <1>2 DEF RowOk, Authorized
<1>4. QED
    BY <1>1, <1>2, <1>3, SettledInv

LEMMA NoteCircleKeyInv ==
    ASSUME TypeOK, NEW i \in Ix, InvAt(i), NoteCircleKey(i)
    PROVE  InvAfter(i)
<1> DEFINE resumed == row[i].key # 0
<1>1. /\ row[i] \in Row /\ pay[i] \in [Tries -> Payment] /\ disk.row[i] \in Row
      /\ h[i].stage = "try" /\ h[i].rail = "circle"
    BY DEF NoteCircleKey, TypeOK, Document
<1>2. /\ RowOk(row[i], pay[i]) /\ Knows(row[i], pay[i])
      /\ StoredOk(h[i], pay[i], disk.row[i])
      /\ row[i].status \in Authorized /\ row[i].tx = 0 /\ agent.vault # "stellar"
      /\ \A x, y \in LiveIn(pay[i]) : x = y
      /\ row[i].key # 0 => disk.row[i].key = row[i].key
    BY <1>1 DEF InvAt, InvOf, HandlerOk
<1>3. /\ ~row[i].gaveUp /\ row[i].claim # 0
      /\ \A x \in LiveIn(pay[i]) : x = row[i].key
    BY <1>2, AuthorizedRow, TryNumbers DEF LiveIn
<1>4. PICK n \in Tries, saved \in BOOLEAN :
        LET r == [row[i] EXCEPT !.key = n] IN
        /\ IF resumed THEN n = row[i].key ELSE Fresh(i, n)
        /\ pay' = IF resumed THEN pay ELSE [pay EXCEPT ![i][n] = "noted"]
        /\ DurableWrite([row EXCEPT ![i] = r], saved)
        /\ IF saved \/ resumed
           THEN /\ row' = [row EXCEPT ![i] = r]
                /\ dirty' = FALSE
                /\ At(i, "send", "circle", resumed)
                /\ UNCHANGED counter
           ELSE ReturnToHuman(i, row[i])
    BY DEF NoteCircleKey
<1> DEFINE r == [row[i] EXCEPT !.key = n]
           p == pay'[i]
           d == disk'.row[i]
<1>5. r \in Row
    <2>1. n \in 0..MaxTries
        BY ConstantsAssumption DEF Tries
    <2>2. QED
        BY <1>1, <2>1, Zenon DEF Row
<1>6. /\ r.tx = 0 /\ r.key = n /\ r.status = row[i].status
      /\ r.claim = row[i].claim /\ r.gaveUp = row[i].gaveUp
    BY <1>1, <1>2 DEF Row
<1>7. \/ resumed /\ n = row[i].key /\ p = pay[i]
      \/ /\ ~resumed /\ LiveIn(pay[i]) = {}
         /\ pay[i][n] = "none" /\ p = [pay[i] EXCEPT ![n] = "noted"]
    BY <1>3, <1>4, TryNumbers DEF TypeOK, Fresh, LiveIn
<1>8. d = r \/ (saved = FALSE /\ d = disk.row[i])
    BY <1>4 DEF DurableWrite, TypeOK
<1>9. \/ /\ saved = TRUE \/ resumed
         /\ row'[i] = r
         /\ At(i, "send", "circle", resumed)
      \/ saved = FALSE /\ ~resumed /\ ReturnToHuman(i, row[i])
    BY <1>4 DEF TypeOK
<1> HIDE DEF r, p
<1>10. /\ LiveIn(p) = LiveIn(pay[i]) /\ p[n] # "none"
       /\ ~resumed => p[n] = "noted"
       /\ \A m \in Tries : /\ pay[i][m] # "none" => p[m] # "none"
                           /\ pay[i][m] = "landed" => p[m] = "landed"
    <2>1. CASE resumed
        BY <1>2, <1>7, <2>1 DEF RowOk
    <2>2. CASE ~resumed
        BY <1>1, <1>7, <2>2, NoteFresh
    <2>3. QED
        BY <2>1, <2>2
<1>11. RowOk(r, p) /\ Knows(r, p)
    <2>1. \A x \in LiveIn(p) : x = n
        BY <1>3, <1>7, <1>10
    <2>2. QED
        BY <1>2, <1>3, <1>6, <1>10, <2>1 DEF RowOk, Knows, HasOpenSettlement, Authorized
<1>12. StoredOk(h[i], p, d)
    <2>1. CASE d = r
        BY <1>2, <1>11, <2>1 DEF StoredOk
    <2>2. CASE d = disk.row[i]
        <3>1. RowOk(d, p)
            BY <1>1, <1>2, <1>10, <2>2, PayChange DEF StoredOk
        <3>2. QED
            BY <1>2, <3>1 DEF StoredOk
    <2>3. QED
        BY <1>8, <2>1, <2>2
<1>13. CASE /\ saved = TRUE \/ resumed
            /\ row'[i] = r
            /\ At(i, "send", "circle", resumed)
    <2> DEFINE hd == [stage |-> "send", rail |-> "circle", resumed |-> resumed]
    <2>1. h'[i] = hd
        BY <1>13 DEF At, TypeOK
    <2>2. hd.stage = "send" /\ hd.rail = "circle" /\ hd.resumed = resumed
        OBVIOUS
    <2> HIDE DEF hd, resumed
    <2>3. HandlerOk(r, hd, p)
        BY <1>2, <1>6, <1>10, <2>2, TryNumbers DEF HandlerOk, SigningRails
    <2>4. StoredOk(hd, p, d)
        BY <1>12, <2>2 DEF StoredOk
    <2>5. d.key = n
        BY <1>2, <1>6, <1>7, <1>8, <1>13 DEF resumed
    <2>6. QED
        BY <1>2, <1>6, <1>10, <1>11, <1>13, <2>1, <2>2, <2>3, <2>4, <2>5 DEF InvAfter, InvOf, p
<1>14. CASE saved = FALSE /\ ~resumed /\ ReturnToHuman(i, row[i])
    <2>1. StoredOk(Idle, p, d)
        BY <1>12 DEF StoredOk, Idle
    <2>2. LiveIn(p) = {} /\ row[i].key = 0
        BY <1>7, <1>10, <1>14
    <2>3. QED
        BY <1>1, <1>2, <1>3, <1>14, <2>1, <2>2, ReturnInv DEF p
<1>15. QED
    BY <1>9, <1>13, <1>14

LEMMA CircleCreateInv ==
    ASSUME TypeOK, NEW i \in Ix, InvAt(i), CircleCreate(i)
    PROVE  InvAfter(i)
<1> DEFINE n == row[i].key
           r == CloseOpenSettlement(row[i])
           p == pay'[i]
           d == disk.row[i]
<1>1. /\ row[i] \in Row /\ pay[i] \in [Tries -> Payment] /\ d \in Row
      /\ h[i].stage = "send" /\ h[i].rail = "circle" /\ disk'.row[i] = d
    BY DEF CircleCreate, TypeOK, Document
<1>2. /\ RowOk(row[i], pay[i]) /\ Knows(row[i], pay[i]) /\ StoredOk(h[i], pay[i], d)
      /\ row[i].status \in Authorized /\ row[i].tx = 0 /\ n # 0 /\ d.key = n
      /\ agent.vault # "stellar"
      /\ ~h[i].resumed => pay[i][n] = "noted"
      /\ \A x, y \in LiveIn(pay[i]) : x = y
    BY <1>1 DEF InvAt, InvOf, HandlerOk
<1>3. n \in Tries
    BY <1>1, <1>2, ConstantsAssumption DEF Row, Tries
<1>4. ~row[i].gaveUp /\ row[i].claim # 0 /\ LiveIn(pay[i]) \subseteq {n}
    BY <1>2, AuthorizedRow, TryNumbers DEF LiveIn
<1>5. /\ r \in Row /\ r.tx = 0 /\ r.key = 0 /\ r.status = row[i].status
      /\ r.claim = row[i].claim /\ r.gaveUp = row[i].gaveUp
    BY <1>1, CloseFields
<1>6. \/ p = pay[i]
      \/ pay[i][n] = "noted" /\ p = [pay[i] EXCEPT ![n] = "sent"]
      \/ pay[i][n] = "noted" /\ p = [pay[i] EXCEPT ![n] = "void"]
    <2>1. CASE CircleTakes(i)
        <3>1. p = [pay[i] EXCEPT ![n] = IF @ = "noted" THEN "sent" ELSE @]
            BY <2>1 DEF CircleTakes, TypeOK
        <3>2. QED
            BY <1>1, <1>3, <3>1
    <2>2. CASE UNCHANGED pay
        BY <2>2
    <2>3. CASE ~h[i].resumed /\ pay' = [pay EXCEPT ![i][n] = "void"]
        BY <1>2, <2>3 DEF TypeOK
    <2>4. QED
        BY <2>1, <2>2, <2>3 DEF CircleCreate
<1>7. \/ At(i, "wait", "circle", h[i].resumed) /\ UNCHANGED <<row, counter, dirty>>
      \/ HoldCircle(i, FALSE)
      \/ p = [pay[i] EXCEPT ![n] = "void"] /\ Continue(i, RailAfterCircle(i), r)
    BY DEF CircleCreate, TypeOK
<1> HIDE DEF p, r
<1>8. /\ LiveIn(p) \subseteq {n} /\ p[n] # "none"
      /\ \A m \in Tries : /\ pay[i][m] # "none" => p[m] # "none"
                          /\ pay[i][m] = "landed" => p[m] = "landed"
    BY <1>1, <1>2, <1>3, <1>4, <1>6 DEF LiveIn, RowOk
<1>9. StoredOk(h[i], p, d)
    <2>1. RowOk(d, p)
        BY <1>1, <1>2, <1>8, PayChange DEF StoredOk
    <2>2. QED
        BY <1>2, <2>1 DEF StoredOk
<1>10. StoredOk(Idle, p, d)
    BY <1>9 DEF StoredOk, Idle
<1>11. /\ RowOk(row[i], p) /\ Knows(row[i], p)
       /\ \A x, y \in LiveIn(p) : x = y
    BY <1>2, <1>3, <1>8 DEF RowOk, Knows
<1>12. CASE At(i, "wait", "circle", h[i].resumed) /\ UNCHANGED <<row, counter, dirty>>
    <2> DEFINE hd == [stage |-> "wait", rail |-> "circle", resumed |-> h[i].resumed]
    <2>1. h'[i] = hd /\ row'[i] = row[i]
        BY <1>12 DEF At, TypeOK
    <2>2. hd.stage = "wait" /\ hd.rail = "circle"
        OBVIOUS
    <2> HIDE DEF hd
    <2>3. HandlerOk(row[i], hd, p)
        BY <1>2, <2>2 DEF HandlerOk, SigningRails
    <2>4. StoredOk(hd, p, d)
        BY <1>9, <2>2 DEF StoredOk
    <2> HIDE DEF n, d
    <2>5. QED
        BY <1>1, <1>2, <1>11, <2>1, <2>3, <2>4 DEF InvAfter, InvOf, p, n, d
<1>13. CASE HoldCircle(i, FALSE)
    BY <1>1, <1>2, <1>10, <1>11, <1>13, HoldCircleInv DEF p, HasOpenSettlement
<1>14. CASE p = [pay[i] EXCEPT ![n] = "void"] /\ Continue(i, RailAfterCircle(i), r)
    <2>1. LiveIn(p) = {}
        BY <1>1, <1>3, <1>8, <1>14 DEF LiveIn
    <2>2. RailAfterCircle(i) \in Rails \ {"vault", "circle"}
        BY RailChoice DEF Rails
    <2>3. QED
        BY <1>1, <1>2, <1>4, <1>5, <1>10, <1>14, <2>1, <2>2, ContinueInv DEF p
<1>15. QED
    BY <1>7, <1>12, <1>13, <1>14

LEMMA CirclePolledInv ==
    ASSUME TypeOK, NEW i \in Ix, InvAt(i), CirclePolled(i)
    PROVE  InvAfter(i)
<1> DEFINE n == row[i].key
           r == CloseOpenSettlement(row[i])
           p == pay[i]
           d == disk.row[i]
<1>1. /\ row[i] \in Row /\ pay'[i] = p /\ disk'.row[i] = d
      /\ h[i].stage = "wait" /\ h[i].rail = "circle"
    BY DEF CirclePolled, TypeOK
<1>2. /\ RowOk(row[i], p) /\ Knows(row[i], p) /\ StoredOk(Idle, p, d)
      /\ row[i].status \in Authorized /\ row[i].tx = 0 /\ n # 0 /\ d.key = n
      /\ agent.vault # "stellar"
      /\ \A x, y \in LiveIn(p) : x = y
    BY <1>1 DEF InvAt, InvOf, HandlerOk, StoredOk, Idle
<1>3. n \in Tries
    BY <1>1, <1>2, ConstantsAssumption DEF Row, Tries
<1>4. ~row[i].gaveUp /\ row[i].claim # 0 /\ LiveIn(p) \subseteq {n}
    BY <1>2, AuthorizedRow, TryNumbers DEF LiveIn
<1>5. /\ r \in Row /\ r.tx = 0 /\ r.key = 0 /\ r.status = row[i].status
      /\ r.claim = row[i].claim /\ r.gaveUp = row[i].gaveUp
    BY <1>1, CloseFields
<1> HIDE DEF r
<1>6. CASE HoldCircle(i, TRUE)
    <2>1. /\ RowOk(row[i], pay'[i]) /\ Knows(row[i], pay'[i])
          /\ \A x, y \in LiveIn(pay'[i]) : x = y
          /\ StoredOk(Idle, pay'[i], disk'.row[i])
          /\ HasOpenSettlement(row[i])
          /\ row[i].key # 0 => disk'.row[i].key = row[i].key
        BY <1>1, <1>2 DEF HasOpenSettlement
    <2>2. QED
        BY <1>1, <1>2, <1>6, <2>1, HoldCircleInv
<1>7. CASE p[n] = "landed" /\ RecordSettled(i, row[i])
    BY <1>1, <1>2, <1>3, <1>4, <1>7, SettledInv
<1>8. CASE p[n] = "void" /\ (\/ ReturnToHuman(i, r)
                             \/ ReturnHeld(i, row[i])
                             \/ Continue(i, RailAfterCircle(i), r))
    <2>1. LiveIn(p) = {}
        BY <1>4, <1>8 DEF LiveIn
    <2>2. RailAfterCircle(i) \in Rails \ {"vault", "circle"}
        BY RailChoice DEF Rails
    <2> HIDE DEF n, d, p
    <2>3. CASE ReturnToHuman(i, r)
        BY <1>1, <1>2, <1>4, <1>5, <2>1, <2>3, ReturnInv
    <2>4. CASE ReturnHeld(i, row[i])
        BY <1>1, <1>2, <1>4, <1>5, <2>1, <2>4, ReturnHeldInv
    <2>5. CASE Continue(i, RailAfterCircle(i), r)
        BY <1>1, <1>2, <1>4, <1>5, <2>1, <2>2, <2>5, ContinueInv
    <2>6. QED
        BY <1>8, <2>3, <2>4, <2>5
<1>9. QED
    BY <1>6, <1>7, <1>8 DEF CirclePolled, r

-----------------------------------------------------------------------------
(* The steps of the rest of the world.                                     *)
LEMMA SettleInv ==
    ASSUME TypeOK, NEW i \in Ix, NEW n \in Tries, InvAt(i), Settle(i, n)
    PROVE  InvAfter(i)
<1> DEFINE p == pay'[i]
           d == disk.row[i]
<1>1. /\ row[i] \in Row /\ pay[i] \in [Tries -> Payment] /\ d \in Row
      /\ row'[i] = row[i] /\ h'[i] = h[i] /\ disk'.row[i] = d
    BY DEF Settle, TypeOK, Document
<1>2. PICK s \in {"landed", "void"} : p = [pay[i] EXCEPT ![n] = s]
    BY DEF Settle, TypeOK
<1>3. \/ pay[i][n] = "sent"
      \/ pay[i][n] = "noted" /\ s = "void" /\ row[i].tx = n /\ h[i].stage # "send"
    <2>1. CASE pay[i][n] = "sent"
        BY <2>1
    <2>2. CASE pay[i][n] # "sent"
        <3>1. /\ pay[i][n] = "noted" /\ row[i].tx = n /\ h[i].stage # "send"
              /\ pay' = [pay EXCEPT ![i][n] = "void"]
            BY <2>2 DEF Settle
        <3>2. p[n] = "void"
            BY <3>1 DEF TypeOK
        <3>3. p[n] = s
            BY <1>1, <1>2
        <3>4. QED
            BY <3>1, <3>2, <3>3
    <2>3. QED
        BY <2>1, <2>2
<1> HIDE DEF p, d
<1>4. /\ LiveIn(p) \subseteq LiveIn(pay[i])
      /\ \A m \in Tries : /\ pay[i][m] # "none" => p[m] # "none"
                          /\ pay[i][m] = "landed" => p[m] = "landed"
    BY <1>1, <1>2, <1>3 DEF LiveIn
<1>5. /\ RowOk(row[i], pay[i])
      /\ h[i].stage # "label" => Knows(row[i], pay[i])
      /\ HandlerOk(row[i], h[i], pay[i])
      /\ StoredOk(h[i], pay[i], d)
      /\ \A x, y \in LiveIn(pay[i]) : x = y
    BY DEF InvAt, InvOf, d
<1>6. RowOk(row[i], p)
    <2>1. row[i].tx # 0 => row[i].tx \in Tries
        BY <1>1, ConstantsAssumption DEF Row, Tries
    <2>2. row[i].key # 0 => row[i].key \in Tries
        BY <1>1, ConstantsAssumption DEF Row, Tries
    <2>3. QED
        BY <1>4, <1>5, <2>1, <2>2 DEF RowOk
<1>7. h[i].stage # "label" => Knows(row[i], p)
    BY <1>4, <1>5 DEF Knows
<1>8. HandlerOk(row[i], h[i], p)
    <2>1. ASSUME h[i].stage = "send" PROVE p[row[i].tx] = pay[i][row[i].tx] \/ row[i].tx = n
        BY <1>1, <1>2
    <2>2. h[i].stage = "send" => pay[i][n] = "sent"
        BY <1>3
    <2>3. ASSUME h[i].stage = "send", h[i].rail \in SigningRails
          PROVE  p[row[i].tx] = "noted"
        BY <1>5, <2>1, <2>2, <2>3 DEF HandlerOk
    <2>4. ASSUME h[i].stage = "send", h[i].rail = "circle", ~h[i].resumed
          PROVE  p[row[i].key] = "noted"
        BY <1>1, <1>2, <1>5, <2>2, <2>4 DEF HandlerOk
    <2>5. QED
        BY <1>4, <1>5, <2>3, <2>4 DEF HandlerOk
<1>9. StoredOk(h[i], p, d)
    <2>1. RowOk(d, p)
        BY <1>1, <1>4, <1>5, PayChange DEF StoredOk
    <2>2. QED
        BY <1>5, <2>1 DEF StoredOk
<1>10. /\ row[i].tx # 0 => d.tx = row[i].tx
       /\ row[i].key # 0 => d.key = row[i].key
    BY DEF InvAt, InvOf, d
<1>11. \A x, y \in LiveIn(p) : x = y
    BY <1>4, <1>5
<1>12. QED
    BY <1>1, <1>6, <1>7, <1>8, <1>9, <1>10, <1>11 DEF InvAfter, InvOf, p

(* The row a restarted server goes back to is as good as the one it lost,  *)
(* if it knows the payments.                                               *)
LEMMA RestartInv ==
    ASSUME TypeOK, NEW i \in Ix, InvAt(i), Restart, Knows(disk.row[i], pay[i])
    PROVE  InvAfter(i)
<1> DEFINE d == disk.row[i]
<1>1. row'[i] = d /\ h'[i] = Idle /\ pay'[i] = pay[i] /\ disk'.row[i] = d
    BY DEF Restart
<1>2. /\ RowOk(d, pay[i]) /\ Knows(d, pay[i])
      /\ StoredOk(Idle, pay[i], d)
      /\ \A x, y \in LiveIn(pay[i]) : x = y
    BY DEF InvAt, InvOf, StoredOk, Idle
<1>3. HandlerOk(d, Idle, pay[i])
    BY DEF HandlerOk, Idle
<1> HIDE DEF d
<1>4. QED
    BY <1>1, <1>2, <1>3 DEF InvAfter, InvOf

-----------------------------------------------------------------------------
LEMMA InitInv == Init => SettlementInv
<1> SUFFICES ASSUME Init PROVE SettlementInv
    OBVIOUS
<1>1. TypeOK
    BY TypeInit
<1>2. ASSUME NEW i \in Ix PROVE InvOf(row[i], h[i], pay[i], disk.row[i])
    <2>1. row[i] = NoRow /\ h[i] = Idle /\ disk.row[i] = NoRow
        BY DEF Init
    <2>2. LiveIn(pay[i]) = {}
        BY DEF Init, LiveIn
    <2>3. /\ NoRow.tx = 0 /\ NoRow.key = 0 /\ NoRow.status = "none"
          /\ NoRow.gaveUp = FALSE
        BY DEF NoRow
    <2>4. RowOk(NoRow, pay[i]) /\ Knows(NoRow, pay[i])
        BY <2>2, <2>3 DEF RowOk, Knows, HasOpenSettlement
    <2>5. HandlerOk(NoRow, Idle, pay[i])
        BY DEF HandlerOk, Idle
    <2>6. StoredOk(Idle, pay[i], NoRow)
        BY <2>4 DEF StoredOk, Idle
    <2>7. QED
        BY <2>1, <2>2, <2>3, <2>4, <2>5, <2>6 DEF InvOf
<1>3. QED
    BY <1>1, <1>2 DEF SettlementInv

LEMMA HandleInv ==
    ASSUME TypeOK, NEW i \in Ix, InvAt(i), Request(i) \/ Handle(i)
    PROVE  InvAfter(i)
    BY CreateInv, ApproveInv, RejectInv, ExecuteInv, RejectAnsweredInv, ExecuteAnsweredInv,
       NothingSentInv, NoteTransactionInv, SendTransactionInv, ReceiptAnsweredInv,
       ReadSessionKeyBoundInv, NoteCircleKeyInv, CircleCreateInv, CirclePolledInv
    DEF Request, Handle

(* What a step of instruction i leaves of instruction j.                   *)
LEMMA UpdateOthers ==
    ASSUME TypeOK, NEW i \in Ix, NEW j \in Ix, i # j, NEW r, NEW c, Update(i, r, c)
    PROVE  row'[j] = row[j]
    BY DEF Update, TypeOK

LEMMA EndOthers ==
    ASSUME TypeOK, NEW i \in Ix, NEW j \in Ix, i # j, NEW r, NEW rail,
           \/ ReturnToHuman(i, r) \/ ReturnHeld(i, r) \/ RecordSettled(i, r)
           \/ RecordLanded(i, r) \/ Continue(i, rail, r) \/ HoldUnconfirmed(i)
           \/ HoldCircle(i, TRUE) \/ HoldCircle(i, FALSE)
    PROVE  row'[j] = row[j] /\ h'[j] = h[j]
<1>1. CASE ReturnToHuman(i, r)
    BY <1>1, UpdateOthers DEF ReturnToHuman, Release, TypeOK
<1>2. CASE ReturnHeld(i, r)
    BY <1>2, UpdateOthers DEF ReturnHeld, Release, TypeOK
<1>3. CASE RecordSettled(i, r)
    BY <1>3, UpdateOthers DEF RecordSettled, Release, TypeOK
<1>4. CASE RecordLanded(i, r)
    BY <1>4, UpdateOthers DEF RecordLanded, RecordSettled, Release, TypeOK
<1>5. CASE Continue(i, rail, r)
    <2>1. CASE rail = "human" /\ ReturnToHuman(i, r)
        BY <1>1, <2>1
    <2>2. CASE row' = [row EXCEPT ![i] = r] /\ At(i, "try", rail, FALSE)
        BY <2>2 DEF At, TypeOK
    <2>3. CASE Update(i, [r EXCEPT !.status = "executed_simulated"], counter) /\ Release(i)
        BY <2>3, UpdateOthers DEF Release, TypeOK
    <2>4. QED
        BY <1>5, <2>1, <2>2, <2>3 DEF Continue
<1>6. CASE HoldUnconfirmed(i)
    BY <1>6, UpdateOthers DEF HoldUnconfirmed, Release, TypeOK
<1>7. CASE HoldCircle(i, TRUE)
    BY <1>7, UpdateOthers DEF HoldCircle, Release, TypeOK
<1>8. CASE HoldCircle(i, FALSE)
    BY <1>8, UpdateOthers DEF HoldCircle, Release, TypeOK
<1>9. QED
    BY <1>1, <1>2, <1>3, <1>4, <1>5, <1>6, <1>7, <1>8

LEMMA RequestOthers ==
    ASSUME TypeOK, NEW i \in Ix, NEW j \in Ix, i # j, Request(i)
    PROVE  row'[j] = row[j] /\ h'[j] = h[j] /\ pay'[j] = pay[j] /\ disk'.row[j] = disk.row[j]
<1>1. UNCHANGED <<disk, pay>>
    BY DEF Request, CreateInstruction, ApproveInstruction, RejectInstruction, ExecuteInstruction
<1>2. CASE CreateInstruction(i)
    BY <1>1, <1>2, UpdateOthers DEF CreateInstruction
<1>3. CASE ApproveInstruction(i)
    BY <1>1, <1>3, UpdateOthers DEF ApproveInstruction
<1>4. CASE RejectInstruction(i)
    <2>1. CASE At(i, "rejectRead", "none", FALSE) /\ UNCHANGED row
        BY <1>1, <2>1 DEF At, TypeOK
    <2>2. CASE Update(i, [row[i] EXCEPT !.status = "rejected"], counter) /\ UNCHANGED h
        BY <1>1, <2>2, UpdateOthers
    <2>3. QED
        BY <1>4, <2>1, <2>2 DEF RejectInstruction
<1>5. CASE ExecuteInstruction(i)
    <2>1. CASE At(i, "read", "none", FALSE) /\ UNCHANGED row
        BY <1>1, <2>1 DEF At, TypeOK
    <2>2. CASE Continue(i, FirstRail(i), row[i])
        BY <1>1, <2>2, EndOthers
    <2>3. QED
        BY <1>5, <2>1, <2>2 DEF ExecuteInstruction
<1>6. QED
    BY <1>2, <1>3, <1>4, <1>5 DEF Request

LEMMA HandleOthers ==
    ASSUME TypeOK, NEW i \in Ix, NEW j \in Ix, i # j, Handle(i)
    PROVE  /\ row'[j] = row[j] /\ h'[j] = h[j] /\ pay'[j] = pay[j]
           /\ disk'.row[j] \in {disk.row[j], row[j]}
<1>1. CASE \E seen : RejectAnswered(i, seen)
    <2>1. UNCHANGED <<disk, pay>>
        BY <1>1 DEF RejectAnswered
    <2>2. CASE Release(i) /\ UNCHANGED <<row, counter, dirty>>
        BY <2>1, <2>2 DEF Release, TypeOK
    <2>3. CASE RecordLanded(i, row[i])
        BY <2>1, <2>3, EndOthers
    <2>4. CASE Release(i) /\ \E r, c : Update(i, r, c)
        BY <2>1, <2>4, UpdateOthers DEF Release, TypeOK
    <2>5. QED
        BY <1>1, <2>2, <2>3, <2>4 DEF RejectAnswered
<1>2. CASE \E seen : ExecuteAnswered(i, seen)
    <2>1. UNCHANGED <<disk, pay>>
        BY <1>2 DEF ExecuteAnswered
    <2>2. CASE Update(i, HoldSettlement(row[i]), counter) /\ Release(i)
        BY <2>1, <2>2, UpdateOthers DEF Release, TypeOK
    <2>3. CASE RecordLanded(i, row[i]) \/ ReturnHeld(i, row[i])
        BY <2>1, <2>3, EndOthers
    <2>4. QED
        BY <1>2, <2>2, <2>3 DEF ExecuteAnswered
<1>3. CASE NothingSent(i)
    BY <1>3, EndOthers DEF NothingSent
<1>4. CASE NoteTransaction(i)
    <2>1. PICK n \in Tries, saved \in BOOLEAN :
            LET r == [row[i] EXCEPT !.tx = n, !.at = day] IN
            /\ pay' = [pay EXCEPT ![i][n] = "noted"]
            /\ DurableWrite([row EXCEPT ![i] = r], saved)
            /\ \/ row' = [row EXCEPT ![i] = r] /\ At(i, "send", h[i].rail, FALSE)
               \/ ReturnToHuman(i, ClearUnconfirmedTx(r))
        BY <1>4 DEF NoteTransaction
    <2> DEFINE r == [row[i] EXCEPT !.tx = n, !.at = day]
    <2>2. pay'[j] = pay[j]
        BY <2>1 DEF TypeOK
    <2>3. disk'.row[j] \in {disk.row[j], row[j]}
        BY <2>1 DEF DurableWrite, TypeOK
    <2>4. \/ row' = [row EXCEPT ![i] = r] /\ At(i, "send", h[i].rail, FALSE)
          \/ ReturnToHuman(i, ClearUnconfirmedTx(r))
        BY <2>1
    <2> HIDE DEF r
    <2>5. row'[j] = row[j] /\ h'[j] = h[j]
        BY <2>4, EndOthers DEF At, TypeOK
    <2>6. QED
        BY <2>2, <2>3, <2>5
<1>5. CASE SendTransaction(i)
    <2>1. UNCHANGED disk /\ pay'[j] = pay[j]
        BY <1>5 DEF SendTransaction, TypeOK
    <2>2. \/ At(i, "wait", h[i].rail, FALSE) /\ UNCHANGED row
          \/ Continue(i, RailAfterVault(i), ClearUnconfirmedTx(row[i]))
          \/ ReturnToHuman(i, ClearUnconfirmedTx(row[i]))
        BY <1>5 DEF SendTransaction
    <2>3. row'[j] = row[j] /\ h'[j] = h[j]
        BY <2>2, EndOthers DEF At, TypeOK
    <2>4. QED
        BY <2>1, <2>3
<1>6. CASE ReceiptAnswered(i)
    <2>1. UNCHANGED <<disk, pay>>
        BY <1>6 DEF ReceiptAnswered
    <2>2. \/ HoldUnconfirmed(i)
          \/ ReturnToHuman(i, ClearUnconfirmedTx(row[i]))
          \/ /\ row' = [row EXCEPT ![i] = ClearUnconfirmedTx(row[i])]
             /\ At(i, "label", "vault", FALSE)
          \/ RecordSettled(i, row[i])
        BY <1>6 DEF ReceiptAnswered
    <2>3. row'[j] = row[j] /\ h'[j] = h[j]
        BY <2>2, EndOthers DEF At, TypeOK
    <2>4. QED
        BY <2>1, <2>3
<1>7. CASE ReadSessionKeyBound(i)
    BY <1>7, EndOthers DEF ReadSessionKeyBound
<1>8. CASE NoteCircleKey(i)
    <2>1. PICK n \in Tries, saved \in BOOLEAN :
            LET r == [row[i] EXCEPT !.key = n] IN
            /\ pay' = pay \/ pay' = [pay EXCEPT ![i][n] = "noted"]
            /\ DurableWrite([row EXCEPT ![i] = r], saved)
            /\ \/ row' = [row EXCEPT ![i] = r] /\ At(i, "send", "circle", row[i].key # 0)
               \/ ReturnToHuman(i, row[i])
        BY <1>8 DEF NoteCircleKey
    <2> DEFINE r == [row[i] EXCEPT !.key = n]
    <2>2. pay'[j] = pay[j]
        BY <2>1 DEF TypeOK
    <2>3. disk'.row[j] \in {disk.row[j], row[j]}
        BY <2>1 DEF DurableWrite, TypeOK
    <2>4. \/ row' = [row EXCEPT ![i] = r] /\ At(i, "send", "circle", row[i].key # 0)
          \/ ReturnToHuman(i, row[i])
        BY <2>1
    <2> HIDE DEF r
    <2>5. row'[j] = row[j] /\ h'[j] = h[j]
        BY <2>4, EndOthers DEF At, TypeOK
    <2>6. QED
        BY <2>2, <2>3, <2>5
<1>9. CASE CircleCreate(i)
    <2>1. UNCHANGED disk /\ pay'[j] = pay[j]
        BY <1>9 DEF CircleCreate, CircleTakes, TypeOK
    <2>2. \/ At(i, "wait", "circle", h[i].resumed) /\ UNCHANGED row
          \/ HoldCircle(i, FALSE)
          \/ Continue(i, RailAfterCircle(i), CloseOpenSettlement(row[i]))
        BY <1>9 DEF CircleCreate
    <2>3. row'[j] = row[j] /\ h'[j] = h[j]
        BY <2>2, EndOthers DEF At, TypeOK
    <2>4. QED
        BY <2>1, <2>3
<1>10. CASE CirclePolled(i)
    <2>1. UNCHANGED <<disk, pay>>
        BY <1>10 DEF CirclePolled
    <2>2. \/ HoldCircle(i, TRUE)
          \/ RecordSettled(i, row[i])
          \/ ReturnToHuman(i, CloseOpenSettlement(row[i]))
          \/ ReturnHeld(i, row[i])
          \/ Continue(i, RailAfterCircle(i), CloseOpenSettlement(row[i]))
        BY <1>10 DEF CirclePolled
    <2>3. row'[j] = row[j] /\ h'[j] = h[j]
        BY <2>2, EndOthers
    <2>4. QED
        BY <2>1, <2>3
<1>11. QED
    BY <1>1, <1>2, <1>3, <1>4, <1>5, <1>6, <1>7, <1>8, <1>9, <1>10 DEF Handle

LEMMA AgentFixed == [Next]_vars => agent' = agent
    BY DEF Next, vars, Request, CreateInstruction, ApproveInstruction, RejectInstruction,
       ExecuteInstruction, Handle, RejectAnswered, ExecuteAnswered, NothingSent,
       NoteTransaction, SendTransaction, ReceiptAnswered, ReadSessionKeyBound, NoteCircleKey,
       CircleCreate, CirclePolled, Settle, Flush, Restart, Midnight

LEMMA StorageKnowsRows ==
    ASSUME TypeOK
    PROVE  StorageKnowsPayments <=> \A i \in Ix : Knows(disk.row[i], pay[i])
    BY Zenon DEF StorageKnowsPayments, Knows, Live

LEMMA StepInv ==
    ASSUME SettlementInv, [Next]_vars, Restart => StorageKnowsPayments
    PROVE  SettlementInv'
<1>1. TypeOK /\ \A j \in Ix : InvAt(j)
    BY DEF SettlementInv, InvAt
<1>2. TypeOK'
    BY <1>1, TypeStep
<1>3. agent' = agent
    BY AgentFixed
<1>4. ASSUME NEW j \in Ix PROVE InvAfter(j)
    <2>1. ASSUME NEW i \in Ix, Request(i) \/ Handle(i) PROVE InvAfter(j)
        <3>1. CASE i = j
            BY <1>1, <2>1, <3>1, HandleInv
        <3>2. CASE i # j
            BY <1>1, <2>1, <3>2, RequestOthers, HandleOthers, Frame
        <3>3. QED
            BY <3>1, <3>2
    <2>2. ASSUME NEW i \in Ix, NEW n \in Tries, Settle(i, n) PROVE InvAfter(j)
        <3>1. CASE i = j
            BY <1>1, <2>2, <3>1, SettleInv
        <3>2. CASE i # j
            <4>1. /\ row'[j] = row[j] /\ h'[j] = h[j] /\ pay'[j] = pay[j]
                  /\ disk'.row[j] = disk.row[j]
                BY <1>1, <2>2, <3>2 DEF Settle, TypeOK
            <4>2. QED
                BY <1>1, <4>1, Frame
        <3>3. QED
            BY <3>1, <3>2
    <2>3. CASE Flush
        <3>1. /\ row'[j] = row[j] /\ h'[j] = h[j] /\ pay'[j] = pay[j]
              /\ disk'.row[j] \in {disk.row[j], row[j]}
            BY <2>3 DEF Flush
        <3>2. QED
            BY <1>1, <3>1, Frame
    <2>4. CASE Restart
        <3>1. Knows(disk.row[j], pay[j])
            BY <1>1, <2>4, StorageKnowsRows
        <3>2. QED
            BY <1>1, <2>4, <3>1, RestartInv
    <2>5. CASE Midnight \/ UNCHANGED vars
        <3>1. row' = row /\ h' = h /\ pay' = pay /\ disk' = disk
            BY <2>5 DEF Midnight, vars
        <3>2. QED
            BY <1>1, <3>1, Frame
    <2>6. QED
        BY <2>1, <2>2, <2>3, <2>4, <2>5 DEF Next
<1>5. ASSUME NEW j \in Ix PROVE InvAt(j)'
    BY <1>3, <1>4, PrimeInv
<1>6. QED
    BY <1>2, <1>5 DEF SettlementInv, InvAt

-----------------------------------------------------------------------------
(* What storage knows, while nothing is saved inside a vault's label read. *)
NoSaveInLabelRead == \A i \in Ix : h[i].stage = "label" => disk'.row[i] = disk.row[i]

Unsettled == Authorized \cup {"pending_approval", "executed_simulated"}

(* A row that is not at its end names each of its payments that may move   *)
(* money, and storage names them with it.                                  *)
LEMMA NamedIsKnown ==
    ASSUME NEW i \in Ix, InvAfter(i), h'[i].stage # "label", row'[i].status \in Unsettled
    PROVE  Knows(disk'.row[i], pay'[i])
<1>1. Knows(row'[i], pay'[i]) /\ ~row'[i].gaveUp /\ row'[i].status # "executed_onchain"
    BY DEF InvAfter, InvOf, RowOk, Unsettled, Authorized
<1>2. \A n \in LiveIn(pay'[i]) : n # 0 /\ (n = row'[i].tx \/ n = row'[i].key)
    BY <1>1, TryNumbers DEF Knows, LiveIn
<1>3. QED
    BY <1>2 DEF InvAfter, InvOf, Knows

LEMMA EndsUnsettled ==
    ASSUME TypeOK, NEW i \in Ix, NEW r \in Row, NEW rail, NEW known \in BOOLEAN,
           \/ ReturnToHuman(i, r)
           \/ r.status \in Authorized /\ Continue(i, rail, r)
           \/ HoldCircle(i, known)
    PROVE  row'[i].status \in Unsettled /\ h'[i].stage # "label"
<1>1. CASE ReturnToHuman(i, r)
    <2> DEFINE q == Returned(r)
    <2>1. q.status = "pending_approval"
        BY ReturnedFields
    <2>2. row'[i] = q /\ h'[i] = Idle
        BY <1>1 DEF ReturnToHuman, Update, Release, TypeOK
    <2>3. QED
        BY <2>1, <2>2 DEF Unsettled, Idle
<1>2. CASE r.status \in Authorized /\ Continue(i, rail, r)
    <2>1. CASE row' = [row EXCEPT ![i] = r] /\ At(i, "try", rail, FALSE)
        BY <1>2, <2>1 DEF Unsettled, At, TypeOK
    <2>2. CASE Update(i, [r EXCEPT !.status = "executed_simulated"], counter) /\ Release(i)
        <3>1. row'[i].status = "executed_simulated" /\ h'[i] = Idle
            BY <2>2 DEF Update, Release, TypeOK, Row
        <3>2. QED
            BY <3>1 DEF Unsettled, Idle
    <2>3. QED
        BY <1>1, <1>2, <2>1, <2>2 DEF Continue
<1>3. CASE HoldCircle(i, known)
    <2> DEFINE z == HoldSettlement(row[i])
               q == [z EXCEPT !.keyTx = @ \/ known, !.at = IF @ = 0 THEN day ELSE @]
    <2>1. z \in Row /\ z.status = "pending_approval"
        BY HoldFields DEF TypeOK
    <2>2. row'[i] = q /\ h'[i] = Idle
        BY <1>3 DEF HoldCircle, Update, Release, TypeOK
    <2> HIDE DEF z
    <2>3. q.status = "pending_approval"
        BY <2>1, SMT DEF Row
    <2> HIDE DEF q
    <2>4. QED
        BY <2>2, <2>3 DEF Unsettled, Idle
<1>4. QED
    BY <1>1, <1>2, <1>3

LEMMA HandlersKeepKnown ==
    ASSUME TypeOK, NEW i \in Ix, InvAt(i), InvAfter(i), Request(i) \/ Handle(i),
           Knows(disk.row[i], pay[i])
    PROVE  Knows(disk'.row[i], pay'[i])
<1>1. row[i] \in Row /\ (h[i].stage \in {"try", "send"} => row[i].status \in Authorized)
    BY DEF TypeOK, InvAt, InvOf, HandlerOk
<1>2. CASE NoteTransaction(i)
    <2>1. PICK n \in Tries :
            LET r == [row[i] EXCEPT !.tx = n, !.at = day] IN
            \/ row' = [row EXCEPT ![i] = r] /\ At(i, "send", h[i].rail, FALSE)
            \/ ReturnToHuman(i, ClearUnconfirmedTx(r))
        BY <1>2 DEF NoteTransaction
    <2> DEFINE r == [row[i] EXCEPT !.tx = n, !.at = day]
    <2>2. r \in Row /\ r.status = row[i].status
        <3>1. n \in 0..MaxTries
            BY ConstantsAssumption DEF Tries
        <3>2. r \in Row
            BY <1>1, <3>1, DayOfRow, Zenon DEF Row, TypeOK
        <3>3. QED
            BY <1>1, <3>2 DEF Row
    <2>3. \/ row' = [row EXCEPT ![i] = r] /\ At(i, "send", h[i].rail, FALSE)
          \/ ReturnToHuman(i, ClearUnconfirmedTx(r))
        BY <2>1
    <2> HIDE DEF r
    <2>4. ClearUnconfirmedTx(r) \in Row
        BY <2>2, ClearFields
    <2>5. CASE row' = [row EXCEPT ![i] = r] /\ At(i, "send", h[i].rail, FALSE)
        <3>1. row'[i] = r /\ h'[i].stage = "send"
            BY <2>5 DEF At, TypeOK
        <3>2. QED
            BY <1>1, <1>2, <2>2, <3>1, NamedIsKnown DEF NoteTransaction, Unsettled
    <2>6. CASE ReturnToHuman(i, ClearUnconfirmedTx(r))
        BY <2>4, <2>6, EndsUnsettled, NamedIsKnown
    <2>7. QED
        BY <2>3, <2>5, <2>6
<1>3. CASE SendTransaction(i)
    <2> DEFINE r == ClearUnconfirmedTx(row[i])
    <2>1. r \in Row /\ r.status \in Authorized
        BY <1>1, <1>3, ClearFields DEF SendTransaction
    <2>2. \/ At(i, "wait", h[i].rail, FALSE) /\ row' = row
          \/ Continue(i, RailAfterVault(i), r)
          \/ ReturnToHuman(i, r)
        BY <1>3 DEF SendTransaction
    <2> HIDE DEF r
    <2>3. CASE At(i, "wait", h[i].rail, FALSE) /\ row' = row
        BY <1>1, <1>3, <2>3, NamedIsKnown DEF SendTransaction, At, TypeOK, Unsettled
    <2>4. CASE Continue(i, RailAfterVault(i), r) \/ ReturnToHuman(i, r)
        BY <2>1, <2>4, EndsUnsettled, NamedIsKnown
    <2>5. QED
        BY <2>2, <2>3, <2>4
<1>4. CASE NoteCircleKey(i)
    <2>1. PICK n \in Tries :
            LET r == [row[i] EXCEPT !.key = n] IN
            \/ row' = [row EXCEPT ![i] = r] /\ At(i, "send", "circle", row[i].key # 0)
            \/ ReturnToHuman(i, row[i])
        BY <1>4 DEF NoteCircleKey
    <2>2. CASE row' = [row EXCEPT ![i] = [row[i] EXCEPT !.key = n]]
               /\ At(i, "send", "circle", row[i].key # 0)
        <3>1. row'[i].status = row[i].status /\ h'[i].stage = "send"
            BY <2>2 DEF At, TypeOK, Row
        <3>2. QED
            BY <1>1, <1>4, <3>1, NamedIsKnown DEF NoteCircleKey, Unsettled
    <2>3. CASE ReturnToHuman(i, row[i])
        BY <1>1, <2>3, EndsUnsettled, NamedIsKnown
    <2>4. QED
        BY <2>1, <2>2, <2>3
<1>5. CASE CircleCreate(i)
    <2> DEFINE r == CloseOpenSettlement(row[i])
    <2>1. r \in Row /\ r.status \in Authorized
        BY <1>1, <1>5, CloseFields DEF CircleCreate
    <2>2. \/ At(i, "wait", "circle", h[i].resumed) /\ row' = row
          \/ HoldCircle(i, FALSE)
          \/ Continue(i, RailAfterCircle(i), r)
        BY <1>5 DEF CircleCreate
    <2> HIDE DEF r
    <2>3. CASE At(i, "wait", "circle", h[i].resumed) /\ row' = row
        BY <1>1, <1>5, <2>3, NamedIsKnown DEF CircleCreate, At, TypeOK, Unsettled
    <2>4. CASE HoldCircle(i, FALSE) \/ Continue(i, RailAfterCircle(i), r)
        BY <2>1, <2>4, EndsUnsettled, NamedIsKnown
    <2>5. QED
        BY <2>2, <2>3, <2>4
<1>6. CASE UNCHANGED <<pay, disk>>
    BY <1>6
<1>7. QED
    BY <1>2, <1>3, <1>4, <1>5, <1>6
    DEF Request, CreateInstruction, ApproveInstruction, RejectInstruction, ExecuteInstruction,
        Handle, RejectAnswered, ExecuteAnswered, NothingSent, ReceiptAnswered,
        ReadSessionKeyBound, CirclePolled

LEMMA SettleKeepsKnown ==
    ASSUME TypeOK, NEW i \in Ix, NEW n \in Tries, Settle(i, n), Knows(disk.row[i], pay[i])
    PROVE  Knows(disk'.row[i], pay'[i])
<1>1. /\ disk' = disk /\ pay[i] \in [Tries -> Payment]
      /\ pay[i][n] \in {"sent", "noted"}
      /\ \E s \in {"landed", "void"} :
            /\ pay'[i] = [pay[i] EXCEPT ![n] = s]
            /\ s = "landed" => pay[i][n] = "sent"
    BY DEF Settle, TypeOK
<1>2. LiveIn(pay'[i]) \subseteq LiveIn(pay[i])
    BY <1>1 DEF LiveIn
<1>3. QED
    BY <1>1, <1>2 DEF Knows

LEMMA KnownStep ==
    ASSUME SettlementInv, StorageKnowsPayments, [Next]_vars, NoSaveInLabelRead
    PROVE  StorageKnowsPayments'
<1>1. TypeOK /\ \A j \in Ix : InvAt(j) /\ Knows(disk.row[j], pay[j])
    BY StorageKnowsRows DEF SettlementInv, InvAt
<1>2. SettlementInv'
    BY StepInv
<1>3. TypeOK' /\ \A j \in Ix : InvAfter(j)
    BY <1>2, AgentFixed DEF SettlementInv, InvAfter, InvOf, RowOk, HandlerOk, StoredOk,
       Knows, LiveIn, HasOpenSettlement
<1>4. ASSUME NEW j \in Ix PROVE Knows(disk'.row[j], pay'[j])
    <2>1. CASE pay'[j] = pay[j] /\ disk'.row[j] \in {disk.row[j], row[j]}
        <3>1. h[j].stage # "label" => Knows(row[j], pay[j])
            BY <1>1 DEF InvAt, InvOf
        <3>2. h[j].stage = "label" => disk'.row[j] = disk.row[j]
            BY DEF NoSaveInLabelRead
        <3>3. QED
            BY <1>1, <2>1, <3>1, <3>2
    <2>2. ASSUME NEW i \in Ix, Request(i) \/ Handle(i) PROVE Knows(disk'.row[j], pay'[j])
        <3>1. CASE i = j
            BY <1>1, <1>3, <2>2, <3>1, HandlersKeepKnown
        <3>2. CASE i # j
            BY <1>1, <2>1, <2>2, <3>2, RequestOthers, HandleOthers
        <3>3. QED
            BY <3>1, <3>2
    <2>3. ASSUME NEW i \in Ix, NEW n \in Tries, Settle(i, n) PROVE Knows(disk'.row[j], pay'[j])
        <3>1. CASE i = j
            BY <1>1, <2>3, <3>1, SettleKeepsKnown
        <3>2. CASE i # j
            BY <1>1, <2>1, <2>3, <3>2 DEF Settle, TypeOK
        <3>3. QED
            BY <3>1, <3>2
    <2>4. CASE Flush \/ Restart \/ Midnight \/ UNCHANGED vars
        BY <2>1, <2>4 DEF Flush, Restart, Midnight, vars
    <2>5. QED
        BY <2>2, <2>3, <2>4 DEF Next
<1>5. ASSUME NEW j \in Ix PROVE Knows(disk.row[j], pay[j])'
    BY <1>4 DEF Knows, LiveIn
<1>6. QED
    BY <1>5, Zenon DEF StorageKnowsPayments, Knows, Live

-----------------------------------------------------------------------------
(* The theorems. What a restart needs is a document that knows of every    *)
(* payment. Only a save inside the label read of a vault's payment, after  *)
(* its hash left the row and before it is recorded, makes one that does    *)
(* not: agents without a vault have no such read.                          *)
SafeRestarts == [][Restart => StorageKnowsPayments]_vars

Careful == \/ [][Restart => agent.vault = "none"]_vars
           \/ [][NoSaveInLabelRead]_vars

(* SettlementInv holds first and every step keeps it but an unsafe restart. *)
THEOREM SettlementInvariant == Spec /\ SafeRestarts => []SettlementInv
<1>1. Init => SettlementInv
    BY InitInv
<1>2. SettlementInv /\ [Next]_vars /\ [Restart => StorageKnowsPayments]_vars => SettlementInv'
    <2> SUFFICES ASSUME SettlementInv, [Next]_vars, [Restart => StorageKnowsPayments]_vars
                 PROVE  SettlementInv'
        OBVIOUS
    <2>1. Restart => StorageKnowsPayments \/ crashes' = crashes
        BY DEF vars
    <2>2. ~(Restart /\ crashes' = crashes)
        BY DEF Restart, SettlementInv, TypeOK
    <2>3. QED
        BY <2>1, <2>2, StepInv
<1>3. QED
    BY <1>1, <1>2, PTL DEF Spec, SafeRestarts

LEMMA InitKnown == Init => StorageKnowsPayments
    BY DEF Init, StorageKnowsPayments, Live, LiveIn

(* While nothing is saved inside a label read, and for agents without a    *)
(* vault whenever, storage knows every payment that landed or may land.    *)
THEOREM SavedOutsideLabelRead ==
    Spec /\ [][NoSaveInLabelRead]_vars => []StorageKnowsPayments /\ SafeRestarts
<1> DEFINE Inv == SettlementInv /\ StorageKnowsPayments
<1>1. Init => Inv
    BY InitInv, InitKnown
<1>2. Inv /\ [Next]_vars /\ [NoSaveInLabelRead]_vars => Inv'
    <2> SUFFICES ASSUME Inv, [Next]_vars, [NoSaveInLabelRead]_vars PROVE Inv'
        OBVIOUS
    <2>1. NoSaveInLabelRead
        BY DEF vars, NoSaveInLabelRead
    <2>2. QED
        BY <2>1, StepInv, KnownStep
<1>3. Inv => StorageKnowsPayments /\ (Restart => StorageKnowsPayments)
    OBVIOUS
<1>4. QED
    BY <1>1, <1>2, <1>3, PTL DEF Spec, SafeRestarts

LEMMA NoVaultNoLabelRead ==
    ASSUME SettlementInv, agent.vault = "none"
    PROVE  NoSaveInLabelRead
    BY DEF SettlementInv, InvOf, StoredOk, NoSaveInLabelRead

LEMMA NoVaultKnown ==
    Spec /\ [][Restart => agent.vault = "none"]_vars
        => [](SettlementInv /\ (agent.vault = "none" => StorageKnowsPayments))
<1> DEFINE Inv == SettlementInv /\ (agent.vault = "none" => StorageKnowsPayments)
<1>1. Init => Inv
    BY InitInv, InitKnown
<1>2. Inv /\ [Next]_vars /\ [Restart => agent.vault = "none"]_vars => Inv'
    <2> SUFFICES ASSUME Inv, [Next]_vars, [Restart => agent.vault = "none"]_vars PROVE Inv'
        OBVIOUS
    <2>1. ~(Restart /\ UNCHANGED vars)
        BY DEF Restart, SettlementInv, TypeOK, vars
    <2>2. SettlementInv'
        BY <2>1, StepInv
    <2>3. agent' = agent
        BY AgentFixed
    <2>4. ASSUME agent.vault = "none" PROVE StorageKnowsPayments'
        BY <2>4, NoVaultNoLabelRead, KnownStep
    <2>5. QED
        BY <2>2, <2>3, <2>4
<1>3. QED
    BY <1>1, <1>2, PTL DEF Spec

(* Without a vault a restart at any moment, from whatever was saved, reads *)
(* a payment before it sends another.                                      *)
THEOREM StorageKnows ==
    ASSUME \A a \in Agents : a.vault = "none"
    PROVE  Spec => []StorageKnowsPayments
<1>1. SettlementInv => agent.vault = "none"
    BY DEF SettlementInv, TypeOK
<1>2. Spec => [][Restart => agent.vault = "none"]_vars
    <2>1. TypeOK => (Restart => agent.vault = "none")
        BY DEF TypeOK
    <2>2. QED
        BY <2>1, TypeCorrect, PTL
<1>3. QED
    BY <1>1, <1>2, NoVaultKnown, PTL

(* Either care makes the restarts safe.                                    *)
THEOREM CarefulIsSafe == Spec /\ Careful => SafeRestarts
<1>1. Spec /\ [][Restart => agent.vault = "none"]_vars => SafeRestarts
    <2> DEFINE Inv == SettlementInv /\ (agent.vault = "none" => StorageKnowsPayments)
    <2>1. Inv /\ [Restart => agent.vault = "none"]_vars
            => [Restart => StorageKnowsPayments]_vars
        OBVIOUS
    <2>2. QED
        BY <2>1, NoVaultKnown, PTL DEF SafeRestarts
<1>2. QED
    BY <1>1, SavedOutsideLabelRead, PTL DEF Careful

(* However many instructions, payments, days and restarts there are, and   *)
(* whatever the rails answer, one instruction moves money at most once.    *)
THEOREM PaysOnce == Spec /\ Careful => []PaysAtMostOnce
<1>1. SettlementInv => PaysAtMostOnce
    BY DEF SettlementInv, InvOf, PaysAtMostOnce, Live
<1>2. QED
    BY <1>1, SettlementInvariant, CarefulIsSafe, PTL

(* The record of an instruction is true of its payments.                   *)
THEOREM RecordsAreTrue == Spec /\ Careful => []RecordIsTrue
<1>1. SettlementInv => RecordIsTrue
    <2> SUFFICES ASSUME SettlementInv, NEW i \in Ix
                 PROVE  LET r == row[i] IN
                        /\ r.status = "executed_onchain" => \E n \in Tries : pay[i][n] = "landed"
                        /\ \/ r.status = "executed_simulated"
                           \/ r.status = "rejected" /\ ~r.gaveUp
                           \/ r.status = "pending_approval" /\ ~HasOpenSettlement(r)
                           => Live(i) = {}
        BY DEF RecordIsTrue
    <2>1. /\ RowOk(row[i], pay[i]) /\ HandlerOk(row[i], h[i], pay[i])
          /\ h[i].stage # "label" => Knows(row[i], pay[i])
        BY DEF SettlementInv, InvOf
    <2>2. row[i].status = "executed_onchain" => \E n \in Tries : pay[i][n] = "landed"
        BY <2>1 DEF RowOk
    <2>3. ASSUME \/ row[i].status = "executed_simulated"
                 \/ row[i].status = "rejected" /\ ~row[i].gaveUp
                 \/ row[i].status = "pending_approval" /\ ~HasOpenSettlement(row[i])
          PROVE  Live(i) = {}
        <3>1. row[i].tx = 0 /\ row[i].key = 0 /\ ~row[i].gaveUp
            BY <2>1, <2>3 DEF RowOk, HasOpenSettlement
        <3>2. h[i].stage # "label"
            BY <2>1, <2>3 DEF HandlerOk, Authorized
        <3>3. QED
            BY <2>1, <2>3, <3>1, <3>2, TryNumbers DEF Knows, Live, LiveIn
    <2>4. QED
        BY <2>2, <2>3
<1>2. QED
    BY <1>1, SettlementInvariant, CarefulIsSafe, PTL

(* A claim is given back only when nothing of the payment is left.         *)
LEMMA InvCountsMoney == SettlementInv => MoneyIsCounted
<1> SUFFICES ASSUME SettlementInv, NEW i \in Ix, Live(i) # {} PROVE row[i].claim # 0
    BY DEF MoneyIsCounted
<1>1. /\ RowOk(row[i], pay[i]) /\ HandlerOk(row[i], h[i], pay[i])
      /\ h[i].stage # "label" => Knows(row[i], pay[i])
    BY DEF SettlementInv, InvOf
<1>2. CASE h[i].stage = "label"
    BY <1>1, <1>2 DEF RowOk, HandlerOk, Authorized
<1>3. CASE h[i].stage # "label"
    <2>1. PICK n \in Tries : n \in LiveIn(pay[i])
        BY DEF Live, LiveIn
    <2>2. QED
        BY <1>1, <1>3, <2>1, TryNumbers DEF Knows, RowOk, HasOpenSettlement
<1>4. QED
    BY <1>2, <1>3

(* Money that moved or may still move keeps its claim on a day's cap.      *)
THEOREM MoneyCounted == Spec /\ Careful => []MoneyIsCounted
    BY InvCountsMoney, SettlementInvariant, CarefulIsSafe, PTL

-----------------------------------------------------------------------------
(* Sums of amounts. The sum of the model is a recursive function on the     *)
(* subsets of a set: it exists, and adds up in any order.                   *)

Total(S) == MapThenSumSet(LAMBDA i : Amount[i], S)

Pick(s) == CHOOSE x \in s : TRUE

Step(g, s) == IF s = {} THEN 0 ELSE Amount[Pick(s)] + g[s \ {Pick(s)}]

Adds(g, S) == g = [s \in SUBSET S |-> Step(g, s)]

Sum(S) == CHOOSE g : Adds(g, S)

LEMMA TotalIsSum == \A S : Total(S) = Sum(S)[S]
  BY DEF Total, MapThenSumSet, MapThenFoldSet, Adds, Sum, Step, Pick

(* Every family of sets of instructions has a least one.                    *)
LEMMA LeastSet ==
    ASSUME NEW B \in SUBSET SUBSET Ix, B # {}
    PROVE  \E s \in B : \A t \in B : t \subseteq s => t = s
<1>1. B \subseteq FiniteSubsetsOf(Ix)
  BY ConstantsAssumption, FS_Subset DEF FiniteSubsetsOf
<1>2. PICK s \in B : \A t \in B : <<t, s>> \notin StrictSubsetOrdering(Ix)
  BY <1>1, WFMin, FS_StrictSubsetOrderingWellFounded
<1>3. \A t \in B : t \subseteq s /\ t # s => <<t, s>> \in StrictSubsetOrdering(Ix)
  BY DEF StrictSubsetOrdering
<1>4. ASSUME NEW t \in B, t \subseteq s, t # s PROVE FALSE
  BY <1>2, <1>3, <1>4
<1> QED
  BY <1>4

LEMMA PickIn == \A s : s # {} => Pick(s) \in s
  BY DEF Pick

LEMMA SumsAgree ==
    ASSUME NEW S \in SUBSET Ix, NEW T \in SUBSET Ix, NEW g, NEW k,
           Adds(g, S), Adds(k, T), NEW s \in SUBSET (S \cap T)
    PROVE  g[s] = k[s]
<1> DEFINE Bad == {t \in SUBSET (S \cap T) : g[t] # k[t]}
<1> SUFFICES ASSUME Bad # {} PROVE FALSE
  OBVIOUS
<1>1. PICK t \in Bad : \A u \in Bad : u \subseteq t => u = t
  <2>1. Bad \in SUBSET SUBSET Ix
    OBVIOUS
  <2> HIDE DEF Bad
  <2> QED
    BY <2>1, LeastSet
<1>2. g[t] = Step(g, t) /\ k[t] = Step(k, t)
  BY DEF Adds
<1>3. CASE t = {}
  BY <1>2, <1>3 DEF Step
<1>4. CASE t # {}
  <2> DEFINE u == t \ {Pick(t)}
  <2>1. u # t /\ u \subseteq t /\ u \in SUBSET (S \cap T)
    BY <1>4, PickIn
  <2>2. g[u] = k[u]
    BY <1>1, <2>1
  <2> QED
    BY <1>2, <1>4, <2>2 DEF Step
<1> QED
  BY <1>3, <1>4

LEMMA SumExists == ASSUME NEW S \in SUBSET Ix PROVE Adds(Sum(S), S)
<1> DEFINE Bad == {T \in SUBSET Ix : ~Adds(Sum(T), T)}
<1> SUFFICES ASSUME Bad # {} PROVE FALSE
  OBVIOUS
<1>1. PICK T \in Bad : \A u \in Bad : u \subseteq T => u = T
  <2>1. Bad \in SUBSET SUBSET Ix
    OBVIOUS
  <2> HIDE DEF Bad
  <2> QED
    BY <2>1, LeastSet
<1>2. \A u \in SUBSET T : u # T => Adds(Sum(u), u)
  BY <1>1
<1> DEFINE g == [s \in SUBSET T |-> IF s = {} THEN 0
                    ELSE Amount[Pick(s)] + Sum(s \ {Pick(s)})[s \ {Pick(s)}]]
<1>3. ASSUME NEW t \in SUBSET T, t # T PROVE g[t] = Sum(t)[t]
  <2>1. Adds(Sum(t), t)
    BY <1>2, <1>3
  <2>2. Sum(t)[t] = Step(Sum(t), t)
    BY <2>1 DEF Adds
  <2>3. CASE t = {}
    BY <2>2, <2>3 DEF Step
  <2>4. CASE t # {}
    <3> DEFINE u == t \ {Pick(t)}
    <3>1. u \subseteq t /\ u # T /\ u \in SUBSET T /\ u \in SUBSET Ix /\ t \in SUBSET Ix
      BY <1>3, <2>4, PickIn
    <3>2. Adds(Sum(u), u)
      BY <1>2, <3>1
    <3>3. Sum(t)[u] = Sum(u)[u]
      <4>1. u \in SUBSET (t \cap u)
        BY <3>1
      <4> HIDE DEF u
      <4> QED
        BY <2>1, <3>1, <3>2, <4>1, SumsAgree
    <3> QED
      BY <2>2, <2>4, <3>3 DEF Step
  <2> QED
    BY <2>3, <2>4
<1>4. ASSUME NEW s \in SUBSET T PROVE g[s] = Step(g, s)
  <2>1. CASE s = {}
    BY <2>1 DEF Step
  <2>2. CASE s # {}
    <3>1. s \ {Pick(s)} \in SUBSET T /\ s \ {Pick(s)} # T
      BY <2>2, PickIn
    <3>2. g[s \ {Pick(s)}] = Sum(s \ {Pick(s)})[s \ {Pick(s)}]
      BY <1>3, <3>1
    <3> QED
      BY <2>2, <3>2 DEF Step
  <2> QED
    BY <2>1, <2>2
<1>5. Adds(g, T)
  <2>1. g = [s \in SUBSET T |-> g[s]]
    OBVIOUS
  <2> HIDE DEF g
  <2> QED
    BY <1>4, <2>1 DEF Adds
<1>6. Adds(Sum(T), T)
  <2> HIDE DEF g
  <2> QED
    BY <1>5 DEF Sum
<1> QED
  BY <1>1, <1>6

LEMMA TotalEmpty == Total({}) = 0
<1>1. Adds(Sum({}), {})
  BY SumExists
<1> QED
  BY <1>1, TotalIsSum DEF Adds, Step

LEMMA TotalPick ==
    ASSUME NEW S \in SUBSET Ix, S # {}
    PROVE  Total(S) = Amount[Pick(S)] + Total(S \ {Pick(S)})
<1> DEFINE T == S \ {Pick(S)}
<1>1. T \in SUBSET Ix /\ T \in SUBSET (S \cap T)
  OBVIOUS
<1>2. Adds(Sum(S), S) /\ Adds(Sum(T), T)
  BY <1>1, SumExists
<1>3. Sum(S)[S] = Amount[Pick(S)] + Sum(S)[T]
  BY <1>2 DEF Adds, Step
<1>4. Sum(S)[T] = Sum(T)[T]
  <2> HIDE DEF T
  <2> QED
    BY <1>1, <1>2, SumsAgree
<1> QED
  BY <1>3, <1>4, TotalIsSum

LEMMA TotalType == ASSUME NEW S \in SUBSET Ix PROVE Total(S) \in Nat
<1> DEFINE Bad == {T \in SUBSET Ix : Total(T) \notin Nat}
<1> SUFFICES ASSUME Bad # {} PROVE FALSE
  OBVIOUS
<1>1. PICK T \in Bad : \A u \in Bad : u \subseteq T => u = T
  <2>1. Bad \in SUBSET SUBSET Ix
    OBVIOUS
  <2> HIDE DEF Bad
  <2> QED
    BY <2>1, LeastSet
<1>2. T # {}
  <2>1. Total(T) \notin Nat
    OBVIOUS
  <2> HIDE DEF Bad
  <2> QED
    BY <2>1, TotalEmpty
<1>3. Pick(T) \in T /\ Amount[Pick(T)] \in Nat
  BY <1>2, PickIn, ConstantsAssumption
<1>4. Total(T \ {Pick(T)}) \in Nat
  BY <1>1, <1>3
<1> QED
  BY <1>1, <1>2, <1>3, <1>4, TotalPick

(* One instruction more, or less, whichever it is.                          *)
LEMMA TotalSplit ==
    ASSUME NEW S \in SUBSET Ix, NEW e \in S
    PROVE  Total(S) = Total(S \ {e}) + Amount[e]
<1> DEFINE Bad == {T \in SUBSET Ix : \E x \in T : Total(T) # Total(T \ {x}) + Amount[x]}
<1> SUFFICES ASSUME Bad # {} PROVE FALSE
  OBVIOUS
<1>1. PICK T \in Bad : \A u \in Bad : u \subseteq T => u = T
  <2>1. Bad \in SUBSET SUBSET Ix
    OBVIOUS
  <2> HIDE DEF Bad
  <2> QED
    BY <2>1, LeastSet
<1>2. PICK x \in T : Total(T) # Total(T \ {x}) + Amount[x]
  OBVIOUS
<1> DEFINE y == Pick(T)
           U == (T \ {x}) \ {y}
<1>3. y \in T /\ Amount[x] \in Nat /\ Amount[y] \in Nat
  BY PickIn, ConstantsAssumption
<1>4. Total(T) = Amount[y] + Total(T \ {y})
  BY <1>3, TotalPick
<1>5. /\ Total(T \ {x}) \in Nat /\ Total(T \ {y}) \in Nat /\ Total(U) \in Nat
  BY TotalType
<1>6. x # y
  BY <1>2, <1>3, <1>4, <1>5
<1>7. Total(T \ {x}) = Total(U) + Amount[y]
  <2>1. T \ {x} \notin Bad /\ y \in T \ {x} /\ T \ {x} \in SUBSET Ix
    BY <1>1, <1>3, <1>6
  <2> QED
    BY <2>1
<1>8. Total(T \ {y}) = Total(U) + Amount[x]
  <2>1. T \ {y} \notin Bad /\ x \in T \ {y} /\ T \ {y} \in SUBSET Ix
    BY <1>1, <1>3, <1>6
  <2>2. (T \ {y}) \ {x} = U
    OBVIOUS
  <2> QED
    BY <2>1, <2>2
<1> QED
  <2> HIDE DEF y, U
  <2> QED
    BY <1>2, <1>3, <1>4, <1>5, <1>7, <1>8

LEMMA TotalAdd ==
    ASSUME NEW S \in SUBSET Ix, NEW e \in Ix \ S
    PROVE  Total(S \cup {e}) = Total(S) + Amount[e]
<1>1. S \cup {e} \in SUBSET Ix /\ (S \cup {e}) \ {e} = S
  OBVIOUS
<1> QED
  BY <1>1, TotalSplit

LEMMA TotalMonotone ==
    ASSUME NEW T \in SUBSET Ix, NEW S \in SUBSET T
    PROVE  Total(S) <= Total(T)
<1> DEFINE Bad == {U \in SUBSET Ix : S \subseteq U /\ ~(Total(S) <= Total(U))}
<1> SUFFICES ASSUME Bad # {} PROVE FALSE
  OBVIOUS
<1>1. PICK U \in Bad : \A u \in Bad : u \subseteq U => u = U
  <2>1. Bad \in SUBSET SUBSET Ix
    OBVIOUS
  <2> HIDE DEF Bad
  <2> QED
    BY <2>1, LeastSet
<1>2. S \in SUBSET Ix /\ Total(S) \in Nat
  BY TotalType
<1>3. PICK e \in U : e \notin S
  <2>1. S \subseteq U /\ Total(S) # Total(U)
    BY <1>1, <1>2
  <2> HIDE DEF Bad
  <2> QED
    BY <2>1
<1>4. /\ Total(U) = Total(U \ {e}) + Amount[e]
      /\ Total(U \ {e}) \in Nat /\ Amount[e] \in Nat
  BY TotalSplit, TotalType, ConstantsAssumption
<1>5. Total(S) <= Total(U \ {e})
  BY <1>1, <1>3
<1>6. Total(S) <= Total(U)
  <2> HIDE DEF Bad
  <2> QED
    BY <1>2, <1>4, <1>5
<1> QED
  BY <1>1, <1>6

-----------------------------------------------------------------------------
(* The daily budget. A row's claim is dated no later than its hold, and the *)
(* hold no later than today; what waits for a human holds a claim exactly   *)
(* while it holds a settlement, and what is authorized always does.         *)
ClaimOk(r) ==
    /\ r.claim <= day
    /\ r.status = "none" => r.claim = 0
    /\ r.status = "pending_approval" => (r.heldOn = 0 <=> r.claim = 0)
    /\ r.status \in Authorized => r.claim # 0
    /\ r.heldOn # 0 => r.claim <= r.heldOn /\ r.heldOn <= day

ClaimedOn(rs, d) == {i \in Ix : rs[i].claim = d}

AutoOn(rs, d) == {i \in Ix : rs[i].auto /\ rs[i].claim = d}

(* The rows rs and the counter c balance: today's count is today's claims,  *)
(* and what the policy authorized on a day is within its cap.               *)
Books(rs, c) ==
    /\ c.date <= day
    /\ \A i \in Ix : ClaimOk(rs[i])
    /\ DailySpent(c) = Total(ClaimedOn(rs, day))
    /\ \A d \in Days : Total(AutoOn(rs, d)) <= DailyCap

(* The stages of a handler that executes.                                   *)
Acting == {"read", "try", "send", "wait", "label"}

(* Memory balances, and so does the document that a restart goes back to.   *)
AccountInv ==
    /\ TypeOK
    /\ Books(row, counter)
    /\ Books(disk.row, disk.counter)
    /\ \A i \in Ix : h[i].stage \in Acting => row[i].status \in Authorized

(* One entry in the books of c turns row q of i into r and the counter into *)
(* e: nothing is counted, a claim of today is made, or one is given back;   *)
(* a claim that the policy makes is within the cap.                         *)
Entry(i, q, c, r, e) ==
    /\ ClaimOk(r)
    /\ e.date <= day
    /\ \/ /\ r.claim = day <=> q.claim = day
          /\ DailySpent(e) = DailySpent(c)
       \/ /\ r.claim = day /\ q.claim # day
          /\ DailySpent(e) = DailySpent(c) + Amount[i]
       \/ /\ r.claim # day /\ q.claim = day
          /\ DailySpent(e) = DailySpent(c) - Amount[i]
    /\ \/ r.auto = q.auto /\ r.claim = q.claim
       \/ ~r.auto
       \/ r.claim = 0
       \/ r.claim = day /\ DailySpent(e) <= DailyCap

LEMMA EntryKeepsBooks ==
    ASSUME day \in Days, NEW rs \in [Ix -> Row], NEW c \in Counter, Books(rs, c),
           NEW i \in Ix, NEW r \in Row, NEW e \in Counter, Entry(i, rs[i], c, r, e)
    PROVE  Books([rs EXCEPT ![i] = r], e)
<1> DEFINE z == [rs EXCEPT ![i] = r]
<1>1. z \in [Ix -> Row] /\ z[i] = r /\ \A j \in Ix \ {i} : z[j] = rs[j]
    OBVIOUS
<1> HIDE DEF z
<1>2. \A j \in Ix : ClaimOk(z[j])
    BY <1>1 DEF Books, Entry
<1> DEFINE S == ClaimedOn(rs, day)
           T == ClaimedOn(z, day)
<1>3. S \in SUBSET Ix /\ T \in SUBSET Ix
    BY DEF ClaimedOn
<1>4. DailySpent(c) = Total(S)
    BY DEF Books
<1>5. DailySpent(e) = Total(T)
    <2>1. CASE (r.claim = day <=> rs[i].claim = day) /\ DailySpent(e) = DailySpent(c)
        <3>1. S = T
            BY <1>1, <2>1 DEF ClaimedOn
        <3>2. QED
            BY <1>4, <2>1, <3>1
    <2>2. CASE /\ r.claim = day /\ rs[i].claim # day
               /\ DailySpent(e) = DailySpent(c) + Amount[i]
        <3>1. T = S \cup {i} /\ i \notin S
            BY <1>1, <2>2 DEF ClaimedOn
        <3> HIDE DEF S, T
        <3>2. QED
            BY <1>3, <1>4, <2>2, <3>1, TotalAdd
    <2>3. CASE /\ r.claim # day /\ rs[i].claim = day
               /\ DailySpent(e) = DailySpent(c) - Amount[i]
        <3>1. T = S \ {i} /\ i \in S
            BY <1>1, <2>3 DEF ClaimedOn
        <3> HIDE DEF S, T
        <3>2. Total(S) = Total(T) + Amount[i] /\ Total(T) \in Nat
            BY <1>3, <3>1, TotalSplit, TotalType
        <3>3. QED
            BY <1>4, <2>3, <3>2, AmountType
    <2>4. QED
        BY <2>1, <2>2, <2>3 DEF Entry
<1>6. ASSUME NEW d \in Days PROVE Total(AutoOn(z, d)) <= DailyCap
    <2>1. AutoOn(z, d) \in SUBSET Ix /\ AutoOn(rs, d) \in SUBSET Ix
        BY DEF AutoOn
    <2>2. Total(AutoOn(rs, d)) <= DailyCap
        BY DEF Books
    <2>3. /\ Total(AutoOn(z, d)) \in Nat /\ Total(AutoOn(rs, d)) \in Nat
          /\ Total(T) \in Nat /\ DailyCap \in Nat
        BY <1>3, <2>1, TotalType, ConstantsAssumption
    <2>4. CASE AutoOn(z, d) \subseteq AutoOn(rs, d)
        BY <2>1, <2>2, <2>3, <2>4, TotalMonotone
    <2>5. CASE r.claim = day /\ DailySpent(e) <= DailyCap /\ d = day
        <3>1. AutoOn(z, d) \subseteq T
            BY <2>5 DEF AutoOn, ClaimedOn
        <3>2. Total(AutoOn(z, d)) <= Total(T)
            BY <1>3, <3>1, TotalMonotone
        <3>3. QED
            BY <1>5, <2>3, <2>5, <3>2
    <2>6. CASE ~(AutoOn(z, d) \subseteq AutoOn(rs, d))
        <3>1. PICK j \in AutoOn(z, d) : j \notin AutoOn(rs, d)
            BY <2>6
        <3>2. j = i /\ r.auto /\ r.claim = d /\ ~(rs[i].auto /\ rs[i].claim = d)
            BY <1>1, <3>1 DEF AutoOn
        <3>3. d # 0
            BY DEF Days
        <3>4. QED
            BY <2>5, <3>2, <3>3 DEF Entry
    <2>7. QED
        BY <2>4, <2>6
<1>7. QED
    BY <1>2, <1>5, <1>6 DEF Books, Entry, z

(* A claim of today is in today's count.                                    *)
LEMMA ClaimIsCounted ==
    ASSUME day \in Days, NEW rs \in [Ix -> Row], NEW c \in Counter, Books(rs, c),
           NEW i \in Ix, rs[i].claim = day
    PROVE  c.date = day /\ c.spent >= Amount[i]
<1> DEFINE S == ClaimedOn(rs, day)
<1>1. S \in SUBSET Ix /\ i \in S
    BY DEF ClaimedOn
<1>2. DailySpent(c) = Total(S)
    BY DEF Books
<1> HIDE DEF S
<1>3. Total(S) = Total(S \ {i}) + Amount[i] /\ Total(S \ {i}) \in Nat
    BY <1>1, TotalSplit, TotalType
<1>4. Amount[i] \in Nat \ {0}
    BY ConstantsAssumption
<1>5. QED
    BY <1>2, <1>3, <1>4 DEF DailySpent, Counter

(* The step made one entry in the books, of instruction i.                  *)
Posted(i) == /\ Entry(i, row[i], counter, row'[i], counter')
             /\ h'[i].stage \in Acting => row'[i].status \in Authorized

(* No claim changes, nor the count.                                         *)
LEMMA SameClaim ==
    ASSUME AccountInv, NEW i \in Ix, NEW r \in Row, r.claim = row[i].claim,
           r.auto = row[i].auto, ClaimOk(r)
    PROVE  Entry(i, row[i], counter, r, counter)
    BY DEF AccountInv, Entry, Books

(* A claim is given back, one of today or to a count that has nothing left. *)
LEMMA ClaimReturned ==
    ASSUME AccountInv, NEW i \in Ix, NEW r \in Row, row[i].claim # 0,
           r.claim = 0, ClaimOk(r), NEW e, e = ReverseSpend(counter, Amount[i]),
           row[i].claim = day \/ DailySpent(e) >= DailySpent(counter)
    PROVE  Entry(i, row[i], counter, r, e)
<1>1. counter \in Counter /\ day \in Days /\ row \in [Ix -> Row] /\ Books(row, counter)
    BY DEF AccountInv, TypeOK
<1>2. Amount[i] \in Nat \ {0} /\ day \in Nat \ {0}
    BY <1>1, ConstantsAssumption DEF Days
<1>3. e.date <= day
    BY <1>1 DEF Books, ReverseSpend, Counter
<1>4. CASE row[i].claim = day
    <2>1. counter.date = day /\ counter.spent >= Amount[i]
        BY <1>1, <1>4, ClaimIsCounted
    <2>2. DailySpent(e) = DailySpent(counter) - Amount[i]
        BY <1>1, <2>1 DEF ReverseSpend, DailySpent, Counter
    <2>3. QED
        BY <1>2, <1>3, <1>4, <2>2 DEF Entry
<1>5. CASE row[i].claim # day
    <2>1. DailySpent(e) >= DailySpent(counter)
        BY <1>5
    <2>2. DailySpent(e) = DailySpent(counter)
        BY <1>1, <1>2, <2>1 DEF ReverseSpend, DailySpent, Counter
    <2>3. QED
        BY <1>2, <1>3, <1>5, <2>2 DEF Entry
<1>6. QED
    BY <1>4, <1>5

(* An instruction gives its claim back on the day that was counted, or it   *)
(* leaves today's count alone: finding 4 of the README is a step that does  *)
(* neither.                                                                 *)
InTime(i) == \/ row[i].claim \in {0, day}
             \/ row'[i].claim # 0
             \/ DailySpent(counter') >= DailySpent(counter)

LEMMA AccountFacts ==
    ASSUME AccountInv, NEW i \in Ix
    PROVE  /\ row[i] \in Row /\ counter \in Counter /\ day \in Days /\ ClaimOk(row[i])
           /\ day \in Nat \ {0} /\ counter.date <= day /\ TypeOK
           /\ row[i].claim \in Nat /\ row[i].heldOn \in Nat /\ Amount[i] \in Nat \ {0}
           /\ h[i].stage \in Acting => row[i].status \in Authorized
    BY ConstantsAssumption DEF AccountInv, Books, TypeOK, Days, Row

(* The endings that the handlers share, then the handlers.                  *)
LEMMA Ends ==
    ASSUME AccountInv, NEW i \in Ix, NEW r, NEW c, Update(i, r, c), Release(i),
           Entry(i, row[i], counter, r, c)
    PROVE  Posted(i)
<1>1. row'[i] = r /\ counter' = c /\ h'[i] = Idle
    BY DEF Update, Release, AccountInv, TypeOK
<1>2. QED
    BY <1>1 DEF Posted, Idle, Acting

LEMMA ReturnPosted ==
    ASSUME AccountInv, NEW i \in Ix, NEW r \in Row, ReturnToHuman(i, r),
           row[i].status \in Authorized, InTime(i)
    PROVE  Posted(i)
<1> DEFINE q == Returned(r)
           e == ReverseSpend(counter, Amount[i])
<1>1. q \in Row /\ q.status = "pending_approval" /\ q.heldOn = 0 /\ q.claim = 0
    BY ReturnedFields
<1>2. Update(i, q, e) /\ Release(i)
    BY DEF ReturnToHuman
<1>3. row'[i] = q /\ counter' = e
    BY <1>2 DEF Update, AccountInv, TypeOK
<1> HIDE DEF q, e
<1>4. row[i].claim # 0
    BY AccountFacts DEF ClaimOk
<1>5. ClaimOk(q)
    BY <1>1, AccountFacts DEF ClaimOk, Authorized
<1>6. row[i].claim = day \/ DailySpent(e) >= DailySpent(counter)
    BY <1>1, <1>3, <1>4 DEF InTime
<1>7. Entry(i, row[i], counter, q, e)
    BY <1>1, <1>4, <1>5, <1>6, ClaimReturned DEF e
<1>8. QED
    BY <1>2, <1>7, Ends

LEMMA ReturnHeldPosted ==
    ASSUME AccountInv, NEW i \in Ix, ReturnHeld(i, row[i]),
           row[i].status \in Authorized, InTime(i)
    PROVE  Posted(i)
<1> DEFINE q == Returned(CloseOpenSettlement(row[i]))
           turned == row[i].heldOn # 0 /\ row[i].heldOn # day
           c == IF turned THEN AddSpend(counter, Amount[i]) ELSE counter
           e == ReverseSpend(c, Amount[i])
<1>1. q \in Row /\ q.status = "pending_approval" /\ q.heldOn = 0 /\ q.claim = 0
    BY AccountFacts, CloseFields, ReturnedFields
<1>2. Update(i, q, e) /\ Release(i)
    BY DEF ReturnHeld
<1>3. row'[i] = q /\ counter' = e
    BY <1>2 DEF Update, AccountInv, TypeOK
<1> HIDE DEF q
<1>4. row[i].claim # 0
    BY AccountFacts DEF ClaimOk
<1>5. ClaimOk(q)
    BY <1>1, AccountFacts DEF ClaimOk, Authorized
<1>6. Entry(i, row[i], counter, q, e)
    <2>1. CASE turned
        <3>1. row[i].claim # day
            BY <2>1, AccountFacts DEF ClaimOk
        <3>2. c = [spent |-> DailySpent(counter) + Amount[i], date |-> day]
            BY <2>1 DEF AddSpend
        <3>3. DailySpent(counter) \in Nat
            BY AccountFacts DEF DailySpent, Counter
        <3>4. DailySpent(e) = DailySpent(counter) /\ e.date = day
            <4> HIDE DEF c
            <4>1. QED
                BY <3>2, <3>3, AccountFacts DEF ReverseSpend, DailySpent
        <3>5. QED
            <4> HIDE DEF e
            <4>1. QED
                BY <1>1, <1>5, <3>1, <3>4, AccountFacts DEF Entry
    <2>2. CASE ~turned
        <3>1. e = ReverseSpend(counter, Amount[i])
            BY <2>2
        <3>2. row[i].claim = day \/ DailySpent(e) >= DailySpent(counter)
            BY <1>1, <1>3, <1>4 DEF InTime
        <3> HIDE DEF e
        <3>3. QED
            BY <1>1, <1>4, <1>5, <3>1, <3>2, ClaimReturned
    <2>3. QED
        BY <2>1, <2>2
<1> HIDE DEF e
<1>7. QED
    BY <1>2, <1>6, Ends

LEMMA SettledPosted ==
    ASSUME AccountInv, NEW i \in Ix, NEW r \in Row, RecordSettled(i, r),
           r.claim = row[i].claim, r.auto = row[i].auto, r.heldOn \in {0, row[i].heldOn}
    PROVE  Posted(i)
<1> DEFINE q == Settled(r)
<1>1. /\ q \in Row /\ q.status = "executed_onchain" /\ q.heldOn = r.heldOn
      /\ q.claim = r.claim /\ q.auto = r.auto
    BY SettledFields
<1>2. Update(i, q, counter) /\ Release(i)
    BY DEF RecordSettled
<1> HIDE DEF q
<1>3. ClaimOk(q)
    BY <1>1, AccountFacts DEF ClaimOk, Authorized
<1>4. Entry(i, row[i], counter, q, counter)
    BY <1>1, <1>3, SameClaim
<1>5. QED
    BY <1>2, <1>4, Ends

LEMMA LandedPosted ==
    ASSUME AccountInv, NEW i \in Ix, RecordLanded(i, row[i])
    PROVE  Posted(i)
<1> DEFINE r == [row[i] EXCEPT !.heldOn = 0]
<1>1. r \in Row
    BY Unset, AccountFacts, Zenon DEF Row
<1>2. r.claim = row[i].claim /\ r.auto = row[i].auto /\ r.heldOn = 0
    BY AccountFacts DEF Row
<1>3. RecordSettled(i, r)
    BY DEF RecordLanded
<1> HIDE DEF r
<1>4. QED
    BY <1>1, <1>2, <1>3, SettledPosted

LEMMA ContinuePosted ==
    ASSUME AccountInv, NEW i \in Ix, NEW r \in Row, NEW rail, Continue(i, rail, r),
           row[i].status \in Authorized, InTime(i), r.status = row[i].status,
           r.claim = row[i].claim, r.auto = row[i].auto, r.heldOn = row[i].heldOn
    PROVE  Posted(i)
<1>1. ClaimOk(r)
    BY AccountFacts DEF ClaimOk
<1>2. CASE /\ row' = [row EXCEPT ![i] = r]
           /\ UNCHANGED counter
    <2>1. row'[i] = r
        BY <1>2 DEF AccountInv, TypeOK
    <2>2. QED
        BY <1>1, <1>2, <2>1, SameClaim DEF Posted
<1>3. CASE ReturnToHuman(i, r)
    BY <1>3, ReturnPosted
<1>4. CASE /\ Update(i, [r EXCEPT !.status = "executed_simulated"], counter)
           /\ Release(i)
    <2> DEFINE q == [r EXCEPT !.status = "executed_simulated"]
    <2>1. q \in Row
        BY SimulatedType
    <2>2. /\ q.status = "executed_simulated" /\ q.claim = r.claim /\ q.auto = r.auto
          /\ q.heldOn = r.heldOn
        BY DEF Row
    <2> HIDE DEF q
    <2>3. ClaimOk(q)
        BY <1>1, <2>2 DEF ClaimOk, Authorized
    <2>4. Entry(i, row[i], counter, q, counter)
        BY <2>1, <2>2, <2>3, SameClaim
    <2>5. QED
        BY <1>4, <2>4, Ends DEF q
<1>5. QED
    BY <1>2, <1>3, <1>4 DEF Continue

(* A hold keeps the claim, and is dated the day it began.                   *)
LEMMA HeldClaim ==
    ASSUME AccountInv, NEW i \in Ix, row[i].status \in Authorized,
           NEW q \in Row, q.status = "pending_approval", q.claim = row[i].claim,
           q.heldOn = IF row[i].heldOn = 0 THEN day ELSE row[i].heldOn
    PROVE  ClaimOk(q)
    BY AccountFacts DEF ClaimOk, Authorized

LEMMA HoldPosted ==
    ASSUME AccountInv, NEW i \in Ix, row[i].status \in Authorized,
           \/ Update(i, HoldSettlement(row[i]), counter) /\ Release(i)
           \/ HoldUnconfirmed(i)
           \/ HoldCircle(i, TRUE)
           \/ HoldCircle(i, FALSE)
    PROVE  Posted(i)
<1> DEFINE q == HoldSettlement(row[i])
<1>1. /\ q \in Row /\ q.status = "pending_approval"
      /\ q.claim = row[i].claim /\ q.auto = row[i].auto
      /\ q.heldOn = IF row[i].heldOn = 0 THEN day ELSE row[i].heldOn
    BY AccountFacts, HoldFields
<1>2. PICK z : /\ Update(i, z, counter) /\ Release(i)
               /\ \/ z = q
                  \/ z = [q EXCEPT !.at = IF @ = 0 THEN day ELSE @]
                  \/ \E b \in BOOLEAN : z = [q EXCEPT !.keyTx = @ \/ b, !.at = IF @ = 0 THEN day ELSE @]
    BY DEF HoldUnconfirmed, HoldCircle
<1> HIDE DEF q
<1>3. z \in Row /\ z.status = q.status /\ z.claim = q.claim /\ z.auto = q.auto /\ z.heldOn = q.heldOn
    <2>1. /\ z.status = q.status /\ z.claim = q.claim /\ z.auto = q.auto /\ z.heldOn = q.heldOn
        BY <1>1, <1>2 DEF Row
    <2>2. (IF q.at = 0 THEN day ELSE q.at) \in 0..MaxDay
        BY <1>1, AccountFacts, DayOfRow DEF Row
    <2>3. \A b \in BOOLEAN : (q.keyTx \/ b) \in BOOLEAN
        BY <1>1 DEF Row
    <2>4. z \in Row
        BY <1>1, <1>2, <2>2, <2>3, Zenon DEF Row
    <2>5. QED
        BY <2>1, <2>4
<1>4. ClaimOk(z)
    BY <1>1, <1>3, HeldClaim
<1>5. QED
    BY <1>1, <1>2, <1>3, <1>4, SameClaim, Ends

LEMMA CreatePosted ==
    ASSUME AccountInv, NEW i \in Ix, CreateInstruction(i)
    PROVE  Posted(i)
<1> DEFINE a == [NoRow EXCEPT !.status = "rejected"]
           b == [NoRow EXCEPT !.status = "auto_approved", !.claim = day, !.auto = TRUE]
           c == [NoRow EXCEPT !.status = "pending_approval"]
<1>1. h'[i].stage \notin Acting /\ row[i].claim = 0
    BY AccountFacts DEF CreateInstruction, ClaimOk, Authorized
<1>2. \/ Update(i, a, counter)
      \/ Update(i, c, counter)
      \/ Update(i, b, AddSpend(counter, Amount[i])) /\ DailySpent(counter) + Amount[i] <= DailyCap
    BY DEF CreateInstruction, WithinPolicy
<1>3. \/ row'[i] = a /\ counter' = counter
      \/ row'[i] = c /\ counter' = counter
      \/ row'[i] = b /\ counter' = AddSpend(counter, Amount[i])
           /\ DailySpent(counter) + Amount[i] <= DailyCap
    BY <1>2 DEF Update, AccountInv, TypeOK
<1>4. /\ a.status = "rejected" /\ a.claim = 0 /\ a.heldOn = 0
      /\ c.status = "pending_approval" /\ c.claim = 0 /\ c.heldOn = 0
      /\ b.status = "auto_approved" /\ b.claim = day /\ b.heldOn = 0
    BY DEF NoRow
<1> HIDE DEF a, b, c
<1>5. ClaimOk(a) /\ ClaimOk(b) /\ ClaimOk(c)
    BY <1>4, AccountFacts DEF ClaimOk, Authorized
<1>6. CASE row'[i] \in {a, c} /\ counter' = counter
    <2>1. row'[i].claim = 0 /\ ClaimOk(row'[i])
        BY <1>4, <1>5, <1>6
    <2>2. QED
        BY <1>1, <1>6, <2>1, AccountFacts DEF Entry, Posted
<1>7. CASE row'[i] = b /\ counter' = AddSpend(counter, Amount[i])
             /\ DailySpent(counter) + Amount[i] <= DailyCap
    <2>1. /\ counter'.date = day /\ DailySpent(counter') = DailySpent(counter) + Amount[i]
        BY <1>7 DEF AddSpend, DailySpent
    <2>2. QED
        BY <1>1, <1>4, <1>5, <1>7, <2>1, AccountFacts DEF Entry, Posted
<1>8. QED
    BY <1>3, <1>6, <1>7

LEMMA ApprovePosted ==
    ASSUME AccountInv, NEW i \in Ix, ApproveInstruction(i)
    PROVE  Posted(i)
<1> DEFINE a == [row[i] EXCEPT !.status = "approved"]
           b == [row[i] EXCEPT !.status = "approved", !.claim = day, !.auto = FALSE]
<1>1. row[i].status = "pending_approval" /\ h' = h
    BY DEF ApproveInstruction
<1>2. h'[i].stage \notin Acting
    BY <1>1, AccountFacts DEF Authorized
<1>3. \/ row'[i] = a /\ counter' = counter /\ row[i].heldOn # 0
      \/ row'[i] = b /\ counter' = AddSpend(counter, Amount[i]) /\ row[i].heldOn = 0
    BY DEF ApproveInstruction, Update, AccountInv, TypeOK
<1>4. /\ a.status = "approved" /\ a.claim = row[i].claim /\ a.heldOn = row[i].heldOn
      /\ a.auto = row[i].auto
      /\ b.status = "approved" /\ b.claim = day /\ b.heldOn = row[i].heldOn /\ b.auto = FALSE
    BY AccountFacts DEF Row
<1> HIDE DEF a, b
<1>5. CASE row'[i] = a /\ counter' = counter /\ row[i].heldOn # 0
    <2>1. ClaimOk(a)
        BY <1>1, <1>4, <1>5, AccountFacts DEF ClaimOk, Authorized
    <2>2. QED
        BY <1>2, <1>4, <1>5, <2>1, AccountFacts DEF Entry, Posted
<1>6. CASE row'[i] = b /\ counter' = AddSpend(counter, Amount[i]) /\ row[i].heldOn = 0
    <2>1. ClaimOk(b) /\ row[i].claim # day
        BY <1>1, <1>4, <1>6, AccountFacts DEF ClaimOk, Authorized
    <2>2. /\ counter'.date = day /\ DailySpent(counter') = DailySpent(counter) + Amount[i]
        BY <1>6 DEF AddSpend, DailySpent
    <2>3. QED
        BY <1>2, <1>4, <1>6, <2>1, <2>2, AccountFacts DEF Entry, Posted
<1>7. QED
    BY <1>3, <1>5, <1>6

(* A step that only moves the handler.                                      *)
LEMMA NothingPosted ==
    ASSUME AccountInv, NEW i \in Ix, UNCHANGED <<row, counter>>,
           h'[i].stage \in Acting => row[i].status \in Authorized
    PROVE  Posted(i)
    BY AccountFacts, SameClaim DEF Posted

LEMMA RejectPosted ==
    ASSUME AccountInv, NEW i \in Ix, RejectInstruction(i)
    PROVE  Posted(i)
<1> DEFINE a == [row[i] EXCEPT !.status = "rejected"]
<1>1. row[i].status = "pending_approval"
    BY DEF RejectInstruction
<1>2. CASE At(i, "rejectRead", "none", FALSE) /\ UNCHANGED <<row, counter, dirty>>
    <2>1. h'[i].stage = "rejectRead"
        BY <1>2 DEF At, AccountInv, TypeOK
    <2>2. QED
        BY <1>2, <2>1, NothingPosted DEF Acting
<1>3. CASE Update(i, a, counter) /\ UNCHANGED h
    <2>1. a \in Row
        BY AccountFacts, StatusNames, Zenon DEF Row
    <2>2. a.claim = row[i].claim /\ a.heldOn = row[i].heldOn /\ a.auto = row[i].auto
            /\ a.status = "rejected"
        BY AccountFacts DEF Row
    <2>3. row'[i] = a /\ counter' = counter
        BY <1>3 DEF Update, AccountInv, TypeOK
    <2> HIDE DEF a
    <2>4. ClaimOk(a)
        BY <2>2, AccountFacts DEF ClaimOk, Authorized
    <2>5. h'[i].stage \notin Acting
        BY <1>1, <1>3, AccountFacts DEF Authorized
    <2>6. QED
        BY <2>1, <2>2, <2>3, <2>4, <2>5, SameClaim DEF Posted
<1>4. QED
    BY <1>2, <1>3 DEF RejectInstruction

LEMMA ExecutePosted ==
    ASSUME AccountInv, NEW i \in Ix, ExecuteInstruction(i), InTime(i)
    PROVE  Posted(i)
<1>1. row[i].status \in Authorized
    BY DEF ExecuteInstruction, Authorized
<1>2. CASE UNCHANGED <<row, counter>>
    BY <1>1, <1>2, NothingPosted
<1>3. CASE Continue(i, FirstRail(i), row[i])
    BY <1>1, <1>3, AccountFacts, ContinuePosted
<1>4. QED
    BY <1>2, <1>3 DEF ExecuteInstruction

LEMMA ExecuteAnsweredPosted ==
    ASSUME AccountInv, NEW i \in Ix, NEW seen, ExecuteAnswered(i, seen), InTime(i)
    PROVE  Posted(i)
<1>1. row[i].status \in Authorized
    BY AccountFacts DEF ExecuteAnswered, Acting
<1>2. QED
    BY <1>1, HoldPosted, LandedPosted, ReturnHeldPosted DEF ExecuteAnswered

LEMMA RejectAnsweredPosted ==
    ASSUME AccountInv, NEW i \in Ix, NEW seen, RejectAnswered(i, seen), InTime(i)
    PROVE  Posted(i)
<1> DEFINE g == CloseOpenSettlement(row[i])
           a == [g EXCEPT !.status = "rejected", !.heldOn = 0, !.gaveUp = TRUE]
           b == [g EXCEPT !.status = "rejected", !.heldOn = 0, !.claim = 0]
           e == IF row[i].heldOn = day THEN ReverseSpend(counter, Amount[i]) ELSE counter
<1>1. /\ g \in Row /\ g.claim = row[i].claim /\ g.auto = row[i].auto
    BY AccountFacts, CloseFields
<1>2. \/ Release(i) /\ UNCHANGED <<row, counter, dirty>>
      \/ RecordLanded(i, row[i])
      \/ Update(i, a, counter) /\ Release(i)
      \/ Update(i, b, e) /\ Release(i) /\ row[i].status = "pending_approval"
    BY DEF RejectAnswered
<1> HIDE DEF g
<1>3. /\ a.status = "rejected" /\ a.claim = row[i].claim /\ a.auto = row[i].auto /\ a.heldOn = 0
      /\ b.status = "rejected" /\ b.claim = 0 /\ b.heldOn = 0
    BY <1>1 DEF Row
<1>4. a \in Row /\ b \in Row
    <2>1. a \in Row
        BY <1>1, StatusNames, Unset, Zenon DEF Row
    <2>2. b \in Row
        BY <1>1, StatusNames, Unset, Zenon DEF Row
    <2>3. QED
        BY <2>1, <2>2
<1> HIDE DEF a, b
<1>5. ClaimOk(a) /\ ClaimOk(b)
    BY <1>3, AccountFacts DEF ClaimOk, Authorized
<1>6. CASE Release(i) /\ UNCHANGED <<row, counter, dirty>>
    <2>1. h'[i].stage = "idle"
        BY <1>6 DEF Release, Idle, AccountInv, TypeOK
    <2>2. QED
        BY <1>6, <2>1, NothingPosted DEF Acting
<1>7. CASE RecordLanded(i, row[i])
    BY <1>7, LandedPosted
<1>8. CASE Update(i, a, counter) /\ Release(i)
    BY <1>3, <1>4, <1>5, <1>8, SameClaim, Ends
<1>9. CASE Update(i, b, e) /\ Release(i) /\ row[i].status = "pending_approval"
    <2>1. row'[i] = b /\ counter' = e
        BY <1>9 DEF Update, AccountInv, TypeOK
    <2>2. Entry(i, row[i], counter, b, e)
        <3>1. CASE row[i].heldOn = day
            <4>1. row[i].claim # 0 /\ e = ReverseSpend(counter, Amount[i])
                BY <1>9, <3>1, AccountFacts DEF ClaimOk
            <4>2. row[i].claim = day \/ DailySpent(e) >= DailySpent(counter)
                BY <1>3, <2>1, <4>1 DEF InTime
            <4> HIDE DEF e
            <4>3. QED
                BY <1>3, <1>4, <1>5, <4>1, <4>2, ClaimReturned
        <3>2. CASE row[i].heldOn # day
            <4>1. row[i].claim # day /\ e = counter
                BY <1>9, <3>2, AccountFacts DEF ClaimOk
            <4>2. QED
                BY <1>3, <1>5, <4>1, AccountFacts DEF Entry
        <3>3. QED
            BY <3>1, <3>2
    <2> HIDE DEF e
    <2>3. QED
        BY <1>9, <2>2, Ends
<1>10. QED
    BY <1>2, <1>6, <1>7, <1>8, <1>9

LEMMA NothingSentPosted ==
    ASSUME AccountInv, NEW i \in Ix, NothingSent(i), InTime(i)
    PROVE  Posted(i)
<1>1. row[i].status \in Authorized /\ row[i] \in Row
    BY AccountFacts DEF NothingSent, Acting
<1>2. QED
    BY <1>1, ReturnPosted, ContinuePosted DEF NothingSent

LEMMA SendTransactionPosted ==
    ASSUME AccountInv, NEW i \in Ix, SendTransaction(i), InTime(i)
    PROVE  Posted(i)
<1> DEFINE r == ClearUnconfirmedTx(row[i])
<1>1. row[i].status \in Authorized
    BY AccountFacts DEF SendTransaction, Acting
<1>2. /\ r \in Row /\ r.status = row[i].status /\ r.claim = row[i].claim
      /\ r.auto = row[i].auto /\ r.heldOn = row[i].heldOn
    BY AccountFacts, ClearFields
<1>3. \/ UNCHANGED <<row, counter>>
      \/ Continue(i, RailAfterVault(i), r)
      \/ ReturnToHuman(i, r)
    BY DEF SendTransaction
<1> HIDE DEF r
<1>4. QED
    BY <1>1, <1>2, <1>3, NothingPosted, ReturnPosted, ContinuePosted

LEMMA ReceiptAnsweredPosted ==
    ASSUME AccountInv, NEW i \in Ix, ReceiptAnswered(i), InTime(i)
    PROVE  Posted(i)
<1> DEFINE r == ClearUnconfirmedTx(row[i])
<1>1. row[i].status \in Authorized
    BY AccountFacts DEF ReceiptAnswered, Acting
<1>2. /\ r \in Row /\ r.status = row[i].status /\ r.claim = row[i].claim
      /\ r.auto = row[i].auto /\ r.heldOn = row[i].heldOn
    BY AccountFacts, ClearFields
<1>3. \/ HoldUnconfirmed(i)
      \/ ReturnToHuman(i, r)
      \/ row' = [row EXCEPT ![i] = r] /\ UNCHANGED counter
      \/ RecordSettled(i, row[i])
    BY DEF ReceiptAnswered
<1> HIDE DEF r
<1>4. CASE row' = [row EXCEPT ![i] = r] /\ UNCHANGED counter
    <2>1. row'[i] = r
        BY <1>4 DEF AccountInv, TypeOK
    <2>2. ClaimOk(r)
        BY <1>2, AccountFacts DEF ClaimOk
    <2>3. QED
        BY <1>1, <1>2, <1>4, <2>1, <2>2, SameClaim DEF Posted
<1>5. QED
    BY <1>1, <1>2, <1>3, <1>4, HoldPosted, ReturnPosted, SettledPosted, AccountFacts

LEMMA ReadSessionKeyBoundPosted ==
    ASSUME AccountInv, NEW i \in Ix, ReadSessionKeyBound(i)
    PROVE  Posted(i)
    BY SettledPosted, AccountFacts DEF ReadSessionKeyBound

LEMMA CircleCreatePosted ==
    ASSUME AccountInv, NEW i \in Ix, CircleCreate(i), InTime(i)
    PROVE  Posted(i)
<1> DEFINE r == CloseOpenSettlement(row[i])
<1>1. row[i].status \in Authorized
    BY AccountFacts DEF CircleCreate, Acting
<1>2. /\ r \in Row /\ r.status = row[i].status /\ r.claim = row[i].claim
      /\ r.auto = row[i].auto /\ r.heldOn = row[i].heldOn
    BY AccountFacts, CloseFields
<1>3. \/ UNCHANGED <<row, counter>>
      \/ HoldCircle(i, FALSE)
      \/ Continue(i, RailAfterCircle(i), r)
    BY DEF CircleCreate
<1> HIDE DEF r
<1>4. QED
    BY <1>1, <1>2, <1>3, NothingPosted, HoldPosted, ContinuePosted

LEMMA CirclePolledPosted ==
    ASSUME AccountInv, NEW i \in Ix, CirclePolled(i), InTime(i)
    PROVE  Posted(i)
<1> DEFINE r == CloseOpenSettlement(row[i])
<1>1. row[i].status \in Authorized
    BY AccountFacts DEF CirclePolled, Acting
<1>2. /\ r \in Row /\ r.status = row[i].status /\ r.claim = row[i].claim
      /\ r.auto = row[i].auto /\ r.heldOn = row[i].heldOn
    BY AccountFacts, CloseFields
<1>3. \/ HoldCircle(i, TRUE)
      \/ RecordSettled(i, row[i])
      \/ ReturnToHuman(i, r)
      \/ ReturnHeld(i, row[i])
      \/ Continue(i, RailAfterCircle(i), r)
    BY DEF CirclePolled
<1> HIDE DEF r
<1>4. QED
    BY <1>1, <1>2, <1>3, HoldPosted, SettledPosted, ReturnPosted, ReturnHeldPosted,
       ContinuePosted, AccountFacts

(* What a durable write puts in storage balances too.                       *)
LEMMA WrittenBooks ==
    ASSUME AccountInv, NEW i \in Ix, NEW r \in Row, r.status = row[i].status,
           r.claim = row[i].claim, r.auto = row[i].auto, r.heldOn = row[i].heldOn,
           NEW saved, DurableWrite([row EXCEPT ![i] = r], saved)
    PROVE  Books(disk'.row, disk'.counter)
<1>1. ClaimOk(r)
    BY AccountFacts DEF ClaimOk
<1>2. Books([row EXCEPT ![i] = r], counter)
    BY <1>1, SameClaim, EntryKeepsBooks DEF AccountInv, TypeOK
<1>3. QED
    BY <1>2 DEF DurableWrite, AccountInv

LEMMA NoteTransactionPosted ==
    ASSUME AccountInv, NEW i \in Ix, NoteTransaction(i), InTime(i)
    PROVE  Posted(i) /\ Books(disk'.row, disk'.counter)
<1>1. row[i].status \in Authorized
    BY AccountFacts DEF NoteTransaction, Acting
<1>2. PICK n \in Tries, saved \in BOOLEAN :
        LET r == [row[i] EXCEPT !.tx = n, !.at = day] IN
        /\ DurableWrite([row EXCEPT ![i] = r], saved)
        /\ \/ row' = [row EXCEPT ![i] = r] /\ UNCHANGED counter
           \/ ReturnToHuman(i, ClearUnconfirmedTx(r))
    BY DEF NoteTransaction
<1> DEFINE r == [row[i] EXCEPT !.tx = n, !.at = day]
<1>3. r \in Row
    <2>1. n \in 0..MaxTries
        BY ConstantsAssumption DEF Tries
    <2>2. QED
        BY <2>1, DayOfRow, AccountFacts, Zenon DEF Row
<1>4. /\ r.status = row[i].status /\ r.claim = row[i].claim
      /\ r.auto = row[i].auto /\ r.heldOn = row[i].heldOn
    BY AccountFacts DEF Row
<1>5. /\ DurableWrite([row EXCEPT ![i] = r], saved)
      /\ \/ row' = [row EXCEPT ![i] = r] /\ UNCHANGED counter
         \/ ReturnToHuman(i, ClearUnconfirmedTx(r))
    BY <1>2
<1> HIDE DEF r
<1>6. Books(disk'.row, disk'.counter)
    BY <1>3, <1>4, <1>5, WrittenBooks
<1>7. Posted(i)
    <2>1. CASE row' = [row EXCEPT ![i] = r] /\ UNCHANGED counter
        <3>1. row'[i] = r
            BY <2>1 DEF AccountInv, TypeOK
        <3>2. ClaimOk(r)
            BY <1>4, AccountFacts DEF ClaimOk
        <3>3. QED
            BY <1>1, <1>3, <1>4, <2>1, <3>1, <3>2, SameClaim DEF Posted
    <2>2. CASE ReturnToHuman(i, ClearUnconfirmedTx(r))
        <3>1. ClearUnconfirmedTx(r) \in Row
            BY <1>3, ClearFields
        <3>2. QED
            BY <1>1, <2>2, <3>1, ReturnPosted
    <2>3. QED
        BY <1>5, <2>1, <2>2
<1>8. QED
    BY <1>6, <1>7

LEMMA NoteCircleKeyPosted ==
    ASSUME AccountInv, NEW i \in Ix, NoteCircleKey(i), InTime(i)
    PROVE  Posted(i) /\ Books(disk'.row, disk'.counter)
<1>1. row[i].status \in Authorized
    BY AccountFacts DEF NoteCircleKey, Acting
<1>2. PICK n \in Tries, saved \in BOOLEAN :
        LET r == [row[i] EXCEPT !.key = n] IN
        /\ DurableWrite([row EXCEPT ![i] = r], saved)
        /\ \/ row' = [row EXCEPT ![i] = r] /\ UNCHANGED counter
           \/ ReturnToHuman(i, row[i])
    BY DEF NoteCircleKey
<1> DEFINE r == [row[i] EXCEPT !.key = n]
<1>3. r \in Row
    <2>1. n \in 0..MaxTries
        BY ConstantsAssumption DEF Tries
    <2>2. QED
        BY <2>1, AccountFacts, Zenon DEF Row
<1>4. /\ r.status = row[i].status /\ r.claim = row[i].claim
      /\ r.auto = row[i].auto /\ r.heldOn = row[i].heldOn
    BY AccountFacts DEF Row
<1>5. /\ DurableWrite([row EXCEPT ![i] = r], saved)
      /\ \/ row' = [row EXCEPT ![i] = r] /\ UNCHANGED counter
         \/ ReturnToHuman(i, row[i])
    BY <1>2
<1> HIDE DEF r
<1>6. Books(disk'.row, disk'.counter)
    BY <1>3, <1>4, <1>5, WrittenBooks
<1>7. Posted(i)
    <2>1. CASE row' = [row EXCEPT ![i] = r] /\ UNCHANGED counter
        <3>1. row'[i] = r
            BY <2>1 DEF AccountInv, TypeOK
        <3>2. ClaimOk(r)
            BY <1>4, AccountFacts DEF ClaimOk
        <3>3. QED
            BY <1>1, <1>3, <1>4, <2>1, <3>1, <3>2, SameClaim DEF Posted
    <2>2. CASE ReturnToHuman(i, row[i])
        BY <1>1, <2>2, AccountFacts, ReturnPosted
    <2>3. QED
        BY <1>5, <2>1, <2>2
<1>8. QED
    BY <1>6, <1>7

(* One entry, and a document that balances, keep the books.                 *)
LEMMA PostedKeeps ==
    ASSUME AccountInv, TypeOK', day' = day, NEW i \in Ix,
           \A j \in Ix \ {i} : row'[j] = row[j] /\ h'[j] = h[j],
           Posted(i), Books(disk'.row, disk'.counter)
    PROVE  AccountInv'
<1>1. row' = [row EXCEPT ![i] = row'[i]] /\ row'[i] \in Row /\ counter' \in Counter
    BY DEF AccountInv, TypeOK
<1>2. Entry(i, row[i], counter, row'[i], counter')
    BY DEF Posted
<1>3. Books([row EXCEPT ![i] = row'[i]], counter')
    BY <1>1, <1>2, EntryKeepsBooks DEF AccountInv, TypeOK
<1>4. Books(row', counter')
    BY <1>1, <1>3
<1>5. \A j \in Ix : h'[j].stage \in Acting => row'[j].status \in Authorized
    BY DEF Posted, AccountInv
<1>6. Books(row, counter)'
    BY <1>4 DEF Books, ClaimOk, DailySpent, ClaimedOn, AutoOn
<1>7. Books(disk.row, disk.counter)'
    BY DEF Books, ClaimOk, DailySpent, ClaimedOn, AutoOn
<1>8. QED
    BY <1>5, <1>6, <1>7 DEF AccountInv, Acting, Authorized

LEMMA AccountInit == Init => AccountInv
<1> SUFFICES ASSUME Init PROVE AccountInv
    OBVIOUS
<1>1. TypeOK
    BY TypeInit
<1>2. Books(row, counter)
    <2>1. \A i \in Ix : row[i] = NoRow
        BY DEF Init
    <2>2. \A i \in Ix : ClaimOk(row[i])
        BY <2>1 DEF Init, ClaimOk, NoRow, Authorized
    <2>3. ClaimedOn(row, day) = {}
        BY <2>1 DEF ClaimedOn, Init, NoRow
    <2>4. \A d \in Days : AutoOn(row, d) = {}
        BY <2>1 DEF AutoOn, NoRow
    <2>5. counter.date = 0 /\ DailySpent(counter) = 0 /\ counter.date <= day
        BY DEF Init, DailySpent
    <2>6. QED
        BY <2>2, <2>3, <2>4, <2>5, TotalEmpty, ConstantsAssumption DEF Books
<1>3. disk.row = row /\ disk.counter = counter
    BY DEF Init
<1>4. \A i \in Ix : h[i].stage \notin Acting
    BY DEF Init, Idle, Acting
<1>5. QED
    BY <1>1, <1>2, <1>3, <1>4 DEF AccountInv

LEMMA AccountStep == AccountInv /\ [Next]_vars /\ [Restart \/ \A i \in Ix : InTime(i)]_vars => AccountInv'
<1> SUFFICES ASSUME AccountInv, [Next]_vars, [Restart \/ \A i \in Ix : InTime(i)]_vars
             PROVE AccountInv'
    OBVIOUS
<1>1. TypeOK /\ TypeOK'
    BY TypeStep DEF AccountInv
<1>2. ASSUME NEW i \in Ix, Request(i), InTime(i) PROVE AccountInv'
    <2>2. Posted(i)
        BY <1>2, CreatePosted, ApprovePosted, RejectPosted, ExecutePosted DEF Request
    <2>3. UNCHANGED <<day, disk>>
        BY <1>2 DEF Request, CreateInstruction, ApproveInstruction, RejectInstruction,
                    ExecuteInstruction
    <2>4. Books(disk'.row, disk'.counter)
        BY <2>3 DEF AccountInv
    <2>5. QED
        BY <1>1, <1>2, <2>2, <2>3, <2>4, RequestOthers, PostedKeeps
<1>3. ASSUME NEW i \in Ix, Handle(i), InTime(i) PROVE AccountInv'
    <2>2. day' = day
        BY <1>3 DEF Handle, RejectAnswered, ExecuteAnswered, NothingSent, NoteTransaction,
                    SendTransaction, ReceiptAnswered, ReadSessionKeyBound, NoteCircleKey,
                    CircleCreate, CirclePolled
    <2>3. Posted(i) /\ Books(disk'.row, disk'.counter)
        <3>1. CASE NoteTransaction(i) \/ NoteCircleKey(i)
            BY <1>3, <3>1, NoteTransactionPosted, NoteCircleKeyPosted
        <3>2. CASE ~NoteTransaction(i) /\ ~NoteCircleKey(i)
            <4>1. disk' = disk
                BY <1>3, <3>2 DEF Handle, RejectAnswered, ExecuteAnswered, NothingSent,
                   SendTransaction, ReceiptAnswered, ReadSessionKeyBound, CircleCreate,
                   CirclePolled
            <4>2. Books(disk'.row, disk'.counter)
                BY <4>1 DEF AccountInv
            <4>3. Posted(i)
                BY <1>3, <3>2, RejectAnsweredPosted, ExecuteAnsweredPosted,
                   NothingSentPosted, SendTransactionPosted, ReceiptAnsweredPosted,
                   ReadSessionKeyBoundPosted, CircleCreatePosted, CirclePolledPosted
                DEF Handle
            <4>4. QED
                BY <4>2, <4>3
        <3>3. QED
            BY <3>1, <3>2
    <2>4. QED
        BY <1>1, <1>3, <2>2, <2>3, HandleOthers, PostedKeeps
<1>4. ASSUME UNCHANGED <<day, row, counter, disk, h>> PROVE AccountInv'
    BY <1>1, <1>4 DEF AccountInv, Books, ClaimOk, DailySpent, ClaimedOn, AutoOn
<1>5. ASSUME NEW i \in Ix, NEW n \in Tries, Settle(i, n) PROVE AccountInv'
    BY <1>4, <1>5 DEF Settle
<1>6. CASE Flush
    <2>1. /\ UNCHANGED <<day, row, counter, h>>
          /\ \/ disk' = disk
             \/ disk'.row = row /\ disk'.counter = counter
        BY <1>6 DEF Flush
    <2>2. Books(row, counter)'
        BY <2>1 DEF AccountInv, Books, ClaimOk, DailySpent, ClaimedOn, AutoOn
    <2>3. Books(disk.row, disk.counter)'
        <3>1. Books(disk'.row, disk'.counter)
            BY <2>1 DEF AccountInv
        <3>2. QED
            BY <2>1, <3>1 DEF Books, ClaimOk, DailySpent, ClaimedOn, AutoOn
    <2>4. QED
        BY <1>1, <2>1, <2>2, <2>3 DEF AccountInv, Acting, Authorized
<1>7. CASE Restart
    <2>1. \A i \in Ix : h'[i].stage \notin Acting
        BY <1>7 DEF Restart, Idle, Acting
    <2>2. Books(row, counter)' /\ Books(disk.row, disk.counter)'
        BY <1>7 DEF Restart, AccountInv, Books, ClaimOk, DailySpent, ClaimedOn, AutoOn
    <2>3. QED
        BY <1>1, <2>1, <2>2 DEF AccountInv, Acting
<1>8. CASE Midnight
    <2>1. ASSUME NEW rs \in [Ix -> Row], NEW c \in Counter, Books(rs, c), day' = day + 1
          PROVE  /\ c.date <= day'
                 /\ \A i \in Ix : /\ rs[i].claim <= day' /\ rs[i].claim # day'
                                  /\ rs[i].heldOn # 0 => rs[i].heldOn <= day'
                 /\ c.date # day'
        <3>1. day \in Nat
            BY <1>1, ConstantsAssumption DEF TypeOK, Days
        <3>2. c.date <= day /\ c.date \in Nat
            BY <2>1 DEF Books, Counter
        <3>3. \A i \in Ix : rs[i].claim \in Nat /\ rs[i].heldOn \in Nat /\ rs[i].claim <= day
                            /\ (rs[i].heldOn # 0 => rs[i].heldOn <= day)
            BY <2>1 DEF Books, ClaimOk, Row
        <3>4. QED
            BY <2>1, <3>1, <3>2, <3>3
    <2>2. day' = day + 1 /\ UNCHANGED <<row, counter, disk, h>>
        BY <1>8 DEF Midnight
    <2>3. Books(row, counter)'
        <3>1. ClaimedOn(row, day)' = {}
            BY <1>1, <2>1, <2>2 DEF ClaimedOn, AccountInv, TypeOK
        <3>2. DailySpent(counter)' = 0 /\ (counter.date <= day)'
            BY <1>1, <2>1, <2>2 DEF DailySpent, AccountInv, TypeOK
        <3>3. (\A i \in Ix : ClaimOk(row[i]))'
            BY <1>1, <2>1, <2>2 DEF ClaimOk, AccountInv, TypeOK, Books, Authorized
        <3>4. (\A d \in Days : Total(AutoOn(row, d)) <= DailyCap)'
            BY <2>2 DEF AccountInv, Books, AutoOn
        <3>5. QED
            BY <3>1, <3>2, <3>3, <3>4, TotalEmpty DEF Books
    <2>4. Books(disk.row, disk.counter)'
        <3>1. ClaimedOn(disk.row, day)' = {}
            BY <1>1, <2>1, <2>2 DEF ClaimedOn, AccountInv, TypeOK, Document
        <3>2. DailySpent(disk.counter)' = 0 /\ (disk.counter.date <= day)'
            BY <1>1, <2>1, <2>2 DEF DailySpent, AccountInv, TypeOK, Document
        <3>3. (\A i \in Ix : ClaimOk(disk.row[i]))'
            BY <1>1, <2>1, <2>2 DEF ClaimOk, AccountInv, TypeOK, Books, Authorized, Document
        <3>4. (\A d \in Days : Total(AutoOn(disk.row, d)) <= DailyCap)'
            BY <2>2 DEF AccountInv, Books, AutoOn
        <3>5. QED
            BY <3>1, <3>2, <3>3, <3>4, TotalEmpty DEF Books
    <2>5. QED
        BY <1>1, <2>2, <2>3, <2>4 DEF AccountInv, Acting, Authorized
<1>9. CASE UNCHANGED vars
    BY <1>4, <1>9 DEF vars
<1>10. CASE Restart \/ \A i \in Ix : InTime(i)
    BY <1>2, <1>3, <1>5, <1>6, <1>7, <1>8, <1>9, <1>10 DEF Next
<1>11. QED
    BY <1>9, <1>10

(* No claim of an earlier day is taken from today's count.                  *)
ReturnedInTime == [][Restart \/ \A i \in Ix : InTime(i)]_vars

(* In memory and in storage, through restarts and midnights, today's count  *)
(* is the sum of today's claims, as long as none is given back late.        *)
THEOREM AccountBalances == Spec /\ ReturnedInTime => []AccountInv
<1>1. Init => AccountInv
    BY AccountInit
<1>2. AccountInv /\ [Next]_vars /\ [Restart \/ \A i \in Ix : InTime(i)]_vars => AccountInv'
    BY AccountStep
<1>3. QED
    BY <1>1, <1>2, PTL DEF Spec, ReturnedInTime

LEMMA InvBalances == AccountInv => CounterIsClaims
    BY DEF AccountInv, Books, CounterIsClaims, Claimed, ClaimedOn, Total

(* spentTodayUsd is the sum of today's claims: a payment that moved nothing *)
(* gives its budget back and no other step does.                            *)
THEOREM CounterClaims == Spec /\ ReturnedInTime => []CounterIsClaims
    BY InvBalances, AccountBalances, PTL

(* What the policy alone authorized on a day and was not given back.        *)
AuthorizedWithinCap ==
    \A d \in Days : Total({i \in Ix : row[i].auto /\ row[i].claim = d}) <= DailyCap

(* On every day, what the policy alone authorized is within the daily cap,  *)
(* whatever was held, returned or approved since.                           *)
THEOREM EachDayWithinCap == Spec /\ ReturnedInTime => []AuthorizedWithinCap
<1>1. AccountInv => AuthorizedWithinCap
    BY DEF AccountInv, Books, AuthorizedWithinCap, AutoOn
<1>2. QED
    BY <1>1, AccountBalances, PTL

LEMMA OneDayInTime == ASSUME MaxDay = 1 PROVE TypeOK /\ TypeOK' => \A i \in Ix : InTime(i)
<1> SUFFICES ASSUME TypeOK, TypeOK', NEW i \in Ix PROVE InTime(i)
    OBVIOUS
<1>1. day = 1 /\ row[i].claim \in 0..1
    BY DEF TypeOK, Days, Row
<1>2. QED
    BY <1>1 DEF InTime

(* Within one UTC day nothing is given back late.                           *)
THEOREM OneDay == ASSUME MaxDay = 1 PROVE Spec => ReturnedInTime
<1>1. TypeOK /\ TypeOK' => [Restart \/ \A i \in Ix : InTime(i)]_vars
    BY OneDayInTime
<1>2. QED
    BY <1>1, TypeCorrect, PTL DEF ReturnedInTime

(* So within one day the counter is always the sum of the claims.           *)
THEOREM CounterClaimsOneDay == ASSUME MaxDay = 1 PROVE Spec => []CounterIsClaims
    BY OneDay, CounterClaims, PTL

(* Within one day, what the policy alone authorized and may have moved is   *)
(* within the daily cap, across holds, returns and restarts.                *)
THEOREM SpendWithinCap == ASSUME MaxDay = 1 PROVE Spec /\ Careful => []AgentSpendWithinCap
<1>1. AccountInv /\ SettlementInv => AgentSpendWithinCap
    <2> SUFFICES ASSUME AccountInv, SettlementInv PROVE AgentSpendWithinCap
        OBVIOUS
    <2> DEFINE S == {i \in Ix : row[i].auto /\ Live(i) # {}}
               T == AutoOn(row, 1)
    <2>1. \A i \in S : row[i].claim = 1
        <3>1. MoneyIsCounted
            BY InvCountsMoney
        <3>2. \A i \in Ix : row[i].claim \in 0..1
            BY DEF AccountInv, TypeOK, Row
        <3>3. QED
            BY <3>1, <3>2 DEF MoneyIsCounted
    <2>2. S \in SUBSET T /\ T \in SUBSET Ix
        BY <2>1 DEF AutoOn
    <2>3. Total(T) <= DailyCap
        BY DEF AccountInv, Books, Days
    <2> HIDE DEF T
    <2>4. Total(S) <= Total(T)
        <3> HIDE DEF S
        <3>1. QED
            BY <2>2, TotalMonotone
    <2>5. Total(S) \in Nat /\ Total(T) \in Nat /\ DailyCap \in Nat
        BY <2>2, TotalType, ConstantsAssumption
    <2>6. Total(S) <= DailyCap
        <3> HIDE DEF S
        <3>1. QED
            BY <2>3, <2>4, <2>5
    <2>7. QED
        BY <2>6 DEF AgentSpendWithinCap, Total
<1>2. QED
    BY <1>1, OneDay, AccountBalances, SettlementInvariant, CarefulIsSafe, PTL
-----------------------------------------------------------------------------
(* The promise. Whoever acts on an instruction finds its record open, and   *)
(* leaves what moved as it was: only the chain and Circle move money.       *)
LEMMA ActsOnOpen ==
    ASSUME NEW i \in Ix, InvAt(i), Request(i) \/ Handle(i)
    PROVE  Record(row[i]) = "open"
<1>1. CASE Request(i)
    <2>1. row[i].status \in {"none", "pending_approval"} \cup Authorized
        BY <1>1 DEF Request, CreateInstruction, ApproveInstruction, RejectInstruction,
                    ExecuteInstruction, Authorized
    <2>2. QED
        BY <2>1 DEF Record, Authorized
<1>2. CASE Handle(i)
    <2>1. h[i].stage \in {"read", "rejectRead", "try", "send", "wait", "label"}
        BY <1>2 DEF Handle, RejectAnswered, ExecuteAnswered, NothingSent, NoteTransaction,
                    SendTransaction, ReceiptAnswered, ReadSessionKeyBound, NoteCircleKey,
                    CircleCreate, CirclePolled
    <2>2. row[i].status \in Authorized \cup {"pending_approval"}
        BY <2>1 DEF InvAt, InvOf, HandlerOk
    <2>3. QED
        BY <2>2 DEF Record, Authorized
<1>3. QED
    BY <1>1, <1>2

(* A payment that was neither on its way nor settled is written.            *)
LEMMA LandedKept ==
    ASSUME NEW p \in [Tries -> Payment], NEW n, NEW s, s # "landed", p[n] # "landed"
    PROVE  Landed([p EXCEPT ![n] = s]) = Landed(p)
    BY DEF Landed

LEMMA ActsMoveNothing ==
    ASSUME TypeOK, NEW i \in Ix, InvAt(i), Request(i) \/ Handle(i)
    PROVE  Landed(pay'[i]) = Landed(pay[i])
<1>1. pay \in [Ix -> [Tries -> Payment]] /\ HandlerOk(row[i], h[i], pay[i])
    BY DEF TypeOK, InvAt, InvOf
<1>2. ASSUME NEW n, NEW s, s # "landed", pay[i][n] # "landed", pay' = [pay EXCEPT ![i][n] = s]
      PROVE  Landed(pay'[i]) = Landed(pay[i])
    BY <1>1, <1>2, LandedKept
<1>3. CASE NoteTransaction(i)
    BY <1>2, <1>3 DEF NoteTransaction, Fresh
<1>4. CASE SendTransaction(i)
    <2>1. pay[i][row[i].tx] = "noted"
        BY <1>1, <1>4 DEF SendTransaction, HandlerOk
    <2>2. QED
        BY <1>2, <1>4, <2>1 DEF SendTransaction
<1>5. CASE NoteCircleKey(i)
    BY <1>2, <1>5 DEF NoteCircleKey, Fresh
<1>6. CASE CircleCreate(i)
    <2>1. ~h[i].resumed => pay[i][row[i].key] = "noted"
        BY <1>1, <1>6 DEF CircleCreate, HandlerOk
    <2>2. CASE CircleTakes(i)
        <3>1. CASE pay[i][row[i].key] = "noted"
            BY <1>2, <2>2, <3>1 DEF CircleTakes
        <3>2. CASE pay[i][row[i].key] # "noted"
            BY <1>1, <2>2, <3>2 DEF CircleTakes, Landed
        <3>3. QED
            BY <3>1, <3>2
    <2>3. QED
        BY <1>2, <1>6, <2>1, <2>2 DEF CircleCreate
<1>7. CASE UNCHANGED pay
    BY <1>7
<1>8. QED
    BY <1>3, <1>4, <1>5, <1>6, <1>7
    DEF Request, CreateInstruction, ApproveInstruction, RejectInstruction, ExecuteInstruction,
        Handle, RejectAnswered, ExecuteAnswered, NothingSent, ReceiptAnswered,
        ReadSessionKeyBound, CirclePolled

(* What is at its end in storage is at the same end in memory: a restart    *)
(* may forget an end and makes none.                                        *)
EndKept(j) == Record(disk.row[j]) \in {"open", Record(row[j])}
EndsKept == \A j \in Ix : EndKept(j)

(* The writes before a send are of instructions somebody works on.          *)
LEMMA WritesOpen ==
    ASSUME TypeOK, NEW i \in Ix, InvAt(i), Request(i) \/ Handle(i)
    PROVE  disk'.row[i] = disk.row[i] \/ Record(disk'.row[i]) = "open"
<1>1. row \in [Ix -> Row] /\ (h[i].stage = "try" => row[i].status \in Authorized)
    BY DEF TypeOK, InvAt, InvOf, HandlerOk
<1>2. CASE NoteTransaction(i)
    <2>1. PICK n \in Tries, saved \in BOOLEAN :
            DurableWrite([row EXCEPT ![i] = [row[i] EXCEPT !.tx = n, !.at = day]], saved)
        BY <1>2 DEF NoteTransaction
    <2> DEFINE r == [row[i] EXCEPT !.tx = n, !.at = day]
    <2>2. r.status = row[i].status
        BY <1>1 DEF Row
    <2>3. DurableWrite([row EXCEPT ![i] = r], saved)
        BY <2>1
    <2> HIDE DEF r
    <2>4. \/ disk'.row[i] = disk.row[i]
          \/ disk'.row[i].status = row[i].status
        BY <1>1, <2>2, <2>3 DEF DurableWrite
    <2>5. QED
        BY <1>1, <1>2, <2>4 DEF NoteTransaction, Record, Authorized
<1>3. CASE NoteCircleKey(i)
    <2>1. PICK n \in Tries, saved \in BOOLEAN :
            DurableWrite([row EXCEPT ![i] = [row[i] EXCEPT !.key = n]], saved)
        BY <1>3 DEF NoteCircleKey
    <2> DEFINE r == [row[i] EXCEPT !.key = n]
    <2>2. r.status = row[i].status
        BY <1>1 DEF Row
    <2>3. DurableWrite([row EXCEPT ![i] = r], saved)
        BY <2>1
    <2> HIDE DEF r
    <2>4. \/ disk'.row[i] = disk.row[i]
          \/ disk'.row[i].status = row[i].status
        BY <1>1, <2>2, <2>3 DEF DurableWrite
    <2>5. QED
        BY <1>1, <1>3, <2>4 DEF NoteCircleKey, Record, Authorized
<1>4. CASE UNCHANGED disk
    BY <1>4
<1>5. QED
    BY <1>2, <1>3, <1>4
    DEF Request, CreateInstruction, ApproveInstruction, RejectInstruction, ExecuteInstruction,
        Handle, RejectAnswered, ExecuteAnswered, NothingSent, ReceiptAnswered,
        ReadSessionKeyBound, CirclePolled, SendTransaction, CircleCreate

LEMMA EndsKeptStep ==
    ASSUME SettlementInv, EndsKept, [Next]_vars
    PROVE  EndsKept'
<1>1. TypeOK /\ \A j \in Ix : InvAt(j) /\ EndKept(j)
    BY DEF SettlementInv, InvAt, EndsKept
<1>2. ASSUME NEW j \in Ix PROVE EndKept(j)'
    <2>1. CASE row'[j] = row[j] /\ disk'.row[j] \in {disk.row[j], row[j]}
        BY <1>1, <2>1 DEF EndKept, Record
    <2>2. ASSUME NEW i \in Ix, Request(i) \/ Handle(i) PROVE EndKept(j)'
        <3>1. CASE i = j
            <4>1. Record(row[j]) = "open"
                BY <1>1, <2>2, <3>1, ActsOnOpen
            <4>2. Record(disk.row[j]) = "open"
                BY <1>1, <4>1 DEF EndKept
            <4>3. Record(disk'.row[j]) = "open"
                BY <1>1, <2>2, <3>1, <4>2, WritesOpen
            <4>4. QED
                BY <4>3 DEF EndKept, Record
        <3>2. CASE i # j
            BY <1>1, <2>1, <2>2, <3>2, RequestOthers, HandleOthers
        <3>3. QED
            BY <3>1, <3>2
    <2>3. CASE Restart
        BY <2>3 DEF Restart, EndKept, Record
    <2>4. CASE Flush \/ Midnight \/ UNCHANGED vars \/ \E i \in Ix, n \in Tries : Settle(i, n)
        BY <2>1, <2>4 DEF Flush, Midnight, vars, Settle
    <2>5. QED
        BY <2>2, <2>3, <2>4 DEF Next
<1>3. QED
    BY <1>2 DEF EndsKept

(* One step of the handlers is a step of the promise, or changes nothing of *)
(* it: an end is recorded when RecordIsTrue says that it is true.           *)
LEMMA ActKeepsPromise ==
    ASSUME SettlementInv, RecordIsTrue', NEW i \in Ix, Request(i) \/ Handle(i)
    PROVE  PromiseStep(i)
<1>1. TypeOK /\ InvAt(i)
    BY DEF SettlementInv, InvAt
<1>2. Record(row[i]) = "open" /\ Landed(pay'[i]) = Landed(pay[i])
    BY <1>1, ActsOnOpen, ActsMoveNothing
<1>3. crashes' = crashes
    BY DEF Request, CreateInstruction, ApproveInstruction, RejectInstruction,
       ExecuteInstruction, Handle, RejectAnswered, ExecuteAnswered, NothingSent,
       NoteTransaction, SendTransaction, ReceiptAnswered, ReadSessionKeyBound, NoteCircleKey,
       CircleCreate, CirclePolled
<1>4. CASE Record(row'[i]) = "open"
    BY <1>2, <1>3, <1>4 DEF PromiseStep, Promise!vars, Record
<1>5. CASE Record(row'[i]) = "settled"
    <2>1. Landed(pay'[i]) # {}
        BY <1>5 DEF RecordIsTrue, Record, Landed
    <2>2. Promise(i)!Settle
        BY <1>2, <1>3, <1>5, <2>1 DEF Promise!Settle, Promise!End, Record
    <2>3. QED
        BY <2>2 DEF PromiseStep, Promise!Next
<1>6. CASE Record(row'[i]) = "closed"
    <2>1. Landed(pay'[i]) = {}
        BY <1>6 DEF RecordIsTrue, Record, Landed, Live, LiveIn
    <2>2. Promise(i)!Close
        BY <1>2, <1>3, <1>6, <2>1 DEF Promise!Close, Promise!End, Record
    <2>3. QED
        BY <2>2 DEF PromiseStep, Promise!Next
<1>7. CASE Record(row'[i]) = "unresolved"
    <2>1. Promise(i)!GiveUp
        BY <1>2, <1>3, <1>7 DEF Promise!GiveUp, Promise!End, Record
    <2>2. QED
        BY <2>1 DEF PromiseStep, Promise!Next
<1>8. QED
    BY <1>4, <1>5, <1>6, <1>7 DEF Record
(* The chain lands a payment that was on its way, and then none had landed. *)
LEMMA SettleKeepsPromise ==
    ASSUME SettlementInv, PaysAtMostOnce, RecordIsTrue, NEW i \in Ix,
           NEW j \in Ix, NEW n \in Tries, Settle(j, n)
    PROVE  PromiseStep(i)
<1>1. pay \in [Ix -> [Tries -> Payment]] /\ row' = row /\ crashes' = crashes
    BY DEF SettlementInv, TypeOK, Settle
<1>2. CASE Landed(pay'[i]) = Landed(pay[i])
    BY <1>1, <1>2 DEF PromiseStep, Promise!vars
<1>3. CASE Landed(pay'[i]) # Landed(pay[i])
    <2>1. i = j
        BY <1>1, <1>3 DEF Settle
    <2>2. pay[i][n] = "sent" /\ pay' = [pay EXCEPT ![i][n] = "landed"]
        BY <1>1, <1>3, <2>1 DEF Settle, Landed
    <2>3. n \in Live(i)
        BY <2>2 DEF Live, LiveIn
    <2>4. Landed(pay[i]) = {}
        BY <2>2, <2>3 DEF PaysAtMostOnce, Live, LiveIn, Landed
    <2>5. Landed(pay'[i]) = {n}
        BY <1>1, <2>2, <2>4 DEF Landed
    <2>6. Record(row[i]) \in {"open", "unresolved"}
        BY <2>3, <2>4 DEF RecordIsTrue, Record, Landed
    <2>7. Promise(i)!Move
        BY <1>1, <2>4, <2>5, <2>6 DEF Promise!Move
    <2>8. QED
        BY <2>7 DEF PromiseStep, Promise!Next
<1>4. QED
    BY <1>2, <1>3

LEMMA StepKeepsPromise ==
    ASSUME SettlementInv, EndsKept, PaysAtMostOnce, RecordIsTrue, RecordIsTrue', [Next]_vars
    PROVE  \A i \in Ix : PromiseStep(i)
<1> SUFFICES ASSUME NEW i \in Ix PROVE PromiseStep(i)
    OBVIOUS
<1>1. TypeOK /\ EndKept(i)
    BY DEF SettlementInv, EndsKept
<1>2. CASE row'[i] = row[i] /\ pay'[i] = pay[i] /\ crashes' = crashes
    BY <1>2 DEF PromiseStep, Promise!vars
<1>3. ASSUME NEW j \in Ix, Request(j) \/ Handle(j) PROVE PromiseStep(i)
    <2>1. CASE i = j
        BY <1>3, <2>1, ActKeepsPromise
    <2>2. CASE i # j
        <3>1. row'[i] = row[i] /\ pay'[i] = pay[i]
            BY <1>1, <1>3, <2>2, RequestOthers, HandleOthers
        <3>2. crashes' = crashes
            BY <1>3 DEF Request, CreateInstruction, ApproveInstruction, RejectInstruction,
               ExecuteInstruction, Handle, RejectAnswered, ExecuteAnswered, NothingSent,
               NoteTransaction, SendTransaction, ReceiptAnswered, ReadSessionKeyBound,
               NoteCircleKey, CircleCreate, CirclePolled
        <3>3. QED
            BY <1>2, <3>1, <3>2
    <2>3. QED
        BY <2>1, <2>2
<1>4. CASE Restart
    <2>1. Record(row'[i]) \in {Record(row[i]), "open"} /\ pay'[i] = pay[i]
          /\ crashes' = crashes + 1
        BY <1>1, <1>4 DEF Restart, EndKept, Record
    <2>2. Promise(i)!Restart
        BY <2>1 DEF Promise!Restart, Record
    <2>3. QED
        BY <2>2 DEF PromiseStep, Promise!Next
<1>5. CASE Flush \/ Midnight \/ UNCHANGED vars
    BY <1>2, <1>5 DEF Flush, Midnight, vars
<1>6. QED
    BY <1>3, <1>4, <1>5, SettleKeepsPromise DEF Next

LEMMA PromiseInit == Init => EndsKept /\ \A i \in Ix : Promise(i)!Init
<1> SUFFICES ASSUME Init, NEW i \in Ix PROVE EndKept(i) /\ Promise(i)!Init
    BY DEF EndsKept
<1>1. row[i] = NoRow /\ disk.row[i] = NoRow /\ crashes = 0 /\ Landed(pay[i]) = {}
    BY DEF Init, Landed
<1>2. Record(row[i]) = "open"
    BY <1>1 DEF Record, NoRow
<1>3. QED
    BY <1>1, <1>2 DEF EndKept, Promise!Init

(* Every instruction implements the promise of SpendPromise, for any number *)
(* of instructions, payments, days and restarts: it moves money once; it is *)
(* recorded as settled or closed only when that is true of the money; and   *)
(* no end is taken back but by a restart that had not saved it.             *)
THEOREM PromiseKept == Spec /\ Careful => KeepsPromise
<1>1. Init => EndsKept /\ \A i \in Ix : Promise(i)!Init
    BY PromiseInit
<1>2. SettlementInv /\ EndsKept /\ [Next]_vars => EndsKept'
    BY EndsKeptStep
<1>3. SettlementInv /\ EndsKept /\ PaysAtMostOnce /\ RecordIsTrue /\ RecordIsTrue' /\ [Next]_vars
        => [\A i \in Ix : PromiseStep(i)]_vars
    BY StepKeepsPromise
<1>4. QED
    BY <1>1, <1>2, <1>3, SettlementInvariant, CarefulIsSafe, PaysOnce, RecordsAreTrue, PTL
    DEF Spec, KeepsPromise
=============================================================================
