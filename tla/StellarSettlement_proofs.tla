----------------------- MODULE StellarSettlement_proofs -----------------------
(* Proofs about StellarSettlement, for any number of requests, payments and *)
(* transactions and any setting.                                            *)
EXTENDS StellarSettlement, FiniteSetTheorems, TLAPS

(* Where a request holds its key, and has its money.                        *)
Holding == {"simulate", "budget", "send", "confirm", "settled", "key", "ambiguous", "reverted"}
Past    == {"settled", "key", "serve"}
Outcome == {"confirm", "settled", "key", "ambiguous", "reverted", "serve"}

Typed ==
    /\ setting \in Settings
    /\ moved \in SUBSET Pays
    /\ hash \in [Hashes -> {"open", "landed", "failed", "other"}]
    /\ tx \in [Tx -> [state : TxStates, pays : SUBSET Auths]]
    /\ settled \in SUBSET Pays
    /\ spent \in SUBSET Pays
    /\ inFlight \in SUBSET Pays
    /\ q \in [Req -> Request]
    /\ calls \in [Pays -> Nat]
    /\ lapses \in [Pays -> Nat]

(* What landed moved the money of what it pays.                             *)
LandedMoved ==
    /\ \A t \in Tx : tx[t].state = "landed" => tx[t].pays \subseteq moved
    /\ \A p \in Hashes : p \in moved <=> hash[p] = "landed"

(* What a request knows of its transaction at each stage.                   *)
RequestOk(r) ==
    /\ q[r].stage \in {"idle", "keys", "guard", "simulate", "budget", "send"} => q[r].tx = 0
    /\ q[r].stage \in {"simulate", "budget", "send", "reverted"} => Signed(r)
    /\ Signed(r) /\ q[r].stage \in Outcome
         => q[r].tx \in Tx /\ tx[q[r].tx].pays = {Pay(r)} /\ tx[q[r].tx].state # "unsent"
    /\ q[r].stage = "reverted" => tx[q[r].tx].state = "failed"
    /\ q[r].stage \in Past => Pay(r) \in moved
    /\ q[r].stage \in Holding => Pay(r) \in inFlight

(* One request at a time holds the key of a payment.                        *)
Exclusive ==
    \A r, s \in Req :
        q[r].stage \in Holding /\ q[s].stage \in Holding /\ Pay(r) = Pay(s) => r = s

BooksInv ==
    /\ Typed /\ LandedMoved /\ Exclusive
    /\ \A r \in Req : RequestOk(r)
    /\ settled \cup spent \subseteq moved

RequestsOk ==
    /\ q \in [Req -> Request] /\ inFlight \in SUBSET Pays
    /\ LandedMoved /\ Exclusive
    /\ \A r \in Req : RequestOk(r)

LEMMA IdleType == Idle \in Request
<1>1. 0 \in 0..MaxTx
    BY StellarAssumption
<1>2. QED
    BY <1>1 DEF Idle, Request, Stages

LEMMA RequestType ==
    ASSUME NEW x \in Request, NEW b \in BOOLEAN, NEW stage \in Stages
    PROVE  /\ [x EXCEPT !.refused = b] \in Request
           /\ [x EXCEPT !.stage = stage, !.saw = b] \in Request
           /\ [x EXCEPT !.stage = stage, !.saw = b].stage = stage
           /\ [x EXCEPT !.stage = stage, !.saw = b].tx = x.tx
           /\ [x EXCEPT !.stage = stage] \in Request
    BY DEF Request

LEMMA SettingType ==
    ASSUME setting \in Settings
    PROVE  /\ \A r \in Req : Pay(r) \in Pays
           /\ setting.broadcaster \in {"self", "oz"}
    BY StellarAssumption DEF Pay

LEMMA BooksInit == Init => BooksInv
<1> SUFFICES ASSUME Init PROVE BooksInv
    OBVIOUS
<1>1. Idle \in Request
    BY IdleType
<1>2. Typed
    BY <1>1 DEF Init, Typed, TxStates
<1>3. LandedMoved
    BY DEF Init, LandedMoved
<1>4. \A r \in Req : RequestOk(r)
    BY DEF Init, RequestOk, Idle, Holding, Past, Outcome
<1>5. Exclusive
    BY DEF Init, Exclusive, Idle, Holding
<1>6. QED
    BY <1>2, <1>3, <1>4, <1>5 DEF BooksInv, Init

(* A step of one request that leaves the ledger alone. The key it lets go   *)
(* of is its own, and the key it takes is free.                             *)
LEMMA RequestStep ==
    ASSUME BooksInv, NEW r \in Req, UNCHANGED <<setting, moved, hash, tx>>,
           NEW to \in Request, q' = [q EXCEPT ![r] = to],
           \/ inFlight' = inFlight /\ (to.stage \in Holding => q[r].stage \in Holding)
           \/ inFlight' = inFlight \cup {Pay(r)} /\ Pay(r) \notin inFlight
           \/ inFlight' = inFlight \ {Pay(r)} /\ q[r].stage \in Holding /\ to.stage \notin Holding,
           RequestOk(r)'
    PROVE  RequestsOk'
<1>1. q' \in [Req -> Request] /\ inFlight' \in SUBSET Pays
    BY SettingType DEF BooksInv, Typed
<1>2. /\ \A s \in Req : s # r => q'[s] = q[s]
      /\ q'[r] = to
      /\ \A s \in Req : Pay(s)' = Pay(s) /\ (Signed(s)' <=> Signed(s))
    BY DEF BooksInv, Typed, Pay, Signed
<1>3. ASSUME NEW s \in Req, s # r PROVE RequestOk(s)'
  <2>1. q'[s] = q[s] /\ RequestOk(s)
    BY <1>2, <1>3 DEF BooksInv
  <2>2. q[s].stage \in Holding => Pay(s) \in inFlight'
    BY <1>3, <2>1 DEF RequestOk, BooksInv, Exclusive
  <2>3. QED
    BY <1>2, <2>1, <2>2 DEF RequestOk
<1>4. Exclusive'
  <2>1. ASSUME NEW s \in Req, s # r, q[s].stage \in Holding, Pay(s) = Pay(r), to.stage \in Holding
        PROVE  FALSE
    BY <2>1 DEF BooksInv, Exclusive, RequestOk
  <2>2. QED
    BY <1>2, <2>1 DEF BooksInv, Exclusive
<1>5. LandedMoved'
    BY DEF BooksInv, LandedMoved
<1>6. QED
    BY <1>1, <1>2, <1>3, <1>4, <1>5 DEF RequestsOk, BooksInv

(* A request answers, letting go of the key it holds if it has one.         *)
LEMMA SayStep ==
    ASSUME BooksInv, NEW r \in Req, NEW refused \in BOOLEAN, Say(r, refused),
           UNCHANGED <<setting, moved, hash, tx>>,
           inFlight' = inFlight \/ (LetGo(r) /\ q[r].stage \in Holding)
    PROVE  RequestsOk'
<1> DEFINE to == [Idle EXCEPT !.refused = refused]
<1>1. to \in Request /\ to.stage = "idle" /\ to.tx = 0
  <2>1. to \in Request
    BY IdleType, RequestType, "idle" \in Stages DEF Stages
  <2>2. to.stage = "idle" /\ to.tx = 0
    BY DEF Idle
  <2>3. QED
    BY <2>1, <2>2
<1>2. q' = [q EXCEPT ![r] = to]
    BY DEF Say
<1>3. q'[r] = to
    BY <1>2 DEF BooksInv, Typed
<1>4. RequestOk(r)'
    BY <1>1, <1>3 DEF RequestOk, Holding, Past, Outcome
<1>5. to.stage \notin Holding
    BY <1>1 DEF Holding
<1>6. QED
    BY <1>1, <1>2, <1>4, <1>5, RequestStep DEF LetGo

(* A request that holds its key goes on.                                    *)
LEMMA GoStep ==
    ASSUME BooksInv, NEW r \in Req, NEW stage \in Stages, Go(r, stage),
           UNCHANGED <<setting, moved, hash, tx>>,
           q[r].stage \in Holding,
           \/ inFlight' = inFlight
           \/ LetGo(r) /\ stage \notin Holding,
           RequestOk(r)'
    PROVE  RequestsOk'
<1> DEFINE to == [q[r] EXCEPT !.stage = stage]
<1>1. to \in Request /\ to.stage = stage
    BY DEF BooksInv, Typed, Request
<1>2. q' = [q EXCEPT ![r] = to]
    BY DEF Go
<1>3. QED
    BY <1>1, <1>2, RequestStep DEF LetGo

LEMMA VerifyKept == ASSUME BooksInv, NEW r \in Req, Verify(r) PROVE BooksInv'
<1> DEFINE to == [Idle EXCEPT !.stage = "keys"]
<1>1. UNCHANGED <<setting, moved, hash, tx, settled, spent, inFlight, calls, lapses>>
    BY DEF Verify, world, ledger, books
<1>2. CASE Refuse(r)
    BY <1>1, <1>2, SayStep DEF Refuse, RequestsOk, BooksInv, Typed
<1>3. CASE q' = [q EXCEPT ![r] = to]
  <2>1. to \in Request /\ to.stage = "keys" /\ to.tx = 0
    BY IdleType, RequestType DEF Idle, Stages
  <2>2. q'[r] = to
    BY <1>3 DEF BooksInv, Typed
  <2>3. RequestOk(r)'
    BY <2>1, <2>2 DEF RequestOk, Holding, Past, Outcome
  <2>4. RequestsOk'
    BY <1>1, <1>3, <2>1, <2>3, RequestStep DEF Holding
  <2>5. QED
    BY <1>1, <2>4 DEF RequestsOk, BooksInv, Typed
<1>4. QED
    BY <1>2, <1>3 DEF Verify

LEMMA LoadSpentKept == ASSUME BooksInv, NEW r \in Req, LoadSpent(r) PROVE BooksInv'
<1> DEFINE to == [q[r] EXCEPT !.stage = "guard", !.saw = Pay(r) \in spent]
<1>1. UNCHANGED <<setting, moved, hash, tx, settled, spent, inFlight, calls, lapses>>
    BY DEF LoadSpent, world, ledger, books
<1>2. CASE Refuse(r)
    BY <1>1, <1>2, SayStep DEF Refuse, RequestsOk, BooksInv, Typed
<1>3. CASE q' = [q EXCEPT ![r] = to]
  <2>1. to \in Request /\ to.stage = "guard" /\ to.tx = 0
    <3>1. q[r] \in Request /\ q[r].tx = 0 /\ (Pay(r) \in spent) \in BOOLEAN /\ "guard" \in Stages
        BY DEF LoadSpent, BooksInv, Typed, Stages, RequestOk
    <3>2. QED
        BY <3>1, RequestType
  <2>2. q'[r] = to
    BY <1>3 DEF BooksInv, Typed
  <2>3. RequestOk(r)'
    BY <2>1, <2>2 DEF RequestOk, Holding, Past, Outcome
  <2>4. RequestsOk'
    BY <1>1, <1>3, <2>1, <2>3, RequestStep DEF Holding
  <2>5. QED
    BY <1>1, <2>4 DEF RequestsOk, BooksInv, Typed
<1>4. QED
    BY <1>2, <1>3 DEF LoadSpent

(* The lapses of a payment only grow.                                       *)
LEMMA LapseType ==
    ASSUME BooksInv, NEW r \in Req, Lapse(Pay(r)) \/ UNCHANGED lapses
    PROVE  lapses' \in [Pays -> Nat]
    BY SettingType DEF BooksInv, Typed, Lapse

LEMMA GuardKept == ASSUME BooksInv, NEW r \in Req, Guard(r) PROVE BooksInv'
<1>1. UNCHANGED <<setting, moved, hash, tx, settled, spent, calls>>
    BY DEF Guard, world, ledger, books
<1>2. lapses' \in [Pays -> Nat]
    BY LapseType DEF Guard
<1>3. CASE Refuse(r) /\ UNCHANGED inFlight
    BY <1>1, <1>2, <1>3, SayStep DEF Refuse, RequestsOk, BooksInv, Typed
<1>4. ASSUME Pay(r) \notin inFlight, inFlight' = inFlight \cup {Pay(r)},
             Go(r, IF Signed(r) THEN "simulate" ELSE "confirm")
      PROVE  BooksInv'
  <2> DEFINE to == [q[r] EXCEPT !.stage = IF Signed(r) THEN "simulate" ELSE "confirm"]
  <2>1. /\ to \in Request /\ to.tx = 0
        /\ to.stage = IF Signed(r) THEN "simulate" ELSE "confirm"
    BY DEF Guard, BooksInv, Typed, Request, Stages, RequestOk
  <2>2. q'[r] = to /\ q' = [q EXCEPT ![r] = to]
    BY <1>4 DEF Go, BooksInv, Typed
  <2>3. RequestOk(r)'
    BY <1>1, <1>4, <2>1, <2>2 DEF RequestOk, Past, Outcome, Signed, Pay
  <2>4. RequestsOk'
    BY <1>1, <1>4, <2>1, <2>2, <2>3, RequestStep
  <2>5. QED
    BY <1>1, <1>2, <2>4 DEF RequestsOk, BooksInv, Typed
<1>5. QED
    BY <1>3, <1>4 DEF Guard

LEMMA SimulateKept == ASSUME BooksInv, NEW r \in Req, Simulate(r) PROVE BooksInv'
<1>1. UNCHANGED <<setting, moved, hash, tx, settled, spent, calls, lapses>>
    BY DEF Simulate, world, ledger, books
<1>2. q[r].stage = "simulate"
    BY DEF Simulate
<1>3. CASE Reject(r)
    BY <1>1, <1>2, <1>3, SayStep DEF Reject, Refuse, RequestsOk, BooksInv, Typed, Holding
<1>4. CASE Go(r, "budget") /\ UNCHANGED inFlight
  <2>1. q'[r] = [q[r] EXCEPT !.stage = "budget"]
    BY <1>4 DEF Go, BooksInv, Typed
  <2>2. RequestOk(r)'
    BY <1>1, <1>2, <1>4, <2>1
    DEF BooksInv, Typed, Request, RequestOk, Past, Outcome, Signed, Pay, Holding
  <2>3. QED
    BY <1>1, <1>2, <1>4, <2>2, GoStep DEF RequestsOk, BooksInv, Typed, Holding, Stages
<1>5. QED
    BY <1>3, <1>4 DEF Simulate

LEMMA BudgetKept == ASSUME BooksInv, NEW r \in Req, Budget(r) PROVE BooksInv'
<1>1. UNCHANGED <<setting, moved, hash, tx, settled, spent, calls, lapses>>
    BY DEF Budget, world, ledger, books
<1>2. q[r].stage = "budget"
    BY DEF Budget
<1>3. CASE Reject(r)
    BY <1>1, <1>2, <1>3, SayStep DEF Reject, Refuse, RequestsOk, BooksInv, Typed, Holding
<1>4. CASE Go(r, "send") /\ UNCHANGED inFlight
  <2>1. q'[r] = [q[r] EXCEPT !.stage = "send"]
    BY <1>4 DEF Go, BooksInv, Typed
  <2>2. RequestOk(r)'
    BY <1>1, <1>2, <1>4, <2>1
    DEF BooksInv, Typed, Request, RequestOk, Past, Outcome, Signed, Pay, Holding
  <2>3. QED
    BY <1>1, <1>2, <1>4, <2>2, GoStep DEF RequestsOk, BooksInv, Typed, Holding, Stages
<1>5. QED
    BY <1>3, <1>4 DEF Budget

(* A transaction was posted or thrown away for one payment, the others are  *)
(* as they were.                                                            *)
LEMMA SendKept == ASSUME BooksInv, NEW r \in Req, Send(r) PROVE BooksInv'
<1>1. UNCHANGED <<setting, moved, hash, settled, spent, calls, lapses>>
    BY DEF Send, books
<1>2. q[r].stage \in {"simulate", "send"} /\ Signed(r) /\ Pay(r) \in inFlight
    BY DEF Send, BooksInv, RequestOk, Holding
<1>3. CASE Reject(r) /\ UNCHANGED tx
    BY <1>1, <1>2, <1>3, SayStep DEF Reject, Refuse, RequestsOk, BooksInv, Typed, Holding
<1>4. ASSUME NEW t \in Tx, tx[t].state = "unsent", Posted(r, t) \/ Thrown(r, t),
             \/ UNCHANGED inFlight /\ \E stage \in {"confirm", "ambiguous"} : Turn(r, stage, t)
             \/ \E b \in BOOLEAN : Say(r, b) /\ LetGo(r)
      PROVE  BooksInv'
  <2>1. PICK state \in {"open", "gone"} : tx' = [tx EXCEPT ![t] = [state |-> state, pays |-> {Pay(r)}]]
    BY <1>4 DEF Posted, Thrown
  <2>2. tx' \in [Tx -> [state : TxStates, pays : SUBSET Auths]]
    BY <1>2, <2>1 DEF BooksInv, Typed, TxStates, Signed
  <2>3. /\ tx'[t] = [state |-> state, pays |-> {Pay(r)}]
        /\ \A u \in Tx : u # t => tx'[u] = tx[u]
    BY <2>1 DEF BooksInv, Typed
  <2>4. LandedMoved'
    BY <1>1, <2>2, <2>3 DEF BooksInv, LandedMoved
  <2>5. ASSUME NEW s \in Req, q'[s] = q[s], q[s].stage \in Holding => Pay(s) \in inFlight'
        PROVE  RequestOk(s)'
    <3>1. RequestOk(s) /\ Pay(s)' = Pay(s) /\ (Signed(s)' <=> Signed(s))
      BY <1>1 DEF BooksInv, Pay, Signed
    <3>2. q[s].stage \in Outcome /\ Signed(s) => tx'[q[s].tx] = tx[q[s].tx]
      BY <1>4, <2>3, <3>1 DEF RequestOk
    <3>3. q[s].stage = "reverted" => q[s].stage \in Outcome /\ Signed(s)
      BY <3>1 DEF RequestOk, Outcome
    <3>4. QED
      BY <1>1, <2>5, <3>1, <3>2, <3>3 DEF RequestOk
  <2>6. ASSUME NEW b \in BOOLEAN, Say(r, b), LetGo(r) PROVE BooksInv'
    <3>1. q' = [q EXCEPT ![r] = [Idle EXCEPT !.refused = b]]
      BY <2>6 DEF Say
    <3>2. /\ [Idle EXCEPT !.refused = b] \in Request
          /\ [Idle EXCEPT !.refused = b].stage = "idle"
          /\ [Idle EXCEPT !.refused = b].tx = 0
      <4>1. [Idle EXCEPT !.refused = b] \in Request
        BY IdleType, RequestType, "idle" \in Stages DEF Stages
      <4>2. QED
        BY <4>1 DEF Idle
    <3>3. q' \in [Req -> Request] /\ q'[r].stage = "idle" /\ q'[r].tx = 0
      BY <3>1, <3>2 DEF BooksInv, Typed
    <3>4. \A s \in Req : s # r => q'[s] = q[s]
      BY <3>1 DEF BooksInv, Typed
    <3>5. inFlight' = inFlight \ {Pay(r)}
      BY <2>6 DEF LetGo
    <3>6. ASSUME NEW s \in Req PROVE RequestOk(s)'
      <4>1. CASE s = r
        BY <3>3, <4>1 DEF RequestOk, Holding, Past, Outcome
      <4>2. CASE s # r
        <5>1. q[s].stage \in Holding => Pay(s) \in inFlight'
          BY <1>2, <3>5, <4>2 DEF BooksInv, RequestOk, Exclusive, Holding
        <5>2. QED
          BY <2>5, <3>4, <4>2, <5>1
      <4>3. QED
        BY <4>1, <4>2
    <3>7. Exclusive'
      BY <1>1, <3>3, <3>4 DEF BooksInv, Exclusive, Holding, Pay
    <3>8. QED
      BY <1>1, <2>2, <2>4, <3>3, <3>5, <3>6, <3>7 DEF BooksInv, Typed
  <2>7. ASSUME NEW stage \in {"confirm", "ambiguous"}, Turn(r, stage, t), UNCHANGED inFlight
        PROVE  BooksInv'
    <3>1. q' = [q EXCEPT ![r].stage = stage, ![r].tx = t]
      BY <2>7 DEF Turn
    <3>2. /\ q' \in [Req -> Request] /\ q'[r].stage = stage /\ q'[r].tx = t
          /\ \A s \in Req : s # r => q'[s] = q[s]
      <4>1. t \in 0..MaxTx
        BY StellarAssumption DEF Tx
      <4>2. QED
        BY <3>1, <4>1 DEF BooksInv, Typed, Request, Stages
    <3>3. ASSUME NEW s \in Req PROVE RequestOk(s)'
      <4>1. CASE s = r
        BY <1>1, <1>2, <2>3, <2>7, <3>2, <4>1 DEF RequestOk, Past, Outcome, Pay, Signed
      <4>2. CASE s # r
        <5>1. q[s].stage \in Holding => Pay(s) \in inFlight'
          BY <2>7 DEF BooksInv, RequestOk
        <5>2. QED
          BY <2>5, <3>2, <4>2, <5>1
      <4>3. QED
        BY <4>1, <4>2
    <3>4. Exclusive'
      BY <1>1, <1>2, <3>2 DEF BooksInv, Exclusive, Holding, Pay
    <3>5. QED
      BY <1>1, <2>2, <2>4, <2>7, <3>2, <3>3, <3>4 DEF BooksInv, Typed
  <2>8. QED
    BY <1>4, <2>6, <2>7
<1>5. QED
  <2>1. ASSUME NEW t \in Tx, Next1(t),
               \/ Posted(r, t) /\ Turn(r, "confirm", t) /\ UNCHANGED inFlight
               \/ /\ Posted(r, t) \/ Thrown(r, t)
                  /\ IF Ours THEN Turn(r, "ambiguous", t) /\ UNCHANGED inFlight ELSE Unsure(r)
               \/ Posted(r, t) /\ Reject(r)
        PROVE  BooksInv'
    <3>1. Unsure(r) \/ Reject(r) => \E b \in BOOLEAN : Say(r, b) /\ LetGo(r)
      BY DEF Unsure, Reject, Refuse
    <3>2. QED
      BY <1>4, <2>1, <3>1 DEF Next1
  <2>2. QED
    BY <1>3, <2>1 DEF Send

LEMMA ConfirmKept == ASSUME BooksInv, NEW r \in Req, Confirm(r) PROVE BooksInv'
<1>1. UNCHANGED <<setting, moved, hash, tx, settled, spent, calls, lapses>>
    BY DEF Confirm, world, ledger, books
<1>2. q[r].stage = "confirm" /\ RequestOk(r) /\ Pay(r) \in Pays
    BY SettingType DEF Confirm, BooksInv, Typed
<1>3. CASE Reject(r)
    BY <1>1, <1>2, <1>3, SayStep DEF Reject, Refuse, RequestsOk, BooksInv, Typed, Holding
<1>4. ASSUME NEW stage \in {"settled", "ambiguous", "reverted"}, Go(r, stage), UNCHANGED inFlight,
             stage = "settled" => "confirmed" \in Seen(r),
             stage = "reverted" => "tx_failed" \in Seen(r) /\ Signed(r)
      PROVE  BooksInv'
  <2>1. q'[r] = [q[r] EXCEPT !.stage = stage]
    BY <1>4 DEF Go, BooksInv, Typed
  <2>2. q'[r].stage = stage /\ q'[r].tx = q[r].tx
    BY <2>1 DEF BooksInv, Typed, Request
  <2>3. CASE stage = "settled"
    <3>1. Pay(r) \in moved
      <4>1. CASE Signed(r)
        <5>1. tx[q[r].tx].state = "landed"
          BY <1>2, <1>4, <2>3, <4>1 DEF Seen, RequestOk, Outcome
        <5>2. QED
          BY <1>2, <4>1, <5>1 DEF BooksInv, LandedMoved, RequestOk, Outcome
      <4>2. CASE ~Signed(r)
        <5>1. hash[Pay(r)] = "landed"
          BY <1>2, <1>4, <2>3, <4>2 DEF Seen
        <5>2. QED
          BY <1>2, <4>2, <5>1 DEF BooksInv, LandedMoved, Signed, Pays
      <4>3. QED
        BY <4>1, <4>2
    <3>2. QED
      BY <1>1, <1>2, <1>4, <2>2, <2>3, <3>1, GoStep
      DEF RequestOk, Past, Outcome, Pay, Signed, Holding, Stages, RequestsOk, BooksInv, Typed
  <2>4. CASE stage = "ambiguous"
    BY <1>1, <1>2, <1>4, <2>2, <2>4, GoStep
    DEF RequestOk, Past, Outcome, Pay, Signed, Holding, Stages, RequestsOk, BooksInv, Typed
  <2>5. CASE stage = "reverted"
    <3>1. tx[q[r].tx].state = "failed"
      BY <1>2, <1>4, <2>5 DEF Seen
    <3>2. RequestOk(r)'
      BY <1>1, <1>2, <1>4, <2>2, <2>5, <3>1 DEF RequestOk, Past, Outcome, Pay, Signed, Holding
    <3>3. QED
      BY <1>1, <1>2, <1>4, <2>5, <3>2, GoStep DEF Holding, Stages, RequestsOk, BooksInv, Typed
  <2>6. QED
    BY <2>3, <2>4, <2>5
<1>5. QED
    BY <1>3, <1>4 DEF Confirm

LEMMA PersistUnsettledKept == ASSUME BooksInv, NEW r \in Req, PersistUnsettled(r) PROVE BooksInv'
<1>1. UNCHANGED <<setting, moved, hash, tx, settled, spent, calls, lapses>>
    BY DEF PersistUnsettled, world, ledger
<1>2. q[r].stage \in {"ambiguous", "reverted"}
    BY DEF PersistUnsettled
<1>3. QED
    BY <1>1, <1>2, SayStep
    DEF PersistUnsettled, Reject, Refuse, Unsure, RequestsOk, BooksInv, Typed, Holding

LEMMA PersistSettledKept == ASSUME BooksInv, NEW r \in Req, PersistSettled(r) PROVE BooksInv'
<1>1. /\ UNCHANGED <<setting, moved, hash, tx, spent, inFlight, calls, lapses>>
      /\ q[r].stage = "settled" /\ Go(r, "key")
      /\ settled' \in {settled, settled \cup {Pay(r)}}
    BY DEF PersistSettled, world, ledger
<1>2. RequestOk(r) /\ Pay(r) \in Pays
    BY SettingType DEF BooksInv, Typed
<1>3. Pay(r) \in moved
    BY <1>1, <1>2 DEF RequestOk, Past
<1>4. q'[r].stage = "key" /\ q'[r].tx = q[r].tx
    BY <1>1 DEF Go, BooksInv, Typed, Request
<1>5. RequestOk(r)'
    BY <1>1, <1>2, <1>3, <1>4 DEF RequestOk, Past, Outcome, Pay, Signed, Holding
<1>6. QED
    BY <1>1, <1>2, <1>3, <1>5, GoStep DEF Holding, Stages, RequestsOk, BooksInv, Typed

LEMMA PersistSpentKept == ASSUME BooksInv, NEW r \in Req, PersistSpent(r) PROVE BooksInv'
<1>1. /\ UNCHANGED <<setting, moved, hash, tx, settled, calls>>
      /\ q[r].stage = "key" /\ Go(r, "serve") /\ LetGo(r)
      /\ spent' \in {spent, spent \cup {Pay(r)}}
    BY DEF PersistSpent, world, ledger, LetGo
<1>2. RequestOk(r) /\ Pay(r) \in Pays
    BY SettingType DEF BooksInv, Typed
<1>3. Pay(r) \in moved
    BY <1>1, <1>2 DEF RequestOk, Past
<1>4. q'[r].stage = "serve" /\ q'[r].tx = q[r].tx
    BY <1>1 DEF Go, BooksInv, Typed, Request
<1>5. RequestOk(r)'
    BY <1>1, <1>2, <1>3, <1>4 DEF RequestOk, Past, Outcome, Pay, Signed, Holding
<1>6. lapses' \in [Pays -> Nat]
    BY LapseType DEF PersistSpent
<1>7. QED
    BY <1>1, <1>2, <1>3, <1>5, <1>6, GoStep DEF Holding, Stages, RequestsOk, BooksInv, Typed

LEMMA ServeKept == ASSUME BooksInv, NEW r \in Req, Serve(r) PROVE BooksInv'
<1>1. /\ UNCHANGED <<setting, moved, hash, tx, settled, spent, inFlight, lapses>>
      /\ Say(r, FALSE)
    BY DEF Serve, world, ledger, books
<1>2. calls' \in [Pays -> Nat]
  <2>1. calls \in [Pays -> Nat] /\ Pay(r) \in Pays
    BY SettingType DEF BooksInv, Typed
  <2>2. calls' = calls \/ calls' = [calls EXCEPT ![Pay(r)] = calls[Pay(r)] + 1]
    BY DEF Serve
  <2>3. QED
    BY <2>1, <2>2
<1>3. QED
    BY <1>1, <1>2, SayStep DEF RequestsOk, BooksInv, Typed

(* What the ledger does keeps what a request knows of its transaction.      *)
LEMMA LedgerKept ==
    ASSUME BooksInv, (\E t \in Tx : Close(t)) \/ (\E p \in Hashes : CloseHash(p)) \/ Tick
    PROVE  BooksInv'
<1>1. /\ UNCHANGED <<setting, settled, spent, inFlight, q, calls, lapses>>
      /\ moved \subseteq moved' /\ moved' \in SUBSET Pays
    BY DEF Close, CloseHash, Tick, books, BooksInv, Typed, Pays
<1>2. /\ tx' \in [Tx -> [state : TxStates, pays : SUBSET Auths]]
      /\ hash' \in [Hashes -> {"open", "landed", "failed", "other"}]
    BY DEF Close, CloseHash, Tick, BooksInv, Typed, TxStates
<1>3. \A t \in Tx : /\ tx'[t].pays = tx[t].pays
                    /\ tx[t].state # "unsent" => tx'[t].state # "unsent"
                    /\ tx[t].state = "failed" => tx'[t].state = "failed"
    BY DEF Close, CloseHash, Tick, BooksInv, Typed, TxStates
<1>4. LandedMoved'
  <2>1. ASSUME NEW t \in Tx, Close(t) PROVE LandedMoved'
    <3>1. \A p \in Hashes : p \in moved' <=> p \in moved
      BY <2>1, StellarAssumption DEF Close, BooksInv, Typed
    <3>2. hash' = hash
      BY <2>1 DEF Close
    <3>3. \A u \in Tx : tx'[u].state = "landed" => tx'[u].pays \subseteq moved'
      BY <2>1 DEF Close, BooksInv, Typed, LandedMoved
    <3>4. QED
      BY <3>1, <3>2, <3>3 DEF LandedMoved, BooksInv
  <2>2. ASSUME NEW p \in Hashes, CloseHash(p) PROVE LandedMoved'
    BY <2>2 DEF CloseHash, BooksInv, Typed, LandedMoved
  <2>3. CASE Tick
    BY <2>3 DEF Tick, BooksInv, LandedMoved
  <2>4. QED
    BY <2>1, <2>2, <2>3
<1>5. ASSUME NEW r \in Req PROVE RequestOk(r)'
  <2>1. RequestOk(r) /\ (Signed(r)' <=> Signed(r)) /\ Pay(r)' = Pay(r)
    BY <1>1 DEF BooksInv, Signed, Pay
  <2>2. QED
    BY <1>1, <1>3, <2>1 DEF RequestOk, Outcome
<1>6. Exclusive'
    BY <1>1 DEF BooksInv, Exclusive, Pay
<1>7. QED
    BY <1>1, <1>2, <1>4, <1>5, <1>6 DEF BooksInv, Typed

LEMMA RestartKept == ASSUME BooksInv, Restart PROVE BooksInv'
<1>1. UNCHANGED <<setting, moved, hash, tx, settled, spent, calls, lapses>>
    BY DEF Restart, ledger
<1>2. q' = [r \in Req |-> Idle] /\ inFlight' = {}
    BY DEF Restart
<1>3. \A r \in Req : q'[r].stage = "idle" /\ q'[r].tx = 0
    BY <1>2 DEF Idle
<1>4. QED
    BY <1>1, <1>2, <1>3, IdleType
    DEF BooksInv, Typed, LandedMoved, Exclusive, RequestOk, Holding, Past, Outcome

LEMMA BooksStep == BooksInv /\ [Next]_vars => BooksInv'
<1> SUFFICES ASSUME BooksInv, [Next]_vars PROVE BooksInv'
    OBVIOUS
<1>1. ASSUME NEW r \in Req, Handle(r) PROVE BooksInv'
    BY <1>1, VerifyKept, LoadSpentKept, GuardKept, SimulateKept, BudgetKept, SendKept, ConfirmKept,
       PersistUnsettledKept, PersistSettledKept, PersistSpentKept, ServeKept DEF Handle
<1>2. CASE UNCHANGED vars
    BY <1>2 DEF vars, ledger, books, BooksInv, Typed, LandedMoved, Exclusive, RequestOk, Pay, Signed
<1>3. QED
    BY <1>1, <1>2, LedgerKept, RestartKept DEF Next

(* A settled row and a spent key only for money that moved, for any number  *)
(* of requests, restarts and failures: a retry is never refused as a replay *)
(* of a payment that did not land (persistSettled, persistSpent).           *)
THEOREM BooksTrue == Spec => []BooksAreTrue
<1>1. BooksInv => BooksAreTrue
    BY DEF BooksInv, BooksAreTrue
<1>2. QED
    BY <1>1, BooksInit, BooksStep, PTL DEF Spec

-----------------------------------------------------------------------------
(* What a request answers, by the stage it answers at.                      *)
LEMMA RefusedByItself ==
    ASSUME BooksInv, [Next]_vars, NEW r \in Req, Refused(r)
    PROVE  Handle(r)
<1>1. CASE \E s \in Req : Handle(s)
  <2>1. PICK s \in Req : Handle(s)
    BY <1>1
  <2>2. ASSUME s # r PROVE q'[r] = q[r]
    BY <2>1, <2>2 DEF Handle, Verify, LoadSpent, Guard, Simulate, Budget, Send, Confirm,
       PersistUnsettled, PersistSettled, PersistSpent, Serve, Refuse, Reject, Unsure, Say,
       Go, Turn, BooksInv, Typed
  <2>3. QED
    BY <2>1, <2>2 DEF Refused
<1>2. CASE Restart
    BY <1>2 DEF Restart, Refused, Idle
<1>3. CASE (\E t \in Tx : Close(t)) \/ (\E p \in Hashes : CloseHash(p)) \/ Tick \/ UNCHANGED vars
    BY <1>3 DEF Close, CloseHash, Tick, vars, Refused
<1>4. QED
    BY <1>1, <1>2, <1>3 DEF Next

LEMMA SaidToIt ==
    ASSUME BooksInv, NEW r \in Req, Say(r, FALSE), Refused(r)
    PROVE  FALSE
    BY DEF Say, Refused, Idle, BooksInv, Typed

LEMMA GoesOn ==
    ASSUME BooksInv, NEW r \in Req, NEW stage, Go(r, stage), stage # "idle", Refused(r)
    PROVE  FALSE
    BY DEF Go, Refused, BooksInv, Typed, Request

(* Only these answers are refusals.                                         *)
LEMMA RefusedAt ==
    ASSUME BooksInv, NEW r \in Req, Handle(r), Refused(r)
    PROVE  \/ q[r].stage \in {"keys", "guard", "simulate", "budget"}
           \/ q[r].stage = "send"
           \/ q[r].stage = "confirm" /\ (~Signed(r) => hash[Pay(r)] \in {"failed", "other"})
                                     /\ (Signed(r) => tx[q[r].tx].state = "other")
           \/ q[r].stage = "reverted"
<1>1. CASE Verify(r)
    BY <1>1 DEF Verify, Refused
<1>2. CASE LoadSpent(r) \/ Guard(r) \/ Simulate(r) \/ Budget(r)
    BY <1>2 DEF LoadSpent, Guard, Simulate, Budget
<1>3. CASE Send(r)
    BY <1>3 DEF Send
<1>4. CASE Confirm(r)
  <2>1. Seen(r) \subseteq {"blind", "confirmed", "tx_failed", "mismatch"}
    BY DEF Seen
  <2>2. ~Go(r, "settled") /\ ~Go(r, "ambiguous") /\ ~Go(r, "reverted")
    BY GoesOn
  <2>3. \/ "tx_failed" \in Seen(r) /\ ~Signed(r)
        \/ "mismatch" \in Seen(r)
    BY <1>4, <2>2 DEF Confirm
  <2>4. QED
    BY <1>4, <2>3 DEF Confirm, Seen
<1>5. CASE PersistUnsettled(r)
    BY <1>5, SaidToIt DEF PersistUnsettled, Unsure
<1>6. CASE PersistSettled(r) \/ PersistSpent(r)
    BY <1>6, GoesOn DEF PersistSettled, PersistSpent
<1>7. CASE Serve(r)
    BY <1>7, SaidToIt DEF Serve
<1>8. QED
    BY <1>1, <1>2, <1>3, <1>4, <1>5, <1>6, <1>7 DEF Handle

(* A transaction that may land is a request's at work, which will answer    *)
(* for it, unless a buyer was told of it or OpenZeppelin answered badly.    *)
Owned ==
    \A t \in Tx, p \in Auths :
        MayLand(t) /\ p \in tx[t].pays /\ p \notin told /\ t \notin unread
          => \E s \in Req : q[s].tx = t /\ Pay(s) = p /\ q[s].stage # "idle"

(* What a step of one request must keep: it goes on with its transaction,   *)
(* or has none that may land, or tells of it.                               *)
LEMMA OwnedStep ==
    ASSUME BooksInv, Owned, NEW r \in Req, UNCHANGED <<setting, tx>>,
           \A s \in Req : s # r => q'[s] = q[s],
           told \subseteq told', unread \subseteq unread',
           \/ q'[r].tx = q[r].tx /\ q'[r].stage # "idle"
           \/ q[r].tx \notin Tx
           \/ q[r].tx \in Tx /\ ~MayLand(q[r].tx)
           \/ Pay(r) \in told'
           \/ ~Signed(r)
    PROVE  Owned'
<1> SUFFICES ASSUME NEW t \in Tx, NEW p \in Auths, MayLand(t)', p \in tx'[t].pays,
                    p \notin told', t \notin unread'
             PROVE  \E s \in Req : q'[s].tx = t /\ Pay(s)' = p /\ q'[s].stage # "idle"
    BY DEF Owned
<1>1. MayLand(t) /\ p \in tx[t].pays /\ p \notin told /\ t \notin unread
    BY DEF MayLand
<1>2. PICK s \in Req : q[s].tx = t /\ Pay(s) = p /\ q[s].stage # "idle"
    BY <1>1 DEF Owned
<1>3. Pay(s)' = p
    BY <1>2 DEF Pay
<1>4. CASE s # r
    BY <1>2, <1>3, <1>4
<1>5. CASE s = r
    BY <1>1, <1>2, <1>3, <1>5 DEF Signed
<1>6. QED
    BY <1>4, <1>5

(* A submission: the transaction is the request's, or a buyer was told of   *)
(* it, or OpenZeppelin answered badly.                                      *)
LEMMA SendOwned == ASSUME BooksInv, Owned, NEW r \in Req, Send(r) PROVE Owned'
<1>1. RequestOk(r) /\ q[r].stage \in {"send", "simulate"} /\ q \in [Req -> Request]
    BY DEF Send, BooksInv, Typed
<1>2. q[r].tx \notin Tx
    BY <1>1, StellarAssumption DEF RequestOk, Tx
<1>3. UNCHANGED setting /\ \A s \in Req : s # r => q'[s] = q[s]
    BY <1>1 DEF Send, Reject, Refuse, Unsure, Say, Turn
<1>4. CASE Reject(r) /\ UNCHANGED <<tx, word>>
    BY <1>2, <1>3, <1>4, OwnedStep DEF word
<1>5. CASE \E t \in Tx : /\ Posted(r, t) \/ Thrown(r, t)
                         /\ told \subseteq told' /\ unread \subseteq unread'
                         /\ \/ q'[r].tx = t /\ q'[r].stage # "idle"
                            \/ Pay(r) \in told'
                            \/ t \in unread'
  <2>1. PICK t \in Tx : /\ Posted(r, t) \/ Thrown(r, t)
                        /\ told \subseteq told' /\ unread \subseteq unread'
                        /\ \/ q'[r].tx = t /\ q'[r].stage # "idle"
                           \/ Pay(r) \in told'
                           \/ t \in unread'
    BY <1>5
  <2>2. /\ tx'[t].pays = {Pay(r)}
        /\ \A u \in Tx : u # t => tx'[u] = tx[u]
    BY <2>1 DEF Posted, Thrown, BooksInv, Typed
  <2>3. SUFFICES ASSUME NEW u \in Tx, NEW p \in Auths, MayLand(u)', p \in tx'[u].pays,
                        p \notin told', u \notin unread'
                 PROVE  \E s \in Req : q'[s].tx = u /\ Pay(s)' = p /\ q'[s].stage # "idle"
    BY DEF Owned
  <2>4. \A s \in Req : Pay(s)' = Pay(s)
    BY <1>3 DEF Pay
  <2>5. CASE u = t
    BY <2>1, <2>2, <2>3, <2>4, <2>5
  <2>6. CASE u # t
    <3>1. MayLand(u) /\ p \in tx[u].pays /\ p \notin told /\ u \notin unread
      BY <2>1, <2>2, <2>3, <2>6 DEF MayLand
    <3>2. PICK s \in Req : q[s].tx = u /\ Pay(s) = p /\ q[s].stage # "idle"
      BY <3>1 DEF Owned
    <3>3. s # r
      BY <1>2, <3>2
    <3>4. QED
      BY <1>3, <2>4, <3>2, <3>3
  <2>7. QED
    BY <2>5, <2>6
<1>6. \A t \in Tx : Turn(r, "confirm", t) \/ Turn(r, "ambiguous", t)
                      => q'[r].tx = t /\ q'[r].stage # "idle"
    BY <1>1 DEF Turn, Request
<1>7. QED
    BY <1>4, <1>5, <1>6 DEF Send, Unsure, Tell, word

LEMMA HandleOwned == ASSUME BooksInv, Owned, NEW r \in Req, Handle(r) PROVE Owned'
<1>1. RequestOk(r) /\ q \in [Req -> Request]
    BY DEF BooksInv, Typed
<1>2. CASE Send(r)
    BY <1>2, SendOwned
<1>3. ~Send(r) => /\ UNCHANGED <<setting, tx>>
                  /\ \A s \in Req : s # r => q'[s] = q[s]
                  /\ told \subseteq told' /\ unread \subseteq unread'
    BY <1>1 DEF Handle, Verify, LoadSpent, Guard, Simulate, Budget, Confirm,
       PersistUnsettled, PersistSettled, PersistSpent, Serve, Refuse, Reject, Unsure, Say,
       Tell, Go, word, world, ledger
<1>4. CASE /\ ~Send(r)
           /\ Verify(r) \/ LoadSpent(r) \/ Guard(r) \/ Simulate(r) \/ Budget(r)
  <2>1. q[r].tx = 0
    BY <1>1, <1>4 DEF Verify, LoadSpent, Guard, Simulate, Budget, RequestOk
  <2>2. q[r].tx \notin Tx
    BY <2>1, StellarAssumption DEF Tx
  <2>3. QED
    BY <1>3, <1>4, <2>2, OwnedStep
<1>5. ASSUME NEW stage, Go(r, stage), stage # "idle", ~Send(r) PROVE Owned'
  <2>1. q'[r].tx = q[r].tx /\ q'[r].stage # "idle"
    BY <1>1, <1>5 DEF Go, Request
  <2>2. QED
    BY <1>3, <1>5, <2>1, OwnedStep
<1>6. CASE ~Send(r) /\ Confirm(r)
  <2>1. CASE Signed(r)
    <3>1. tx[q[r].tx].state \in TxStates
      BY <1>1, <1>6, <2>1 DEF BooksInv, Typed, RequestOk, Outcome, Confirm
    <3>2. "mismatch" \notin Seen(r)
      BY <2>1, <3>1 DEF Seen, TxStates
    <3>3. QED
      BY <1>5, <1>6, <2>1, <3>2 DEF Confirm
  <2>2. CASE ~Signed(r)
    BY <1>3, <1>6, <2>2, OwnedStep
  <2>3. QED
    BY <2>1, <2>2
<1>7. CASE ~Send(r) /\ PersistUnsettled(r)
  <2>1. CASE q[r].stage = "reverted"
    <3>1. q[r].tx \in Tx /\ ~MayLand(q[r].tx)
      BY <1>1, <2>1 DEF RequestOk, Outcome, MayLand
    <3>2. QED
      BY <1>3, <1>7, <3>1, OwnedStep
  <2>2. CASE Unsure(r)
    BY <1>3, <1>7, <2>2, OwnedStep DEF Unsure, Tell
  <2>3. QED
    BY <1>7, <2>1, <2>2 DEF PersistUnsettled
<1>8. CASE ~Send(r) /\ (PersistSettled(r) \/ PersistSpent(r))
    BY <1>5, <1>8 DEF PersistSettled, PersistSpent
<1>9. CASE ~Send(r) /\ Serve(r)
    BY <1>3, <1>9, OwnedStep DEF Serve, Tell
<1>10. QED
    BY <1>2, <1>4, <1>6, <1>7, <1>8, <1>9 DEF Handle

LEMMA RestartOwned == ASSUME BooksInv, Owned, Restart PROVE Owned'
<1>1. \A s \in Req : q[s].stage # "idle" => Pay(s) \in told'
    BY DEF Restart
<1>2. UNCHANGED <<tx, unread>> /\ told \subseteq told'
    BY DEF Restart, ledger
<1>3. QED
    BY <1>1, <1>2 DEF Owned, MayLand

LEMMA LedgerOwned ==
    ASSUME BooksInv, Owned,
           (\E t \in Tx : Close(t)) \/ (\E p \in Hashes : CloseHash(p)) \/ Tick \/ UNCHANGED vars
    PROVE  Owned'
<1>1. UNCHANGED <<setting, q, told, unread>>
    BY DEF Close, CloseHash, Tick, vars, word
<1>2. \A t \in Tx : tx'[t].pays = tx[t].pays /\ (MayLand(t)' => MayLand(t))
    BY DEF Close, CloseHash, Tick, vars, ledger, MayLand, BooksInv, Typed
<1>3. \A s \in Req : Pay(s)' = Pay(s)
    BY <1>1 DEF Pay
<1>4. QED
    BY <1>1, <1>2, <1>3 DEF Owned

LEMMA OwnedNext == BooksInv /\ Owned /\ [Next]_vars => Owned'
    BY HandleOwned, RestartOwned, LedgerOwned DEF Next

LEMMA OwnedInit == Init => Owned
    BY DEF Init, Owned, MayLand

(* Nobody is told that a payment failed while it may still land: for any    *)
(* number of requests and failures, the request that settles a payment is   *)
(* refused only when no transaction can move its money, of its own or of an *)
(* earlier attempt, that a buyer was not told of (settle.ts, confirm.ts).   *)
THEOREM RefusedIsFinal == Spec => NoFalseRefusal
<1>1. ASSUME BooksInv, Owned, [Next]_vars, NEW r \in Req, Refused(r) PROVE Final(r)
  <2>1. Handle(r) /\ RequestOk(r)
    BY <1>1, RefusedByItself DEF BooksInv
  <2>2. CASE Signed(r)
    <3>1. SUFFICES ASSUME NEW t \in Tx, MayLand(t)', Pay(r) \in tx'[t].pays,
                          Pay(r) \notin told', t \notin unread'
                   PROVE  OthersHold(r, t)
      BY <2>2 DEF Final
    <3>2. Owned'
      BY <1>1, OwnedNext
    <3>3. PICK s \in Req : q'[s].tx = t /\ q'[s].stage # "idle"
      BY <2>2, <3>1, <3>2 DEF Owned, Signed
    <3>4. s # r
      BY <1>1, <3>3 DEF Refused
    <3>5. q'[s] = q[s]
      BY <1>1, <2>1, <3>4 DEF Handle, Verify, LoadSpent, Guard, Simulate, Budget, Send, Confirm,
         PersistUnsettled, PersistSettled, PersistSpent, Serve, Refuse, Reject, Unsure, Say,
         Go, Turn, BooksInv, Typed
    <3>6. QED
      BY <3>3, <3>4, <3>5 DEF OthersHold
  <2>3. CASE ~Signed(r)
    <3>1. q[r].stage \notin {"keys", "guard", "simulate", "budget", "send", "reverted"}
      BY <1>1, <2>1, <2>3 DEF Refused, RequestOk
    <3>2. hash[Pay(r)] \in {"failed", "other"}
      BY <1>1, <2>1, <2>3, <3>1, RefusedAt
    <3>3. QED
      BY <2>3, <3>2 DEF Final
  <2>4. QED
    BY <2>2, <2>3
<1>2. BooksInv /\ Owned /\ [Next]_vars => [\A r \in Req : Refused(r) => Final(r)]_vars
    BY <1>1
<1>3. BooksInv /\ Owned /\ [Next]_vars => (BooksInv /\ Owned)'
    BY BooksStep, OwnedNext
<1>4. Init => BooksInv /\ Owned
    BY BooksInit, OwnedInit
<1>5. QED
    BY <1>2, <1>3, <1>4, PTL DEF Spec, NoFalseRefusal

-----------------------------------------------------------------------------
(* What each payment has bought, with the calls that are about to be        *)
(* served: one, and one per lapse; none yet while its key is not spent or   *)
(* somebody settles it.                                                     *)
Serving(p) == {r \in Req : q[r].stage = "serve" /\ Pay(r) = p}
Held(p)    == \E r \in Req : q[r].stage \in Holding /\ Pay(r) = p
Bought(p)  == calls[p] + Cardinality(Serving(p))

SaleOk(p) ==
    /\ Bought(p) <= lapses[p] + 1
    /\ p \notin spent \/ Held(p) => Bought(p) <= lapses[p]

SaleInv == BooksInv /\ \A p \in Pays : SaleOk(p)

LEMMA ServingFinite ==
    ASSUME BooksInv, NEW p \in Pays
    PROVE  /\ IsFiniteSet(Serving(p))
           /\ Cardinality(Serving(p)) \in Nat
           /\ calls[p] \in Nat /\ lapses[p] \in Nat
<1>1. Serving(p) \subseteq Req /\ IsFiniteSet(Req)
    BY StellarAssumption DEF Serving
<1>2. IsFiniteSet(Serving(p))
    BY <1>1, FS_Subset
<1>3. Cardinality(Serving(p)) \in Nat
    BY <1>2, FS_CardinalityType
<1>4. QED
    BY <1>2, <1>3 DEF BooksInv, Typed

(* A step that serves nothing, and takes and spends no key.                 *)
LEMMA QuietStep ==
    ASSUME SaleInv, UNCHANGED <<setting, spent, calls, lapses>>,
           \A s \in Req : /\ q'[s].stage = "serve" => q[s].stage = "serve"
                          /\ q'[s].stage \in Holding => q[s].stage \in Holding
    PROVE  \A p \in Pays : SaleOk(p)'
<1> SUFFICES ASSUME NEW p \in Pays PROVE SaleOk(p)'
    OBVIOUS
<1>1. Serving(p)' \subseteq Serving(p) /\ (Held(p)' => Held(p))
    BY DEF Serving, Held, Pay
<1>2. /\ Cardinality(Serving(p)) \in Nat /\ Cardinality(Serving(p))' \in Nat
      /\ Cardinality(Serving(p))' <= Cardinality(Serving(p))
    BY <1>1, ServingFinite, FS_Subset, FS_CardinalityType DEF SaleInv
<1>3. calls[p] \in Nat /\ lapses[p] \in Nat
    BY ServingFinite DEF SaleInv
<1>4. SaleOk(p)
    BY DEF SaleInv
<1>5. QED
    BY <1>1, <1>2, <1>3, <1>4 DEF SaleOk, Bought

(* The promise of a step that changes no count.                             *)
LEMMA QuietPromise ==
    ASSUME UNCHANGED <<calls, lapses>>, moved \subseteq moved'
    PROVE  \A p \in Pays : PromiseStep(p)
    BY DEF PromiseStep, Promise!Next, Promise!Pay, Promise!vars

(* The next turns of a request that neither takes a key nor serves.         *)
LEMMA QuietHandlers ==
    ASSUME SaleInv, NEW r \in Req,
           \/ Verify(r) \/ LoadSpent(r) \/ Simulate(r) \/ Budget(r) \/ Send(r)
           \/ Confirm(r) \/ PersistUnsettled(r) \/ PersistSettled(r)
    PROVE  /\ UNCHANGED <<setting, spent, calls, lapses, moved>>
           /\ \A s \in Req : /\ q'[s].stage = "serve" => q[s].stage = "serve"
                             /\ q'[s].stage \in Holding => q[s].stage \in Holding
<1>1. q \in [Req -> Request]
    BY DEF SaleInv, BooksInv, Typed
<1>2. UNCHANGED <<setting, spent, calls, lapses, moved>>
    BY DEF Verify, LoadSpent, Simulate, Budget, Send, Confirm, PersistUnsettled,
       PersistSettled, world, ledger, books
<1>3. \E stage \in Stages :
        /\ \A s \in Req : q'[s].stage = IF s = r THEN stage ELSE q[s].stage
        /\ stage # "serve"
        /\ stage \in Holding => q[r].stage \in Holding
  <2>1. CASE Verify(r) \/ LoadSpent(r)
    BY <1>1, <2>1 DEF Verify, LoadSpent, Refuse, Say, Idle, Stages, Holding, Request
  <2>2. CASE Simulate(r)
    BY <1>1, <2>2 DEF Simulate, Reject, Refuse, Say, Go, Idle, Stages, Holding, Request
  <2>3. CASE Budget(r)
    BY <1>1, <2>3 DEF Budget, Reject, Refuse, Say, Go, Idle, Stages, Holding, Request
  <2>4. CASE Send(r)
    BY <1>1, <2>4 DEF Send, Reject, Refuse, Unsure, Say, Turn, Idle, Stages, Holding, Request
  <2>5. CASE Confirm(r)
    BY <1>1, <2>5 DEF Confirm, Reject, Refuse, Say, Go, Idle, Stages, Holding, Request
  <2>6. CASE PersistUnsettled(r)
    BY <1>1, <2>6 DEF PersistUnsettled, Reject, Refuse, Unsure, Say, Idle, Stages, Holding, Request
  <2>7. CASE PersistSettled(r)
    BY <1>1, <2>7 DEF PersistSettled, Go, Stages, Holding, Request
  <2>8. QED
    BY <2>1, <2>2, <2>3, <2>4, <2>5, <2>6, <2>7
<1>4. QED
    BY <1>2, <1>3

(* The key is taken: with a read that was overtaken, it is a lapse.         *)
LEMMA GuardSells ==
    ASSUME SaleInv, NEW r \in Req, Guard(r)
    PROVE  \A p \in Pays : SaleOk(p)' /\ PromiseStep(p)
<1>1. q \in [Req -> Request] /\ Pay(r) \in Pays
    BY SettingType DEF SaleInv, BooksInv, Typed
<1>2. CASE Refuse(r) /\ UNCHANGED <<inFlight, line, lapses>>
  <2>1. UNCHANGED <<setting, spent, calls, lapses, moved>>
    BY <1>2 DEF Guard, world, ledger, books
  <2>2. \A s \in Req : /\ q'[s].stage = "serve" => q[s].stage = "serve"
                       /\ q'[s].stage \in Holding => q[s].stage \in Holding
    BY <1>1, <1>2 DEF Refuse, Say, Idle, Holding
  <2>3. QED
    BY <2>1, <2>2, QuietStep, QuietPromise
<1>3. CASE /\ ~q[r].saw
           /\ IF Overtaken(r) THEN Lapse(Pay(r)) ELSE UNCHANGED lapses
           /\ Go(r, IF Signed(r) THEN "simulate" ELSE "confirm")
  <2>1. UNCHANGED <<setting, spent, calls, moved>>
    BY DEF Guard, world, ledger, books
  <2>2. \A s \in Req : /\ s # r => q'[s] = q[s]
                       /\ q'[r].stage \notin {"serve"}
                       /\ q[r].stage = "guard"
    BY <1>1, <1>3 DEF Go, Guard, Request
  <2>3. \A p \in Pays : Serving(p)' = Serving(p)
    BY <2>1, <2>2 DEF Serving, Pay
  <2>4. \A p \in Pays : p # Pay(r) => (Held(p)' => Held(p)) /\ lapses'[p] = lapses[p]
    BY <1>1, <1>3, <2>1, <2>2 DEF Held, Pay, Lapse, SaleInv, BooksInv, Typed
  <2>5. CASE Overtaken(r)
    <3>1. lapses' = [lapses EXCEPT ![Pay(r)] = @ + 1]
      BY <1>3, <2>5 DEF Lapse
    <3>2. \A p \in Pays : lapses'[p] = IF p = Pay(r) THEN lapses[p] + 1 ELSE lapses[p]
      BY <3>1 DEF SaleInv, BooksInv, Typed
    <3>3. ASSUME NEW p \in Pays PROVE SaleOk(p)'
      <4>1. Cardinality(Serving(p)) \in Nat /\ calls[p] \in Nat /\ lapses[p] \in Nat
        BY ServingFinite DEF SaleInv
      <4>2. Bought(p)' = Bought(p) /\ Bought(p) \in Nat /\ SaleOk(p)
        BY <2>1, <2>3, <4>1 DEF Bought, SaleInv
      <4>3. QED
        BY <2>1, <2>4, <3>2, <4>1, <4>2 DEF SaleOk
    <3>4. ASSUME NEW p \in Pays PROVE PromiseStep(p)
      BY <2>1, <3>2 DEF PromiseStep, Promise!Next, Promise!Lapse, Promise!vars
    <3>5. QED
      BY <3>3, <3>4
  <2>6. CASE ~Overtaken(r)
    <3>1. UNCHANGED lapses /\ Pay(r) \notin spent
      BY <1>3, <2>6 DEF Overtaken
    <3>2. ASSUME NEW p \in Pays PROVE SaleOk(p)'
      BY <2>1, <2>3, <2>4, <3>1 DEF SaleOk, Bought, SaleInv
    <3>3. QED
      BY <2>1, <3>1, <3>2, QuietPromise
  <2>7. QED
    BY <2>5, <2>6
<1>4. QED
    BY <1>2, <1>3 DEF Guard

(* The key is spent, or that is a lapse; the call is served after it.       *)
LEMMA SpentSells ==
    ASSUME SaleInv, NEW r \in Req, PersistSpent(r)
    PROVE  \A p \in Pays : SaleOk(p)' /\ PromiseStep(p)
<1>1. q \in [Req -> Request] /\ Pay(r) \in Pays
    BY SettingType DEF SaleInv, BooksInv, Typed
<1>2. UNCHANGED <<setting, calls, moved>> /\ q[r].stage = "key"
    BY DEF PersistSpent, world, ledger
<1>3. \A s \in Req : q'[s].stage = IF s = r THEN "serve" ELSE q[s].stage
    BY <1>1 DEF PersistSpent, Go, Request
<1>4. \A p \in Pays : p = Pay(r) => Serving(p)' = Serving(p) \cup {r} /\ r \notin Serving(p)
    BY <1>2, <1>3 DEF Serving, Pay
<1>5. \A p \in Pays : p # Pay(r) => Serving(p)' = Serving(p) /\ (Held(p)' => Held(p))
    BY <1>2, <1>3 DEF Serving, Held, Pay, Holding
<1>6. \A p \in Pays : p = Pay(r) => Held(p) /\ ~Held(p)'
    BY <1>2, <1>3 DEF Held, Holding, Pay, SaleInv, BooksInv, Exclusive
<1>7. \A p \in Pays : p = Pay(r) => Cardinality(Serving(p))' = Cardinality(Serving(p)) + 1
    BY <1>1, <1>4, ServingFinite, FS_AddElement DEF SaleInv
<1>8. \/ spent' = spent \cup {Pay(r)} /\ UNCHANGED lapses
      \/ lapses' = [lapses EXCEPT ![Pay(r)] = @ + 1] /\ UNCHANGED spent
    BY DEF PersistSpent, Lapse
<1>9. ASSUME NEW p \in Pays PROVE SaleOk(p)'
  <2>1. /\ Cardinality(Serving(p)) \in Nat /\ calls[p] \in Nat /\ lapses[p] \in Nat
        /\ SaleOk(p)
    BY ServingFinite DEF SaleInv
  <2>2. CASE p # Pay(r)
    <3>1. lapses'[p] = lapses[p] /\ (p \in spent' <=> p \in spent)
      BY <1>8, <2>2 DEF SaleInv, BooksInv, Typed
    <3>2. QED
      BY <1>2, <1>5, <2>1, <2>2, <3>1 DEF SaleOk, Bought
  <2>3. CASE p = Pay(r)
    <3>0. Held(p) /\ ~Held(p)' /\ Cardinality(Serving(p))' = Cardinality(Serving(p)) + 1
      BY <1>6, <1>7, <2>3
    <3>1. Bought(p)' = Bought(p) + 1 /\ Bought(p) <= lapses[p] /\ Bought(p) \in Nat
      BY <1>2, <2>1, <3>0 DEF SaleOk, Bought
    <3>2. CASE p \in spent' /\ UNCHANGED lapses
      BY <2>1, <3>0, <3>1, <3>2 DEF SaleOk
    <3>3. CASE lapses'[p] = lapses[p] + 1
      BY <2>1, <3>1, <3>3 DEF SaleOk
    <3>4. QED
      BY <1>8, <2>3, <3>2, <3>3 DEF SaleInv, BooksInv, Typed
  <2>4. QED
    BY <2>2, <2>3
<1>10. ASSUME NEW p \in Pays PROVE PromiseStep(p)
  <2>1. lapses'[p] = lapses[p] \/ lapses'[p] = lapses[p] + 1
    BY <1>8 DEF SaleInv, BooksInv, Typed
  <2>2. QED
    BY <1>2, <2>1 DEF PromiseStep, Promise!Next, Promise!Lapse, Promise!vars
<1>11. QED
    BY <1>9, <1>10

LEMMA ServeSells ==
    ASSUME SaleInv, NEW r \in Req, Serve(r)
    PROVE  \A p \in Pays : SaleOk(p)' /\ PromiseStep(p)
<1>1. q \in [Req -> Request] /\ Pay(r) \in Pays
    BY SettingType DEF SaleInv, BooksInv, Typed
<1>2. UNCHANGED <<setting, spent, lapses, moved>> /\ q[r].stage = "serve"
    BY DEF Serve, world, ledger, books
<1>3. \A s \in Req : q'[s].stage = IF s = r THEN "idle" ELSE q[s].stage
    BY <1>1 DEF Serve, Say, Idle
<1>4. CASE UNCHANGED calls
  <2>1. \A s \in Req : /\ q'[s].stage = "serve" => q[s].stage = "serve"
                       /\ q'[s].stage \in Holding => q[s].stage \in Holding
    BY <1>3 DEF Holding
  <2>2. QED
    BY <1>2, <1>4, <2>1, QuietStep, QuietPromise
<1>5. CASE calls' = [calls EXCEPT ![Pay(r)] = @ + 1]
  <2>1. \A p \in Pays : p = Pay(r) => Serving(p)' = Serving(p) \ {r} /\ r \in Serving(p)
    BY <1>2, <1>3 DEF Serving, Pay
  <2>2. \A p \in Pays : (Held(p)' => Held(p)) /\ (p # Pay(r) => Serving(p)' = Serving(p))
    BY <1>2, <1>3 DEF Serving, Held, Pay, Holding
  <2>3. ASSUME NEW p \in Pays, p = Pay(r)
        PROVE  /\ Cardinality(Serving(p))' = Cardinality(Serving(p)) - 1
               /\ Cardinality(Serving(p)) > 0
    <3>1. IsFiniteSet(Serving(p)) /\ Cardinality(Serving(p)) \in Nat
      BY ServingFinite DEF SaleInv
    <3>2. Cardinality(Serving(p))' = Cardinality(Serving(p)) - 1
      BY <2>1, <2>3, <3>1, FS_RemoveElement
    <3>3. Cardinality(Serving(p)) # 0
      BY <2>1, <2>3, <3>1, FS_EmptySet
    <3>4. QED
      BY <3>1, <3>2, <3>3
  <2>4. \A p \in Pays : calls'[p] = IF p = Pay(r) THEN calls[p] + 1 ELSE calls[p]
    BY <1>5 DEF SaleInv, BooksInv, Typed
  <2>5. ASSUME NEW p \in Pays PROVE SaleOk(p)' /\ PromiseStep(p)
    <3>1. /\ Cardinality(Serving(p)) \in Nat /\ calls[p] \in Nat /\ lapses[p] \in Nat
          /\ SaleOk(p)
      BY ServingFinite DEF SaleInv
    <3>2. Bought(p)' = Bought(p)
      <4>1. CASE p = Pay(r)
        BY <2>3, <2>4, <3>1, <4>1 DEF Bought
      <4>2. CASE p # Pay(r)
        BY <2>2, <2>4, <4>2 DEF Bought
      <4>3. QED
        BY <4>1, <4>2
    <3>3. SaleOk(p)'
      BY <1>2, <2>2, <3>1, <3>2 DEF SaleOk
    <3>4. Pay(r) \in moved
      BY <1>2 DEF SaleInv, BooksInv, RequestOk, Past
    <3>5. p = Pay(r) => calls[p] <= lapses[p]
      BY <2>3, <3>1 DEF SaleOk, Bought
    <3>6. PromiseStep(p)
      BY <1>2, <2>4, <3>4, <3>5 DEF PromiseStep, Promise!Next, Promise!Serve, Promise!vars
    <3>7. QED
      BY <3>3, <3>6
  <2>6. QED
    BY <2>5
<1>6. QED
    BY <1>4, <1>5 DEF Serve

LEMMA SaleInit == Init => SaleInv /\ \A p \in Pays : Promise(p)!Init
<1> SUFFICES ASSUME Init PROVE SaleInv /\ \A p \in Pays : Promise(p)!Init
    OBVIOUS
<1>1. BooksInv
    BY BooksInit
<1>2. \A p \in Pays : Serving(p) = {}
    BY DEF Init, Serving, Idle
<1>3. \A p \in Pays : Bought(p) = 0 /\ lapses[p] = 0
  <2>1. Cardinality({}) = 0
    BY FS_EmptySet
  <2>2. \A p \in Pays : Cardinality(Serving(p)) = 0
    BY <1>2, <2>1, Zenon
  <2>3. \A p \in Pays : calls[p] = 0 /\ lapses[p] = 0
    BY DEF Init
  <2>4. QED
    BY <2>2, <2>3 DEF Bought
<1>4. \A p \in Pays : SaleOk(p)
    BY <1>3 DEF SaleOk
<1>5. QED
    BY <1>1, <1>4 DEF SaleInv, Init, Promise!Init

LEMMA SaleStep == SaleInv /\ [Next]_vars => SaleInv' /\ \A p \in Pays : PromiseStep(p)
<1> SUFFICES ASSUME SaleInv, [Next]_vars
             PROVE  (\A p \in Pays : SaleOk(p)') /\ \A p \in Pays : PromiseStep(p)
    BY BooksStep DEF SaleInv
<1>1. ASSUME NEW r \in Req, Handle(r)
      PROVE  \A p \in Pays : SaleOk(p)' /\ PromiseStep(p)
  <2>1. CASE Guard(r) \/ PersistSpent(r) \/ Serve(r)
    BY <2>1, GuardSells, SpentSells, ServeSells
  <2>2. CASE \/ Verify(r) \/ LoadSpent(r) \/ Simulate(r) \/ Budget(r) \/ Send(r)
             \/ Confirm(r) \/ PersistUnsettled(r) \/ PersistSettled(r)
    BY <2>2, QuietHandlers, QuietStep, QuietPromise
  <2>3. QED
    BY <1>1, <2>1, <2>2 DEF Handle
<1>2. CASE \/ (\E t \in Tx : Close(t)) \/ (\E p \in Hashes : CloseHash(p)) \/ Tick
           \/ UNCHANGED vars
  <2>1. UNCHANGED <<setting, spent, calls, lapses, q>> /\ moved \subseteq moved'
    BY <1>2 DEF Close, CloseHash, Tick, books, vars, ledger
  <2>2. QED
    BY <2>1, QuietStep, QuietPromise
<1>3. CASE Restart
  <2>1. UNCHANGED <<setting, spent, calls, lapses, moved>>
    BY <1>3 DEF Restart, ledger
  <2>2. \A s \in Req : q'[s].stage = "idle"
    BY <1>3 DEF Restart, Idle
  <2>3. QED
    BY <2>1, <2>2, QuietStep, QuietPromise DEF Holding
<1>4. QED
    BY <1>1, <1>2, <1>3 DEF Next

(* Every payment keeps what PaidOnce promises, for any number of requests   *)
(* and any failures: it moves once, nothing is served before it moved, and  *)
(* it buys one call and one per lapse (redeemStellarPayment).               *)
THEOREM PromisesKept == Spec => KeepsPromises
<1>1. SaleInv /\ [Next]_vars => [\A p \in Pays : PromiseStep(p)]_vars
    BY SaleStep
<1>2. QED
    BY <1>1, SaleInit, SaleStep, PTL DEF Spec, KeepsPromises

-----------------------------------------------------------------------------
(* The fees bid are the rows, what is lost, and what is still to be written; *)
(* the request at the head of the line was within the budget when it looked, *)
(* and nobody bids before it has sent.                                       *)
Bids   == {t \in Tx : tx[t].state # "unsent"}
InTurn == {"simulate", "budget", "send"}
Room   == Daily + Cardinality(Req) - 1

InLine ==
    /\ line \in Seq(Req)
    /\ \A r \in Req : q[r].stage \in InTurn => \E i \in 1..Len(line) : line[i] = r
    /\ \A r \in Req : q[r].stage \in {"budget", "send"} => line[1] = r

Counted ==
    /\ Cardinality(Bids) = fees + unrecorded + Cardinality(Bidding)
    /\ Cardinality(Bids) <= Room + unrecorded
    /\ \A r \in Req : q[r].stage = "send" => Cardinality(Bids) + 1 <= Room + unrecorded

FeeInv ==
    /\ BooksInv
    /\ fees \in Nat /\ unrecorded \in Nat
    /\ Ours => InLine /\ Counted

LEMMA FeeSets ==
    /\ IsFiniteSet(Req) /\ Cardinality(Req) \in Nat /\ Cardinality(Req) >= 1
    /\ IsFiniteSet(Bids) /\ Cardinality(Bids) \in Nat
    /\ IsFiniteSet(Bidding) /\ Cardinality(Bidding) \in Nat
    /\ Room \in Nat
<1>1. IsFiniteSet(Req) /\ Req # {}
    BY StellarAssumption
<1>2. Cardinality(Req) \in Nat /\ Cardinality(Req) # 0
    BY <1>1, FS_CardinalityType, FS_EmptySet
<1>3. IsFiniteSet(Tx)
    BY FS_Interval, StellarAssumption DEF Tx
<1>4. Bids \subseteq Tx /\ Bidding \subseteq Req
    BY DEF Bids, Bidding
<1>5. IsFiniteSet(Bids) /\ IsFiniteSet(Bidding)
    BY <1>1, <1>3, <1>4, FS_Subset
<1>6. Cardinality(Bids) \in Nat /\ Cardinality(Bidding) \in Nat
    BY <1>5, FS_CardinalityType
<1>7. QED
    BY <1>1, <1>2, <1>5, <1>6, StellarAssumption DEF Room

(* A step that neither bids nor writes; who comes to send had room.         *)
LEMMA QuietCount ==
    ASSUME FeeInv, Counted, UNCHANGED <<fees, unrecorded>>, Bids' = Bids, Bidding' = Bidding,
           \A s \in Req : q'[s].stage = "send"
                            => q[s].stage = "send" \/ (fees + 1 <= Daily /\ s \notin Bidding)
    PROVE  Counted'
<1>1. /\ Cardinality(Bids)' = Cardinality(Bids)
      /\ Cardinality(Bidding)' = Cardinality(Bidding)
      /\ Room' = Room
    BY DEF Room
<1>2. ASSUME NEW s \in Req, fees + 1 <= Daily, s \notin Bidding
      PROVE  Cardinality(Bids) + 1 <= Room + unrecorded
  <2>1. Bidding \subseteq Req \ {s}
    BY <1>2 DEF Bidding
  <2>2. Cardinality(Bidding) <= Cardinality(Req \ {s})
    BY <2>1, FeeSets, FS_Subset, FS_RemoveElement
  <2>3. Cardinality(Bidding) <= Cardinality(Req) - 1
    BY <2>2, FeeSets, FS_RemoveElement
  <2>4. QED
    BY <1>2, <2>3, FeeSets, StellarAssumption DEF Counted, Room, FeeInv
<1>3. QED
    BY <1>1, <1>2 DEF Counted

(* A row is written, or known to be lost.                                   *)
LEMMA RowCount ==
    ASSUME FeeInv, Counted, Bids' = Bids, NEW r \in Bidding, Bidding' = Bidding \ {r},
           \/ fees' = fees + 1 /\ UNCHANGED unrecorded
           \/ unrecorded' = unrecorded + 1 /\ UNCHANGED fees,
           \A s \in Req : q'[s].stage = "send" => q[s].stage = "send"
    PROVE  Counted'
<1>1. /\ Cardinality(Bids)' = Cardinality(Bids)
      /\ Cardinality(Bidding)' = Cardinality(Bidding) - 1
      /\ Room' = Room
    BY FeeSets, FS_RemoveElement DEF Room
<1>2. QED
    BY <1>1, FeeSets DEF Counted, FeeInv

(* Where a request is in the line when another leaves its head or joins.    *)
LEMMA LineStep ==
    ASSUME FeeInv, InLine, NEW r \in Req,
           \A s \in Req : s # r => q'[s] = q[s],
           \/ line' = line /\ (q'[r].stage \in InTurn => q[r].stage \in InTurn)
           \/ LeaveLine(r) /\ q'[r].stage \notin InTurn
           \/ line' = Append(line, r) /\ q'[r].stage \notin {"budget", "send"},
           q'[r].stage \in {"budget", "send"} => line' # <<>> /\ line'[1] = r
    PROVE  InLine'
<1>1. line \in Seq(Req)
    BY DEF InLine
<1>2. CASE line' = line
    BY <1>2 DEF InLine
<1>3. CASE line' # line /\ LeaveLine(r)
  <2>1. line # <<>> /\ line[1] = r /\ line' = Tail(line) /\ q'[r].stage \notin InTurn
    BY <1>3 DEF LeaveLine, InTurn
  <2>2. line' \in Seq(Req) /\ Len(line') = Len(line) - 1
    BY <1>1, <2>1
  <2>3. \A i \in 1..Len(line') : line'[i] = line[i + 1]
    BY <1>1, <2>1
  <2>4. ASSUME NEW s \in Req, q'[s].stage \in InTurn
        PROVE  \E i \in 1..Len(line') : line'[i] = s
    <3>1. s # r /\ q[s].stage \in InTurn
      BY <2>1, <2>4
    <3>2. PICK j \in 1..Len(line) : line[j] = s
      BY <3>1 DEF InLine
    <3>3. j # 1
      BY <2>1, <3>1, <3>2
    <3>4. j - 1 \in 1..Len(line')
      BY <2>2, <3>2, <3>3, <1>1
    <3>5. line'[j - 1] = s
      BY <2>3, <3>2, <3>4
    <3>6. QED
      BY <3>4, <3>5
  <2>5. ASSUME NEW s \in Req, q'[s].stage \in {"budget", "send"} PROVE FALSE
    BY <2>1, <2>5 DEF InLine, InTurn
  <2>6. QED
    BY <2>2, <2>4, <2>5 DEF InLine
<1>4. CASE line' # line /\ line' = Append(line, r)
  <2>1. line' \in Seq(Req) /\ Len(line') = Len(line) + 1 /\ line'[Len(line) + 1] = r
    BY <1>1, <1>4
  <2>2. \A i \in 1..Len(line) : line'[i] = line[i] /\ i \in 1..Len(line')
    BY <1>1, <1>4, <2>1
  <2>3. ASSUME NEW s \in Req, q'[s].stage \in InTurn
        PROVE  \E i \in 1..Len(line') : line'[i] = s
    <3>1. CASE s = r
      BY <1>1, <2>1, <3>1
    <3>2. CASE s # r
      BY <2>2, <2>3, <3>2 DEF InLine
    <3>3. QED
      BY <3>1, <3>2
  <2>4. ASSUME NEW s \in Req, q'[s].stage \in {"budget", "send"} PROVE line'[1] = s
    <3>1. s # r => q[s].stage \in {"budget", "send"} /\ line[1] = s
      BY <2>4 DEF InLine
    <3>2. s # r => \E i \in 1..Len(line) : line[i] = s
      BY <3>1 DEF InLine, InTurn
    <3>3. s # r => 1 \in 1..Len(line)
      BY <1>1, <3>2
    <3>4. QED
      BY <2>2, <2>4, <3>1, <3>3
  <2>5. QED
    BY <2>1, <2>3, <2>4 DEF InLine
<1>5. QED
    BY <1>2, <1>3, <1>4

(* Before a request sends, and after its row: who is still to write.        *)
LEMMA QuietFees ==
    ASSUME FeeInv, Ours, NEW r \in Req,
           \/ Verify(r) \/ LoadSpent(r) \/ Guard(r) \/ Simulate(r) \/ Budget(r)
           \/ Confirm(r) \/ PersistSpent(r) \/ Serve(r)
    PROVE  InLine' /\ Counted'
<1>1. q \in [Req -> Request] /\ RequestOk(r) /\ InLine /\ Counted
    BY DEF FeeInv, BooksInv, Typed
<1>2. UNCHANGED <<setting, tx, fees, unrecorded>>
    BY DEF Verify, LoadSpent, Guard, Simulate, Budget, Confirm, PersistSpent, Serve,
       world, ledger, books
<1>3. q[r].stage \in InTurn => line # <<>>
    BY <1>1 DEF InLine
<1>4. \E stage \in Stages :
        /\ \A s \in Req : s # r => q'[s] = q[s]
        /\ q'[r].stage = stage
        /\ stage = "send" => q[r].stage = "budget" /\ fees + 1 <= Daily
        /\ stage \in {"budget", "send"} => line' # <<>> /\ line'[1] = r
        /\ (Signed(r) /\ stage \in {"confirm", "settled", "ambiguous", "reverted"})
             <=> (Signed(r) /\ q[r].stage \in {"confirm", "settled", "ambiguous", "reverted"})
        /\ \/ line' = line /\ (stage \in InTurn => q[r].stage \in InTurn)
           \/ LeaveLine(r) /\ stage \notin InTurn
           \/ line' = Append(line, r) /\ stage \notin {"budget", "send"}
  <2>1. CASE Verify(r) \/ LoadSpent(r)
    BY <1>1, <2>1 DEF Verify, LoadSpent, Refuse, Say, Idle, Stages, InTurn, Request
  <2>2. CASE Guard(r)
    BY <1>1, <2>2 DEF Guard, Refuse, Say, Go, Idle, Stages, InTurn, Request
  <2>3. CASE Simulate(r)
    BY <1>1, <1>3, <2>3 DEF Simulate, MyTurn, Reject, Refuse, Say, Go, Idle, Stages, InTurn, Request
  <2>4. CASE Budget(r)
    BY <1>1, <1>3, <2>4 DEF Budget, Reject, Refuse, Say, Go, Idle, Stages, InTurn, Request, InLine
  <2>5. CASE Confirm(r)
    <3>1. Signed(r) => tx[q[r].tx].state \in TxStates
      BY <1>1, <2>5 DEF FeeInv, BooksInv, Typed, RequestOk, Outcome, Confirm
    <3>2. Signed(r) => "mismatch" \notin Seen(r)
      BY <3>1 DEF Seen, TxStates
    <3>3. QED
      BY <1>1, <2>5, <3>2 DEF Confirm, Reject, Refuse, Say, Go, Idle, Stages, InTurn, Request
  <2>6. CASE PersistSpent(r)
    BY <1>1, <2>6 DEF PersistSpent, Go, Stages, InTurn, Request
  <2>7. CASE Serve(r)
    BY <1>1, <2>7 DEF Serve, Say, Idle, Stages, InTurn, Request
  <2>8. QED
    BY <2>1, <2>2, <2>3, <2>4, <2>5, <2>6, <2>7
<1>5. \A s \in Req : (Signed(s)' <=> Signed(s)) /\ (Ours' <=> Ours)
    BY <1>2 DEF Signed, Pay, Ours
<1>6. Bidding' = Bidding
    BY <1>4, <1>5 DEF Bidding
<1>7. Bids' = Bids
    BY <1>2 DEF Bids
<1>8. \A s \in Req : q'[s].stage = "send"
                       => q[s].stage = "send" \/ (fees + 1 <= Daily /\ s \notin Bidding)
    BY <1>4 DEF Bidding
<1>9. Counted'
    BY <1>1, <1>2, <1>6, <1>7, <1>8, QuietCount
<1>10. InLine'
    BY <1>1, <1>4, LineStep
<1>11. QED
    BY <1>9, <1>10

(* A request sends in its turn: the bid it had room for is now counted.     *)
LEMMA SendFees ==
    ASSUME FeeInv, Ours, NEW r \in Req, Send(r)
    PROVE  InLine' /\ Counted'
<1>1. q \in [Req -> Request] /\ RequestOk(r) /\ InLine /\ Counted /\ q[r].stage = "send"
    BY DEF FeeInv, BooksInv, Typed, Send
<1>2. UNCHANGED <<setting, fees, unrecorded>> /\ LeaveLine(r)
    BY DEF Send, books
<1>3. /\ \A s \in Req : s # r => q'[s] = q[s]
      /\ q'[r].stage \in {"idle", "confirm", "ambiguous"}
    BY <1>1 DEF Send, Reject, Refuse, Say, Turn, Idle, Request
<1>4. InLine'
    BY <1>1, <1>2, <1>3, LineStep DEF InTurn
<1>5. Signed(r) /\ r \notin Bidding /\ (Ours' <=> Ours) /\ \A s \in Req : Signed(s)' <=> Signed(s)
    BY <1>1, <1>2 DEF RequestOk, Bidding, Signed, Pay, Ours
<1>6. \A s \in Req : q'[s].stage = "send" => q[s].stage = "send" /\ s # r
    BY <1>3
<1>7. \A s \in Req : s # r => q[s].stage # "send"
    BY <1>1 DEF InLine
<1>8. CASE UNCHANGED tx /\ q'[r].stage = "idle"
  <2>1. Bids' = Bids
    BY <1>8 DEF Bids
  <2>2. Bidding' = Bidding
    BY <1>3, <1>5, <1>8 DEF Bidding
  <2>3. QED
    BY <1>1, <1>2, <1>4, <1>6, <2>1, <2>2, QuietCount
<1>9. CASE \E t \in Tx : /\ Next1(t) /\ (Posted(r, t) \/ Thrown(r, t))
                         /\ q'[r].stage \in {"confirm", "ambiguous"}
  <2>1. PICK t \in Tx : /\ Next1(t) /\ (Posted(r, t) \/ Thrown(r, t))
                        /\ q'[r].stage \in {"confirm", "ambiguous"}
    BY <1>9
  <2>2. Bids' = Bids \cup {t} /\ t \notin Bids
    <3>1. t \notin Bids
      BY <2>1 DEF Bids, Next1
    <3>2. \E x : x.state # "unsent" /\ tx' = [tx EXCEPT ![t] = x]
      BY <2>1 DEF Posted, Thrown
    <3>3. \A u \in Tx : tx'[u].state # "unsent" <=> tx[u].state # "unsent" \/ u = t
      BY <2>1, <3>2 DEF FeeInv, BooksInv, Typed
    <3>4. QED
      BY <2>1, <3>1, <3>3 DEF Bids
  <2>3. Bidding' = Bidding \cup {r}
    BY <1>3, <1>5, <2>1 DEF Bidding
  <2>4. /\ Cardinality(Bids)' = Cardinality(Bids) + 1
        /\ Cardinality(Bidding)' = Cardinality(Bidding) + 1
        /\ Room' = Room
    BY <1>5, <2>2, <2>3, FeeSets, FS_AddElement DEF Room
  <2>5. Counted'
    BY <1>1, <1>2, <1>6, <1>7, <2>4, FeeSets DEF Counted, FeeInv
  <2>6. QED
    BY <1>4, <2>5
<1>10. QED
  <2>1. \/ Reject(r) /\ UNCHANGED tx
        \/ \E t \in Tx : /\ Next1(t) /\ (Posted(r, t) \/ Thrown(r, t))
                         /\ Turn(r, "confirm", t) \/ Turn(r, "ambiguous", t)
    BY <1>1 DEF Send
  <2>2. Reject(r) => q'[r].stage = "idle"
    BY <1>1 DEF Reject, Refuse, Say, Idle
  <2>3. \A t \in Tx : /\ Turn(r, "confirm", t) => q'[r].stage = "confirm"
                      /\ Turn(r, "ambiguous", t) => q'[r].stage = "ambiguous"
    BY <1>1 DEF Turn, Request
  <2>4. QED
    BY <1>8, <1>9, <2>1, <2>2, <2>3

(* The row of a settlement that bid a fee is written, or lost.              *)
LEMMA RowFees ==
    ASSUME FeeInv, Ours, NEW r \in Req, PersistUnsettled(r) \/ PersistSettled(r)
    PROVE  InLine' /\ Counted'
<1>1. q \in [Req -> Request] /\ InLine /\ Counted
    BY DEF FeeInv, BooksInv, Typed
<1>2. UNCHANGED <<setting, tx, line>> /\ Row(r)
    BY DEF PersistUnsettled, PersistSettled, world, ledger
<1>3. /\ \A s \in Req : s # r => q'[s] = q[s]
      /\ q[r].stage \in {"ambiguous", "reverted", "settled"}
      /\ q'[r].stage \in {"idle", "key"}
  <2>1. CASE PersistUnsettled(r)
    BY <1>1, <2>1 DEF PersistUnsettled, Reject, Unsure, Refuse, Say, Idle
  <2>2. CASE PersistSettled(r)
    BY <1>1, <2>2 DEF PersistSettled, Go, Request
  <2>3. QED
    BY <2>1, <2>2
<1>4. InLine'
    BY <1>1, <1>2, <1>3, LineStep DEF InTurn
<1>5. Bids' = Bids /\ (Ours' <=> Ours) /\ \A s \in Req : Signed(s)' <=> Signed(s)
    BY <1>2 DEF Bids, Signed, Pay, Ours
<1>6. \A s \in Req : q'[s].stage = "send" => q[s].stage = "send"
    BY <1>3
<1>7. CASE Signed(r)
  <2>1. r \in Bidding /\ Bidding' = Bidding \ {r}
    BY <1>3, <1>5, <1>7 DEF Bidding
  <2>2. QED
    BY <1>1, <1>2, <1>4, <1>5, <1>6, <1>7, <2>1, RowCount DEF Row
<1>8. CASE ~Signed(r)
  <2>1. Bidding' = Bidding
    BY <1>3, <1>5, <1>8 DEF Bidding
  <2>2. QED
    BY <1>1, <1>2, <1>4, <1>5, <1>6, <1>8, <2>1, QuietCount DEF Row
<1>9. QED
    BY <1>7, <1>8

LEMMA FeeInit == Init => FeeInv
<1> SUFFICES ASSUME Init PROVE FeeInv
    OBVIOUS
<1>1. Bids = {} /\ Bidding = {}
    BY DEF Init, Bids, Bidding, Idle
<1>2. Cardinality({}) = 0
    BY FS_EmptySet
<1>3. Cardinality(Bids) = 0 /\ Cardinality(Bidding) = 0
    BY <1>1, <1>2, Zenon
<1>4. Counted
    BY <1>3, FeeSets DEF Counted, Init, Idle
<1>5. InLine
    BY DEF InLine, Init, Idle, InTurn
<1>6. QED
    BY <1>4, <1>5, BooksInit DEF FeeInv, Init

LEMMA FeeStep == FeeInv /\ [Next]_vars => FeeInv'
<1> SUFFICES ASSUME FeeInv, [Next]_vars PROVE FeeInv'
    OBVIOUS
<1>1. BooksInv'
    BY BooksStep DEF FeeInv
<1>2. UNCHANGED setting
    BY DEF Next, Handle, Verify, LoadSpent, Guard, Simulate, Budget, Send, Confirm,
       PersistUnsettled, PersistSettled, PersistSpent, Serve, Close, CloseHash, Tick, Restart,
       world, vars
<1>3. fees' \in Nat /\ unrecorded' \in Nat
  <2>1. fees \in Nat /\ unrecorded \in Nat /\ Cardinality(Bidding) \in Nat
    BY FeeSets DEF FeeInv
  <2>2. \/ UNCHANGED <<fees, unrecorded>>
        \/ \E r \in Req : Row(r)
        \/ UNCHANGED fees /\ unrecorded' = unrecorded + Cardinality(Bidding)
    BY DEF Next, Handle, Verify, LoadSpent, Guard, Simulate, Budget, Send, Confirm,
       PersistUnsettled, PersistSettled, PersistSpent, Serve, Close, CloseHash, Tick, Restart,
       vars, books
  <2>3. QED
    BY <2>1, <2>2 DEF Row
<1>4. ASSUME Ours PROVE InLine' /\ Counted'
  <2>1. ASSUME NEW r \in Req, Handle(r) PROVE InLine' /\ Counted'
    BY <1>4, <2>1, QuietFees, SendFees, RowFees DEF Handle
  <2>2. CASE \/ (\E t \in Tx : Close(t)) \/ (\E p \in Hashes : CloseHash(p)) \/ Tick
             \/ UNCHANGED vars
    <3>1. UNCHANGED <<q, line, fees, unrecorded>>
      BY <2>2 DEF Close, CloseHash, Tick, vars, books
    <3>2. \A t \in Tx : tx'[t].state # "unsent" <=> tx[t].state # "unsent"
      BY <2>2 DEF Close, CloseHash, Tick, vars, ledger, FeeInv, BooksInv, Typed
    <3>3. Bids' = Bids /\ Bidding' = Bidding
      BY <1>2, <3>1, <3>2 DEF Bids, Bidding, Signed, Pay, Ours
    <3>4. Counted'
      BY <1>4, <3>1, <3>3, QuietCount DEF FeeInv
    <3>5. QED
      BY <1>4, <3>1, <3>4 DEF FeeInv, InLine
  <2>3. CASE Restart
    <3>1. /\ \A s \in Req : q'[s].stage = "idle"
          /\ line' = <<>> /\ UNCHANGED <<tx, fees>>
          /\ unrecorded' = unrecorded + Cardinality(Bidding)
      BY <2>3 DEF Restart, Idle, ledger
    <3>2. Bids' = Bids /\ Bidding' = {}
      BY <3>1 DEF Bids, Bidding
    <3>3. Cardinality(Bidding)' = 0
      BY <3>2, FS_EmptySet, Zenon
    <3>4. Cardinality(Bids)' = Cardinality(Bids) /\ Room' = Room
      BY <3>2 DEF Room
    <3>5. Counted'
      BY <1>4, <3>1, <3>3, <3>4, FeeSets DEF Counted, FeeInv
    <3>6. InLine'
      BY <3>1 DEF InLine, InTurn
    <3>7. QED
      BY <3>5, <3>6
  <2>4. QED
    BY <2>1, <2>2, <2>3 DEF Next
<1>5. QED
    BY <1>1, <1>2, <1>3, <1>4 DEF FeeInv, Ours

(* The fees bid in a day pass the budget by no more than one settlement per *)
(* other request at work and the rows that were lost, for any number of     *)
(* requests: the turn of a request ends when its submission is answered,    *)
(* before its row is written (buildSignAndSend, feeSpentOnDay).             *)
THEOREM FeesStayBounded == Spec => []FeesBounded
<1>1. FeeInv => FeesBounded
  <2>1. SUFFICES ASSUME FeeInv PROVE FeesBounded
    OBVIOUS
  <2>2. CASE Ours
    BY <2>1, <2>2, FeeSets, StellarAssumption DEF FeeInv, Counted, FeesBounded, FeesBid, Bids, Room
  <2>3. CASE ~Ours
    BY <2>1, <2>3, FeeSets, StellarAssumption DEF FeeInv, FeesBounded, FeesBid
  <2>4. QED
    BY <2>2, <2>3
<1>2. QED
    BY <1>1, FeeInit, FeeStep, PTL DEF Spec
=============================================================================
