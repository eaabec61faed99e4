------------------------ MODULE X402Settlement_proofs ------------------------
(* Proofs about X402Settlement, for any number of requests, transactions,   *)
(* rows and restarts and any setting.                                       *)
EXTENDS X402Settlement, SequenceTheorems, FiniteSetTheorems, WellFoundedInduction, TLAPS

(* Where a request holds the key of the authorization, and where it acts on *)
(* a transaction that landed.                                               *)
HasKey == {"proof", "log", "look", "unused", "simulate", "note", "send", "wait", "finish",
           "close", "claim", "key"}
HasTx  == {"send", "wait", "finish", "close", "claim", "key", "serve", "mark", "release"}
HasPay == {"finish", "claim", "key", "serve", "mark", "release"}

Typed ==
    /\ setting \in Settings
    /\ phase \in {"valid", "closing", "expired", "over"}
    /\ used \in BOOLEAN
    /\ tx \in [Tx -> TxStates]
    /\ log \in Seq(RowType)
    /\ Len(log) <= MaxRows
    /\ inFlight \in Req \cup {Nobody}
    /\ q \in [Req -> Request]
    /\ late \in SUBSET LateWrite
    /\ served \in Nat
    /\ crashes \in Nat
    /\ overtaken \in Nat

LogTyped == log \in Seq(RowType) /\ Len(log) <= MaxRows

-----------------------------------------------------------------------------
(* The rows of the log: a write adds one, or changes some where they are.   *)
LEMMA RowsOf ==
    ASSUME NEW s \in Seq(RowType)
    PROVE  /\ DOMAIN s = 1..Len(s) /\ Len(s) \in Nat
           /\ \A k \in DOMAIN s : s[k] \in RowType
    BY LenProperties, ElementOfSeq

LEMMA SameRows ==
    ASSUME NEW s \in Seq(RowType), NEW f, f \in [DOMAIN s -> RowType]
    PROVE  f \in Seq(RowType) /\ DOMAIN f = DOMAIN s /\ Len(f) = Len(s)
<1>1. f \in [1..Len(s) -> RowType] /\ Len(s) \in Nat
    BY RowsOf
<1>2. f \in Seq(RowType)
    BY <1>1, SeqDef
<1>3. DOMAIN f = 1..Len(f) /\ Len(f) \in Nat /\ DOMAIN f = 1..Len(s)
    BY <1>1, <1>2, LenProperties
<1>4. QED
    BY <1>1, <1>2, <1>3, RowsOf

LEMMA OneMore ==
    ASSUME NEW s \in Seq(RowType), NEW row \in RowType
    PROVE  /\ Append(s, row) \in Seq(RowType)
           /\ Len(Append(s, row)) = Len(s) + 1
           /\ DOMAIN Append(s, row) = DOMAIN s \cup {Len(s) + 1}
           /\ Len(s) + 1 \notin DOMAIN s
           /\ \A k \in DOMAIN s : Append(s, row)[k] = s[k]
           /\ Append(s, row)[Len(s) + 1] = row
<1>1. DOMAIN s = 1..Len(s) /\ Len(s) \in Nat
    BY RowsOf
<1>2. Append(s, row) \in Seq(RowType) /\ Len(Append(s, row)) = Len(s) + 1
    OBVIOUS
<1>3. DOMAIN Append(s, row) = 1..(Len(s) + 1)
    BY <1>2, RowsOf
<1>4. QED
    BY <1>1, <1>2, <1>3

(* A row as an update leaves it.                                            *)
LEMMA RowClaimed ==
    ASSUME NEW row \in RowType, NEW claim \in Req \cup {Nobody},
           NEW x, x = [row EXCEPT !.claim = claim]
    PROVE  /\ x \in RowType /\ x.claim = claim
           /\ x.tx = row.tx /\ x.want = row.want /\ x.served = row.served /\ x.outcome = row.outcome
    BY DEF RowType

LEMMA RowServed ==
    ASSUME NEW row \in RowType, NEW x, x = [row EXCEPT !.served = TRUE]
    PROVE  /\ x \in RowType /\ x.served = TRUE
           /\ x.tx = row.tx /\ x.want = row.want /\ x.claim = row.claim /\ x.outcome = row.outcome
    BY DEF RowType

LEMMA ResolvedRows ==
    ASSUME LogTyped, NEW t \in Tx, NEW outcome \in {"settled", "reverted", "dropped"},
           NEW claim \in Req \cup {Nobody}, NEW new, new = Resolved(t, outcome, claim)
    PROVE  /\ new \in Seq(RowType) /\ DOMAIN new = DOMAIN log /\ Len(new) = Len(log)
           /\ \A k \in DOMAIN log :
                /\ new[k].tx = log[k].tx /\ new[k].want = log[k].want
                /\ new[k].served = log[k].served
                /\ log[k].tx = t /\ log[k].outcome = "ambiguous"
                     => new[k].outcome = outcome /\ new[k].claim = claim
                /\ ~(log[k].tx = t /\ log[k].outcome = "ambiguous") => new[k] = log[k]
<1>1. ASSUME NEW k \in DOMAIN log
      PROVE  /\ new[k] \in RowType
             /\ new[k].tx = log[k].tx /\ new[k].want = log[k].want
             /\ new[k].served = log[k].served
             /\ log[k].tx = t /\ log[k].outcome = "ambiguous"
                  => new[k].outcome = outcome /\ new[k].claim = claim
             /\ ~(log[k].tx = t /\ log[k].outcome = "ambiguous") => new[k] = log[k]
  <2>1. log[k] \in RowType
    BY RowsOf DEF LogTyped
  <2>2. CASE log[k].tx = t /\ log[k].outcome = "ambiguous"
    <3>1. new[k] = [log[k] EXCEPT !.outcome = outcome, !.claim = claim]
      BY <2>2 DEF Resolved
    <3>2. QED
      BY <2>1, <2>2, <3>1 DEF RowType
  <2>3. CASE ~(log[k].tx = t /\ log[k].outcome = "ambiguous")
    BY <2>1, <2>3 DEF Resolved
  <2>4. QED
    BY <2>2, <2>3
<1>2. new \in [DOMAIN log -> RowType]
  <2>1. \A k \in DOMAIN log : new[k] \in RowType
    BY <1>1
  <2>2. DOMAIN new = DOMAIN log /\ new = [k \in DOMAIN log |-> new[k]]
    BY DEF Resolved
  <2>3. QED
    BY <2>1, <2>2
<1>3. new \in Seq(RowType) /\ DOMAIN new = DOMAIN log /\ Len(new) = Len(log)
    BY <1>2, SameRows DEF LogTyped
<1>4. QED
    BY <1>1, <1>3

WithClaim(S, claim) ==
    [k \in DOMAIN log |-> IF k \in S THEN [log[k] EXCEPT !.claim = claim] ELSE log[k]]
WithServed(S) ==
    [k \in DOMAIN log |-> IF k \in S THEN [log[k] EXCEPT !.served = TRUE] ELSE log[k]]

LEMMA ClaimedRows ==
    ASSUME LogTyped, NEW S \in SUBSET DOMAIN log, NEW claim \in Req \cup {Nobody}, NEW new,
           new = WithClaim(S, claim)
    PROVE  /\ new \in Seq(RowType) /\ DOMAIN new = DOMAIN log /\ Len(new) = Len(log)
           /\ \A k \in DOMAIN log :
                /\ new[k].tx = log[k].tx /\ new[k].want = log[k].want
                /\ new[k].served = log[k].served /\ new[k].outcome = log[k].outcome
                /\ k \in S => new[k].claim = claim
                /\ k \notin S => new[k] = log[k]
<1>1. ASSUME NEW k \in DOMAIN log
      PROVE  /\ new[k] \in RowType
             /\ new[k].tx = log[k].tx /\ new[k].want = log[k].want
             /\ new[k].served = log[k].served /\ new[k].outcome = log[k].outcome
             /\ k \in S => new[k].claim = claim
             /\ k \notin S => new[k] = log[k]
  <2>1. log[k] \in RowType
    BY RowsOf DEF LogTyped
  <2>2. CASE k \in S
    <3>1. new[k] = [log[k] EXCEPT !.claim = claim]
      BY <2>2 DEF WithClaim
    <3>2. QED
      BY <2>1, <2>2, <3>1, RowClaimed
  <2>3. CASE k \notin S
    BY <2>1, <2>3 DEF WithClaim
  <2>4. QED
    BY <2>2, <2>3
<1>2. new \in [DOMAIN log -> RowType]
  <2>1. \A k \in DOMAIN log : new[k] \in RowType
    BY <1>1
  <2>2. DOMAIN new = DOMAIN log /\ new = [k \in DOMAIN log |-> new[k]]
    BY DEF WithClaim
  <2>3. QED
    BY <2>1, <2>2
<1>3. new \in Seq(RowType) /\ DOMAIN new = DOMAIN log /\ Len(new) = Len(log)
    BY <1>2, SameRows DEF LogTyped
<1>4. QED
    BY <1>1, <1>3

LEMMA ServedRows ==
    ASSUME LogTyped, NEW S \in SUBSET DOMAIN log, NEW new,
           new = WithServed(S)
    PROVE  /\ new \in Seq(RowType) /\ DOMAIN new = DOMAIN log /\ Len(new) = Len(log)
           /\ \A k \in DOMAIN log :
                /\ new[k].tx = log[k].tx /\ new[k].want = log[k].want
                /\ new[k].claim = log[k].claim /\ new[k].outcome = log[k].outcome
                /\ k \in S => new[k].served = TRUE
                /\ k \notin S => new[k] = log[k]
<1>1. ASSUME NEW k \in DOMAIN log
      PROVE  /\ new[k] \in RowType
             /\ new[k].tx = log[k].tx /\ new[k].want = log[k].want
             /\ new[k].claim = log[k].claim /\ new[k].outcome = log[k].outcome
             /\ k \in S => new[k].served = TRUE
             /\ k \notin S => new[k] = log[k]
  <2>1. log[k] \in RowType
    BY RowsOf DEF LogTyped
  <2>2. CASE k \in S
    <3>1. new[k] = [log[k] EXCEPT !.served = TRUE]
      BY <2>2 DEF WithServed
    <3>2. QED
      BY <2>1, <2>2, <3>1, RowServed
  <2>3. CASE k \notin S
    BY <2>1, <2>3 DEF WithServed
  <2>4. QED
    BY <2>2, <2>3
<1>2. new \in [DOMAIN log -> RowType]
  <2>1. \A k \in DOMAIN log : new[k] \in RowType
    BY <1>1
  <2>2. DOMAIN new = DOMAIN log /\ new = [k \in DOMAIN log |-> new[k]]
    BY DEF WithServed
  <2>3. QED
    BY <2>1, <2>2
<1>3. new \in Seq(RowType) /\ DOMAIN new = DOMAIN log /\ Len(new) = Len(log)
    BY <1>2, SameRows DEF LogTyped
<1>4. QED
    BY <1>1, <1>3

(* The newest of some rows is one of them.                                  *)
LEMMA NewestRow ==
    ASSUME NEW S \in SUBSET Nat, S # {}, NEW n \in Nat, \A k \in S : k <= n
    PROVE  Max(S) \in S
<1> DEFINE T == {m \in Nat : n - m \in S}
<1>1. T \subseteq Nat /\ T # {}
  <2>1. PICK k \in S : TRUE
    OBVIOUS
  <2>2. n - k \in Nat /\ n - (n - k) = k
    OBVIOUS
  <2>3. n - k \in T
    BY <2>1, <2>2
  <2>4. QED
    BY <2>3
<1>2. PICK m \in T : \A x \in T : ~(<<x, m>> \in OpToRel(<, Nat))
    BY <1>1, NatLessThanWellFounded, WFMin
<1>3. \A x \in T : ~(x < m)
    BY <1>1, <1>2 DEF OpToRel
<1>4. n - m \in S
    BY DEF T
<1>5. ASSUME NEW y \in S PROVE n - m >= y
  <2>1. n - y \in Nat /\ n - (n - y) = y
    OBVIOUS
  <2>2. n - y \in T
    BY <2>1
  <2>3. ~(n - y < m) /\ m \in Nat
    BY <1>3, <2>2
  <2>4. QED
    BY <2>1, <2>3
<1>6. QED
    BY <1>4, <1>5 DEF Max

-----------------------------------------------------------------------------
(* What a request knows of its transaction and its row at each stage.       *)
Knows(r) ==
    /\ q[r].stage \in HasKey => inFlight = r
    /\ q[r].stage \in HasTx => q[r].tx \in Tx
    /\ q[r].stage \in HasPay => tx[q[r].tx] = "landed"
    /\ q[r].stage \in HasTx \ {"close"}
         => \E k \in DOMAIN log : log[k].tx = q[r].tx /\ log[k].want = Want(r)
    /\ q[r].stage = "send" => tx[q[r].tx] = "signed"
    /\ q[r].stage = "close" => tx[q[r].tx] \in {"signed", "gone"}
    /\ q[r].stage = "mark" => served > 0
    /\ q[r].stage = "look" => q[r].look # {} /\ q[r].look \subseteq DOMAIN log
    /\ q[r].stage = "unused" => q[r].refused = "expired"
    /\ q[r].stage \in {"proof", "log", "look", "unused"} /\ q[r].refused = "expired"
         => phase \in {"expired", "over"}

(* What the ledger and the rows say of each other.                          *)
RowsOk ==
    \A k \in DOMAIN log :
      /\ log[k].outcome = "settled" => tx[log[k].tx] = "landed"
      /\ log[k].served => log[k].outcome = "settled" /\ served > 0

OneLanded ==
    /\ \A t \in Tx : tx[t] = "landed" => used
    /\ \A t, u \in Tx : tx[t] = "landed" /\ tx[u] = "landed" => t = u

PaidInv == Typed /\ RowsOk /\ OneLanded /\ \A r \in Req : Knows(r)

LogGrows ==
    /\ DOMAIN log \subseteq DOMAIN log'
    /\ \A k \in DOMAIN log : log'[k].tx = log[k].tx /\ log'[k].want = log[k].want

Others(r) == \A s \in Req : s # r => q'[s] = q[s] /\ (inFlight = s => inFlight' = s)

(* A turn of one request, as the others see it.                             *)
Turn(r) ==
    /\ UNCHANGED <<setting, phase, used, crashes>>
    /\ q' \in [Req -> Request] /\ inFlight' \in Req \cup {Nobody}
    /\ Others(r)
    /\ LogTyped' /\ LogGrows /\ RowsOk'
    /\ tx' \in [Tx -> TxStates]
    /\ \A t \in Tx : tx'[t] = "landed" <=> tx[t] = "landed"
    /\ tx' = tx \/ inFlight = r
    /\ late' \in SUBSET LateWrite
    /\ served' \in Nat /\ served' >= served
    /\ overtaken' \in Nat
    /\ Knows(r)'

LEMMA TurnKeeps == ASSUME PaidInv, NEW r \in Req, Turn(r) PROVE PaidInv'
<1>1. Typed'
    BY DEF PaidInv, Typed, Turn, LogTyped
<1>2. OneLanded'
    BY DEF PaidInv, OneLanded, Turn
<1>3. ASSUME NEW s \in Req, s # r PROVE Knows(s)'
  <2>1. q'[s] = q[s] /\ (inFlight = s => inFlight' = s) /\ Knows(s) /\ Want(s)' = Want(s)
    BY <1>3 DEF Turn, Others, PaidInv, Want
  <2>2. \A k \in DOMAIN log : k \in DOMAIN log' /\ log'[k].tx = log[k].tx /\ log'[k].want = log[k].want
    BY DEF Turn, LogGrows
  <2>3. q[s].stage \in {"send", "close"} => tx' = tx
    BY <1>3, <2>1 DEF Knows, HasKey, Turn
  <2>4. q[s].stage \in HasTx => (tx[q[s].tx] = "landed" => tx'[q[s].tx] = "landed")
    BY <2>1 DEF Knows, Turn
  <2>5. /\ UNCHANGED phase /\ served' >= served /\ served \in Nat /\ served' \in Nat
    BY DEF Turn, PaidInv, Typed
  <2>6. q[s].stage \in HasPay => q[s].stage \in HasTx
    BY DEF HasPay, HasTx
  <2>7. served > 0 => served' > 0
    BY <2>5
  <2>8. q'[s].stage \in HasTx \ {"close"}
         => \E k \in DOMAIN log' : log'[k].tx = q'[s].tx /\ log'[k].want = Want(s)'
    BY <2>1, <2>2 DEF Knows
  <2>9. QED
    BY <2>1, <2>2, <2>3, <2>4, <2>5, <2>6, <2>7, <2>8 DEF Knows
<1>4. QED
    BY <1>1, <1>2, <1>3 DEF PaidInv, Turn

-----------------------------------------------------------------------------
(* What the moves of a request leave behind.                                *)
Told == {"nothing", "retry", "challenge", "mismatch", "served"}

LEMMA IdleType == Idle \in Request /\ Idle.stage = "idle"
    BY X402Assumption DEF Idle, Request, Stages

LEMMA AnswerMove ==
    ASSUME Typed, NEW r \in Req, NEW told \in Told, Answer(r, told)
    PROVE  /\ q' \in [Req -> Request] /\ inFlight' \in Req \cup {Nobody}
           /\ Others(r)
           /\ q'[r].stage = "idle" /\ q'[r].told = told
<1>1. [Idle EXCEPT !.told = told] \in Request
    BY IdleType DEF Told, Request
<1>2. [Idle EXCEPT !.told = told].stage = "idle" /\ [Idle EXCEPT !.told = told].told = told
    BY DEF Idle
<1>3. QED
    BY <1>1, <1>2, X402Assumption DEF Typed, Answer, FreeKey, Others

LEMMA TakeKeyMove ==
    ASSUME Typed, NEW r \in Req, NEW stage \in Stages,
           NEW refused \in {"none", "expired", "expiring_too_soon", "nonce_used", "already_redeemed"},
           TakeKey(r, stage, refused)
    PROVE  /\ q' \in [Req -> Request] /\ inFlight' \in Req \cup {Nobody}
           /\ Others(r)
           /\ \/ q'[r].stage = "idle" /\ q'[r].told = "retry"
              \/ /\ q'[r].stage = stage /\ q'[r].refused = refused /\ q'[r].told = q[r].told
                 /\ q'[r].look = q[r].look /\ q'[r].left = q[r].left
                 /\ inFlight = Nobody /\ inFlight' = r
<1>1. CASE inFlight # Nobody
    BY <1>1, AnswerMove DEF TakeKey, Told
<1>2. CASE inFlight = Nobody
  <2>1. q'[r] = [q[r] EXCEPT !.stage = stage, !.refused = refused] /\ inFlight' = r
    BY <1>2 DEF TakeKey, Typed
  <2>2. \A s \in Req : s # r => q'[s] = q[s] /\ inFlight # s
    BY <1>2, X402Assumption DEF TakeKey, Typed
  <2>3. q'[r] \in Request
    BY <2>1 DEF Typed, Request
  <2>4. q' \in [Req -> Request]
    BY <1>2, <2>3 DEF TakeKey, Typed
  <2>5. QED
    BY <1>2, <2>1, <2>2, <2>4 DEF Others, Typed, Request
<1>3. QED
    BY <1>1, <1>2

LEMMA GoMove ==
    ASSUME Typed, NEW r \in Req, NEW stage \in Stages, Go(r, stage)
    PROVE  /\ q' \in [Req -> Request]
           /\ \A s \in Req : s # r => q'[s] = q[s]
           /\ q'[r].stage = stage /\ q'[r].refused = q[r].refused /\ q'[r].told = q[r].told
           /\ q'[r].look = q[r].look /\ q'[r].left = q[r].left /\ q'[r].tx = q[r].tx
           /\ q'[r].stale = q[r].stale
    BY DEF Go, Typed, Request

(* An answer that leaves the ledger and the log alone.                      *)
LEMMA Answered ==
    ASSUME PaidInv, NEW r \in Req, NEW told \in Told, Answer(r, told),
           UNCHANGED <<setting, phase, used, crashes>>, overtaken' \in Nat,
           LogTyped', LogGrows, RowsOk', tx' = tx, late' \in SUBSET LateWrite, served' = served
    PROVE  Turn(r)
<1>1. Typed
    BY DEF PaidInv
<1>2. Knows(r)'
    BY <1>1, AnswerMove DEF Knows, HasKey, HasTx, HasPay
<1>3. QED
    BY <1>1, <1>2, AnswerMove DEF Turn, Typed

LEMMA SameLog ==
    ASSUME PaidInv, UNCHANGED log, tx' = tx, served' = served
    PROVE  LogTyped' /\ LogGrows /\ RowsOk'
    BY DEF PaidInv, Typed, LogTyped, LogGrows, RowsOk

(* What a handler may find in the log, and what it may leave there.         *)
Still ==
    /\ UNCHANGED <<setting, phase, used, crashes, tx, late, served>>
    /\ overtaken' \in Nat

LEMMA VerifyTurn ==
    ASSUME PaidInv, NEW r \in Req,
           Arrive(r) \/ LoadSpent(r) \/ AuthorizationState(r) \/ Funds(r) \/ Proof(r)
    PROVE  Turn(r)
<1> DEFINE Kinds == {"none", "expired", "expiring_too_soon", "nonce_used", "already_redeemed"}
<1>1. Typed /\ Still /\ UNCHANGED log /\ Knows(r)
    BY DEF PaidInv, Arrive, LoadSpent, AuthorizationState, Funds, Proof, world, Still, Typed
<1>2. LogTyped' /\ LogGrows /\ RowsOk'
    BY <1>1, SameLog DEF Still
<1>3. ASSUME NEW stage \in {"proof", "log"}, NEW refused \in Kinds, TakeKey(r, stage, refused),
             refused = "expired" => phase \in {"expired", "over"}
      PROVE  Turn(r)
  <2>1. stage \in Stages
    BY <1>3 DEF Stages
  <2>2. Knows(r)'
    BY <1>1, <1>3, <2>1, TakeKeyMove DEF Knows, HasKey, HasTx, HasPay, Still
  <2>3. QED
    BY <1>1, <1>2, <1>3, <2>1, <2>2, TakeKeyMove DEF Turn, Typed, Still
<1>4. ASSUME NEW told \in Told, Answer(r, told) PROVE Turn(r)
    BY <1>1, <1>2, <1>4, Answered DEF Still, Typed
<1>5. ASSUME NEW stage \in {"state", "funds"}, Go(r, stage), UNCHANGED inFlight PROVE Turn(r)
  <2>1. stage \in Stages
    BY <1>5 DEF Stages
  <2>2. Knows(r)'
    BY <1>1, <1>5, <2>1, GoMove DEF Knows, HasKey, HasTx, HasPay
  <2>3. QED
    BY <1>1, <1>2, <1>5, <2>1, <2>2, GoMove DEF Turn, Typed, Still, Others
<1>6. CASE Arrive(r)
  <2>1. CASE /\ q' = [q EXCEPT ![r] = [Idle EXCEPT !.stage = "spent"]] /\ UNCHANGED inFlight
    <3>1. /\ q' \in [Req -> Request] /\ q'[r].stage = "spent"
          /\ \A s \in Req : s # r => q'[s] = q[s]
      BY <1>1, <2>1, IdleType DEF Typed, Request, Stages
    <3>2. Knows(r)'
      BY <3>1 DEF Knows, HasKey, HasTx, HasPay
    <3>3. QED
      BY <1>1, <1>2, <2>1, <3>1, <3>2 DEF Turn, Typed, Still, Others
  <2>2. CASE phase = "closing" /\ TakeKey(r, "proof", "expiring_too_soon")
    BY <1>3, <2>2
  <2>3. CASE phase \notin {"valid", "closing"} /\ TakeKey(r, "proof", "expired")
    BY <1>1, <1>3, <2>3 DEF Typed
  <2>4. QED
    BY <1>6, <2>1, <2>2, <2>3 DEF Arrive
<1>7. CASE LoadSpent(r)
    BY <1>3, <1>4, <1>5, <1>7 DEF LoadSpent, Told
<1>8. CASE AuthorizationState(r)
    BY <1>3, <1>4, <1>5, <1>8 DEF AuthorizationState, Told
<1>9. CASE Funds(r)
    BY <1>3, <1>4, <1>9 DEF Funds, Told
<1>10. CASE Proof(r)
  <2>1. CASE Go(r, "log") /\ UNCHANGED inFlight
    <3>1. "log" \in Stages /\ q[r].stage = "proof"
      BY <1>10 DEF Stages, Proof
    <3>2. Knows(r)'
      BY <1>1, <2>1, <3>1, GoMove DEF Knows, HasKey, HasTx, HasPay, Still
    <3>3. QED
      BY <1>1, <1>2, <2>1, <3>1, <3>2, GoMove DEF Turn, Typed, Still, Others
  <2>2. QED
    BY <1>4, <1>10, <2>1 DEF Proof, Told
<1>11. QED
    BY <1>6, <1>7, <1>8, <1>9, <1>10

(* The refusal stands, or a fresh transaction goes.                         *)
LEMMA NoEarlierTurn ==
    ASSUME PaidInv, NEW r \in Req, NoEarlier(r), Still, inFlight = r,
           LogTyped', LogGrows, RowsOk'
    PROVE  Turn(r) /\ (q'[r].stage = "idle" \/ q'[r].stage = "simulate")
<1>1. Typed
    BY DEF PaidInv
<1>2. CASE Answer(r, "challenge")
    BY <1>1, <1>2, Answered, AnswerMove DEF Still, Told, Typed
<1>3. CASE /\ q' = [q EXCEPT ![r].stage = "simulate", ![r].look = {}, ![r].left = FALSE]
           /\ UNCHANGED inFlight
  <2>1. q'[r] = [q[r] EXCEPT !.stage = "simulate", !.look = {}, !.left = FALSE]
    BY <1>1, <1>3 DEF Typed
  <2>2. q'[r] \in Request /\ q'[r].stage = "simulate"
    <3>1. q[r] \in Request
      BY <1>1 DEF Typed
    <3>2. q'[r] = [stage |-> "simulate", look |-> {}, left |-> FALSE, tx |-> q[r].tx,
                   stale |-> q[r].stale, refused |-> q[r].refused, told |-> q[r].told]
      BY <2>1, <3>1 DEF Request
    <3>3. QED
      BY <3>1, <3>2 DEF Request, Stages
  <2>3. q' \in [Req -> Request] /\ \A s \in Req : s # r => q'[s] = q[s]
    BY <1>1, <1>3, <2>2 DEF Typed
  <2>4. Knows(r)'
    BY <1>3, <2>2 DEF Knows, HasKey, HasTx, HasPay
  <2>5. QED
    BY <1>1, <1>3, <2>2, <2>3, <2>4 DEF Turn, Typed, Still, Others
<1>4. QED
    BY <1>2, <1>3 DEF NoEarlier

(* A row that settled is claimed, or the request is answered.               *)
LEMMA RedeemTurn ==
    ASSUME PaidInv, NEW r \in Req, NEW row \in RowType, Redeem(r, row), Still, inFlight = r,
           LogTyped', LogGrows, RowsOk',
           NEW k \in DOMAIN log, log[k].tx = row.tx, log[k].want = row.want,
           tx[row.tx] = "landed"
    PROVE  Turn(r) /\ (q'[r].stage = "idle" \/ (q'[r].stage = "claim" /\ q'[r].tx = row.tx))
<1>1. Typed
    BY DEF PaidInv
<1>2. CASE Answer(r, "challenge") \/ Answer(r, "mismatch")
    BY <1>1, <1>2, Answered, AnswerMove DEF Still, Told, Typed
<1>3. CASE /\ row.want = Want(r)
           /\ q' = [q EXCEPT ![r].stage = "claim", ![r].tx = row.tx, ![r].look = {}, ![r].left = FALSE]
           /\ UNCHANGED inFlight
  <2>0. row.tx \in Tx /\ row.tx \in 0..MaxTx
    BY X402Assumption DEF RowType, Tx
  <2>1. q'[r] = [q[r] EXCEPT !.stage = "claim", !.tx = row.tx, !.look = {}, !.left = FALSE]
    BY <1>1, <1>3 DEF Typed
  <2>2. q'[r] \in Request /\ q'[r].stage = "claim" /\ q'[r].tx = row.tx
    <3>1. q[r] \in Request
      BY <1>1 DEF Typed
    <3>2. q'[r] = [stage |-> "claim", look |-> {}, left |-> FALSE, tx |-> row.tx,
                   stale |-> q[r].stale, refused |-> q[r].refused, told |-> q[r].told]
      BY <2>1, <3>1 DEF Request
    <3>3. QED
      BY <2>0, <3>1, <3>2 DEF Request, Stages
  <2>3. q' \in [Req -> Request] /\ \A s \in Req : s # r => q'[s] = q[s]
    BY <1>1, <1>3, <2>2 DEF Typed
  <2>4. k \in DOMAIN log' /\ log'[k].tx = q'[r].tx /\ log'[k].want = Want(r)'
    BY <1>3, <2>2 DEF LogGrows, Want, Still
  <2>5. Knows(r)'
    BY <1>3, <2>0, <2>2, <2>4 DEF Knows, HasKey, HasTx, HasPay, Still
  <2>6. QED
    BY <1>1, <1>3, <2>2, <2>3, <2>5 DEF Turn, Typed, Still, Others
<1>4. row.served \in BOOLEAN
    BY DEF RowType
<1>5. \/ Answer(r, "challenge") \/ Answer(r, "mismatch")
      \/ /\ row.want = Want(r)
         /\ q' = [q EXCEPT ![r].stage = "claim", ![r].tx = row.tx, ![r].look = {}, ![r].left = FALSE]
         /\ UNCHANGED inFlight
    BY <1>4 DEF Redeem
<1>6. QED
    BY <1>2, <1>3, <1>5

(* A resolution of what the chain shows keeps the rows true.                *)
LEMMA ResolveKeeps ==
    ASSUME PaidInv, NEW t \in Tx, NEW v \in {"settled", "reverted", "dropped"},
           NEW claim \in Req \cup {Nobody}, log' = Resolved(t, v, claim),
           v = "settled" => tx[t] = "landed", tx' = tx, served' = served
    PROVE  LogTyped' /\ LogGrows /\ RowsOk'
<1>1. LogTyped
    BY DEF PaidInv, Typed, LogTyped
<1>2. /\ log' \in Seq(RowType) /\ DOMAIN log' = DOMAIN log /\ Len(log') = Len(log)
      /\ \A k \in DOMAIN log :
           /\ log'[k].tx = log[k].tx /\ log'[k].want = log[k].want
           /\ log'[k].served = log[k].served
           /\ log[k].tx = t /\ log[k].outcome = "ambiguous"
                => log'[k].outcome = v /\ log'[k].claim = claim
           /\ ~(log[k].tx = t /\ log[k].outcome = "ambiguous") => log'[k] = log[k]
    BY <1>1, ResolvedRows
<1>3. RowsOk'
    BY <1>2 DEF PaidInv, RowsOk
<1>4. QED
    BY <1>1, <1>2, <1>3 DEF LogTyped, LogGrows

LEMMA VerdictTrue ==
    ASSUME PaidInv, NEW t \in Tx, NEW v \in Verdicts(t)
    PROVE  /\ v \in {"settled", "reverted", "dropped"}
           /\ v = "settled" => tx[t] = "landed"
           /\ v # "settled" => tx[t] \in {"reverted", "gone"}
    BY DEF Verdicts

LEMMA ReadLogTurn == ASSUME PaidInv, NEW r \in Req, ReadLog(r) PROVE Turn(r)
<1>1. Typed /\ LogTyped /\ Still /\ UNCHANGED log /\ Knows(r) /\ inFlight = r /\ q[r].stage = "log"
    BY DEF PaidInv, ReadLog, world, Still, Knows, HasKey, Typed, LogTyped
<1>2. LogTyped' /\ LogGrows /\ RowsOk'
    BY <1>1, SameLog DEF Still
<1>3. DOMAIN log = 1..Len(log) /\ Len(log) \in Nat /\ \A k \in DOMAIN log : log[k] \in RowType
    BY <1>1, RowsOf DEF LogTyped
<1>4. CASE Answer(r, "retry")
    BY <1>1, <1>2, <1>4, Answered DEF Still, Told, Typed
<1>5. CASE RowsThat("settled") # {} /\ Redeem(r, log[Max(RowsThat("settled"))])
  <2>1. RowsThat("settled") \subseteq DOMAIN log /\ \A k \in RowsThat("settled") : k <= Len(log)
    BY <1>3 DEF RowsThat
  <2>2. RowsThat("settled") \in SUBSET Nat
    BY <1>3, <2>1
  <2>3. Max(RowsThat("settled")) \in RowsThat("settled")
    BY <1>3, <1>5, <2>1, <2>2, NewestRow
  <2>4. PICK k \in DOMAIN log : k = Max(RowsThat("settled")) /\ log[k].outcome = "settled"
    BY <2>3 DEF RowsThat
  <2>5. log[k] \in RowType /\ tx[log[k].tx] = "landed" /\ Redeem(r, log[k])
    BY <1>3, <1>5, <2>4 DEF PaidInv, RowsOk
  <2>6. QED
    BY <1>1, <1>2, <2>4, <2>5, RedeemTurn
<1>6. CASE NoEarlier(r)
    BY <1>1, <1>2, <1>6, NoEarlierTurn
<1>7. CASE /\ RowsThat("ambiguous") # {}
           /\ q' = [q EXCEPT ![r].stage = "look", ![r].look = RowsThat("ambiguous")]
           /\ UNCHANGED inFlight
  <2>1. RowsThat("ambiguous") \subseteq DOMAIN log /\ DOMAIN log \subseteq 1..MaxRows
    BY <1>1, <1>3, X402Assumption DEF RowsThat, LogTyped
  <2>2. q'[r] = [stage |-> "look", look |-> RowsThat("ambiguous"), left |-> q[r].left,
                 tx |-> q[r].tx, stale |-> q[r].stale, refused |-> q[r].refused, told |-> q[r].told]
    BY <1>1, <1>7 DEF Typed, Request
  <2>3. q'[r] \in Request
    BY <1>1, <2>1, <2>2 DEF Typed, Request, Stages
  <2>4. q' \in [Req -> Request] /\ \A s \in Req : s # r => q'[s] = q[s]
    BY <1>1, <1>7, <2>3 DEF Typed
  <2>5. Knows(r)'
    <3>1. /\ q'[r].stage = "look" /\ q'[r].refused = q[r].refused
          /\ q'[r].look = RowsThat("ambiguous")
      BY <2>2
    <3>2. q'[r].look # {} /\ q'[r].look \subseteq DOMAIN log'
      BY <1>1, <1>7, <2>1, <3>1
    <3>3. q'[r].refused = "expired" => phase' \in {"expired", "over"}
      BY <1>1, <3>1 DEF Knows, Still
    <3>4. QED
      BY <1>1, <1>7, <3>1, <3>2, <3>3 DEF Knows, HasKey, HasTx, HasPay
  <2>6. QED
    BY <1>1, <1>2, <1>7, <2>4, <2>5 DEF Turn, Typed, Still, Others
<1>8. QED
    BY <1>4, <1>5, <1>6, <1>7 DEF ReadLog

LEMMA GoOnTurn ==
    ASSUME PaidInv, NEW r \in Req, q[r].stage = "look", NEW rest \in SUBSET q[r].look,
           NEW left \in BOOLEAN, GoOn(r, rest, left), Still, LogTyped', LogGrows, RowsOk'
    PROVE  /\ Turn(r)
           /\ \/ q'[r].stage = "idle"
              \/ q'[r].stage = "simulate" /\ rest = {} /\ ~left
              \/ q'[r].stage = "unused" /\ left /\ inFlight' = inFlight
              \/ q'[r].stage = "look" /\ q'[r].look = rest /\ q'[r].left = left
<1>1. Typed /\ Knows(r) /\ inFlight = r
    BY DEF PaidInv, Knows, HasKey
<1>2. CASE rest # {} /\ q' = [q EXCEPT ![r].look = rest, ![r].left = left] /\ UNCHANGED inFlight
  <2>1. q'[r] = [stage |-> "look", look |-> rest, left |-> left,
                 tx |-> q[r].tx, stale |-> q[r].stale, refused |-> q[r].refused, told |-> q[r].told]
    BY <1>1, <1>2 DEF Typed, Request
  <2>2. q'[r] \in Request
    BY <1>1, <2>1 DEF Typed, Request, Stages
  <2>3. q' \in [Req -> Request] /\ \A s \in Req : s # r => q'[s] = q[s]
    BY <1>1, <1>2, <2>2 DEF Typed
  <2>4. Knows(r)'
    <3>1. /\ q'[r].stage = "look" /\ q'[r].refused = q[r].refused
          /\ q'[r].look = rest
      BY <2>1
    <3>2. q'[r].look # {} /\ q'[r].look \subseteq DOMAIN log'
      BY <1>1, <1>2, <3>1 DEF Knows, LogGrows
    <3>3. q'[r].refused = "expired" => phase' \in {"expired", "over"}
      BY <1>1, <3>1 DEF Knows, Still
    <3>4. QED
      BY <1>1, <1>2, <3>1, <3>2, <3>3 DEF Knows, HasKey, HasTx, HasPay
  <2>5. QED
    BY <1>1, <1>2, <2>1, <2>3, <2>4 DEF Turn, Typed, Still, Others
<1>3. CASE /\ left /\ q[r].refused = "expired"
           /\ q' = [q EXCEPT ![r].stage = "unused", ![r].look = {}] /\ UNCHANGED inFlight
  <2>1. q'[r] = [stage |-> "unused", look |-> {}, left |-> q[r].left,
                 tx |-> q[r].tx, stale |-> q[r].stale, refused |-> q[r].refused, told |-> q[r].told]
    BY <1>1, <1>3 DEF Typed, Request
  <2>2. q'[r] \in Request
    BY <1>1, <2>1 DEF Typed, Request, Stages
  <2>3. q' \in [Req -> Request] /\ \A s \in Req : s # r => q'[s] = q[s]
    BY <1>1, <1>3, <2>2 DEF Typed
  <2>4. Knows(r)'
    BY <1>1, <1>3, <2>1 DEF Knows, HasKey, HasTx, HasPay, Still
  <2>5. QED
    BY <1>1, <1>3, <2>1, <2>3, <2>4 DEF Turn, Typed, Still, Others
<1>4. CASE Answer(r, "retry")
    BY <1>1, <1>4, Answered, AnswerMove DEF Still, Told, Typed
<1>5. CASE rest = {} /\ ~left /\ NoEarlier(r)
    BY <1>1, <1>5, NoEarlierTurn
<1>6. QED
    BY <1>2, <1>3, <1>4, <1>5 DEF GoOn

LEMMA LookedAt ==
    ASSUME PaidInv, NEW r \in Req, q[r].stage = "look"
    PROVE  Max(q[r].look) \in q[r].look /\ Max(q[r].look) \in DOMAIN log
           /\ log[Max(q[r].look)] \in RowType
<1>1. q[r].look # {} /\ q[r].look \subseteq DOMAIN log
    BY DEF PaidInv, Knows
<1>2. DOMAIN log = 1..Len(log) /\ Len(log) \in Nat /\ \A k \in DOMAIN log : log[k] \in RowType
    BY RowsOf DEF PaidInv, Typed
<1>3. q[r].look \in SUBSET Nat /\ \A k \in q[r].look : k <= Len(log)
    BY <1>1, <1>2
<1>4. Max(q[r].look) \in q[r].look
    BY <1>1, <1>2, <1>3, NewestRow
<1>5. QED
    BY <1>1, <1>2, <1>4

LEMMA LookTurn == ASSUME PaidInv, NEW r \in Req, Look(r) PROVE Turn(r)
<1> DEFINE k    == Max(q[r].look)
           rest == q[r].look \ {k}
<1>1. Typed /\ Still /\ Knows(r) /\ inFlight = r /\ q[r].stage = "look"
    BY DEF PaidInv, Look, world, Still, Knows, HasKey, Typed
<1>2. k \in q[r].look /\ k \in DOMAIN log /\ log[k] \in RowType
    BY <1>1, LookedAt
<1>3. rest \in SUBSET q[r].look
    OBVIOUS
<1>4. CASE GoOn(r, rest, TRUE) /\ UNCHANGED log
  <2>1. LogTyped' /\ LogGrows /\ RowsOk'
    BY <1>1, <1>4, SameLog DEF Still
  <2>2. QED
    BY <1>1, <1>3, <1>4, <2>1, GoOnTurn
<1>5. ASSUME NEW v \in Verdicts(log[k].tx), log' = Resolved(log[k].tx, v, Nobody),
             IF v = "settled" THEN Redeem(r, [log[k] EXCEPT !.served = FALSE])
             ELSE GoOn(r, rest, q[r].left)
      PROVE  Turn(r)
  <2>1. log[k].tx \in Tx /\ v \in {"settled", "reverted", "dropped"}
        /\ (v = "settled" => tx[log[k].tx] = "landed")
    BY <1>2, VerdictTrue DEF RowType
  <2>2. LogTyped' /\ LogGrows /\ RowsOk'
    BY <1>1, <1>5, <2>1, ResolveKeeps DEF Still
  <2>3. CASE v = "settled"
    <3>1. /\ [log[k] EXCEPT !.served = FALSE] \in RowType
          /\ [log[k] EXCEPT !.served = FALSE].tx = log[k].tx
          /\ [log[k] EXCEPT !.served = FALSE].want = log[k].want
      BY <1>2 DEF RowType
    <3>2. QED
      BY <1>1, <1>2, <1>5, <2>1, <2>2, <2>3, <3>1, RedeemTurn
  <2>4. CASE v # "settled"
    <3>1. q[r].left \in BOOLEAN
      BY <1>1 DEF Typed, Request
    <3>2. QED
      BY <1>1, <1>3, <1>5, <2>2, <2>4, <3>1, GoOnTurn
  <2>5. QED
    BY <2>3, <2>4
<1>6. QED
    BY <1>4, <1>5 DEF Look

LEMMA NewRowType ==
    ASSUME PaidInv, NEW t \in Tx, NEW r \in Req
    PROVE  /\ NewRow(t, r) \in RowType
           /\ NewRow(t, r).tx = t /\ NewRow(t, r).want = Want(r)
           /\ NewRow(t, r).outcome = "ambiguous" /\ NewRow(t, r).served = FALSE
           /\ NewRow(t, r).claim = Nobody
<1>1. Want(r) \in Wants
    BY DEF PaidInv, Typed, Want, Wants
<1>2. QED
    BY <1>1 DEF NewRow, RowType

(* A new row, for the transaction of a request.                             *)
LEMMA AppendKeeps ==
    ASSUME PaidInv, NEW t \in Tx, NEW r \in Req, Len(log) < MaxRows,
           log' = Append(log, NewRow(t, r)), served' = served,
           \A u \in Tx : tx[u] = "landed" => tx'[u] = "landed"
    PROVE  /\ LogTyped' /\ LogGrows /\ RowsOk'
           /\ DOMAIN log' = DOMAIN log \cup {Len(log) + 1}
           /\ \A k \in DOMAIN log : log'[k] = log[k]
           /\ log'[Len(log) + 1] = NewRow(t, r)
           /\ \E k \in DOMAIN log' : log'[k].tx = t /\ log'[k].want = Want(r)
<1>1. /\ log' \in Seq(RowType)
      /\ Len(log') = Len(log) + 1
      /\ DOMAIN log' = DOMAIN log \cup {Len(log) + 1}
      /\ \A k \in DOMAIN log : log'[k] = log[k]
      /\ log'[Len(log) + 1] = NewRow(t, r)
  <2>1. log \in Seq(RowType) /\ NewRow(t, r) \in RowType
    BY NewRowType DEF PaidInv, Typed
  <2>2. QED
    BY <2>1, OneMore
<1>2. Len(log) \in Nat /\ \A k \in DOMAIN log : log[k] \in RowType
    BY RowsOf DEF PaidInv, Typed
<1>3. RowsOk'
  <2>1. \A k \in DOMAIN log : log[k].tx \in Tx
    BY <1>2 DEF RowType
  <2>2. NewRow(t, r).outcome # "settled" /\ ~NewRow(t, r).served
    BY NewRowType
  <2>3. ASSUME NEW k \in DOMAIN log
        PROVE  /\ log'[k].outcome = "settled" => tx'[log'[k].tx] = "landed"
               /\ log'[k].served => log'[k].outcome = "settled" /\ served' > 0
    BY <1>1, <2>1 DEF PaidInv, RowsOk
  <2>4. QED
    BY <1>1, <2>2, <2>3 DEF RowsOk
<1>4. LogTyped'
    BY <1>1, <1>2, X402Assumption DEF LogTyped
<1>5. Len(log) + 1 \in DOMAIN log' /\ log'[Len(log) + 1].tx = t /\ log'[Len(log) + 1].want = Want(r)
  <2>1. NewRow(t, r).tx = t /\ NewRow(t, r).want = Want(r)
    BY NewRowType
  <2>2. QED
    BY <1>1, <2>1
<1>6. QED
    BY <1>1, <1>3, <1>4, <1>5 DEF LogGrows

LEMMA SendOffTurn ==
    ASSUME PaidInv, NEW r \in Req, ReadUnused(r) \/ Simulate(r)
    PROVE  Turn(r)
<1>1. Typed /\ Still /\ UNCHANGED log /\ Knows(r) /\ inFlight = r
    BY DEF PaidInv, ReadUnused, Simulate, world, Still, Knows, HasKey, Typed
<1>2. LogTyped' /\ LogGrows /\ RowsOk'
    BY <1>1, SameLog DEF Still
<1>3. ASSUME NEW told \in Told, Answer(r, told) PROVE Turn(r)
    BY <1>1, <1>2, <1>3, Answered DEF Still, Typed
<1>4. CASE Go(r, "note") /\ UNCHANGED inFlight
  <2>1. "note" \in Stages
    BY DEF Stages
  <2>2. Knows(r)'
    BY <1>1, <1>4, <2>1, GoMove DEF Knows, HasKey, HasTx, HasPay
  <2>3. QED
    BY <1>1, <1>2, <1>4, <2>1, <2>2, GoMove DEF Turn, Typed, Still, Others
<1>5. QED
    BY <1>3, <1>4 DEF ReadUnused, Simulate, Told

(* Where a request goes once it has signed: on, or to close the row.        *)
LEMMA NotedMove ==
    ASSUME Typed, NEW r \in Req, NEW t \in Tx, Noted(r, t) \/ NotNoted(r, t)
    PROVE  /\ q' \in [Req -> Request] /\ inFlight' = inFlight
           /\ \A s \in Req : s # r => q'[s] = q[s]
           /\ q'[r].tx = t
           /\ Noted(r, t) => q'[r].stage = "send" /\ q'[r].told = q[r].told
           /\ NotNoted(r, t) => q'[r].stage = "close" /\ q'[r].told = "retry"
<1>1. t \in 0..MaxTx
    BY X402Assumption DEF Tx
<1>2. CASE Noted(r, t)
  <2>1. q'[r] = [q[r] EXCEPT !.stage = "send", !.tx = t] /\ q[r] \in Request
    BY <1>2 DEF Noted, Typed
  <2>2. q'[r] \in Request /\ q'[r].stage = "send" /\ q'[r].tx = t /\ q'[r].told = q[r].told
    BY <1>1, <2>1 DEF Request, Stages
  <2>3. ~NotNoted(r, t)
    <3>1. NotNoted(r, t) => q'[r].stage = "close"
      BY DEF NotNoted, Typed, Idle
    <3>2. QED
      BY <2>2, <3>1
  <2>4. QED
    BY <1>2, <2>2, <2>3 DEF Noted, Typed
<1>3. CASE NotNoted(r, t)
  <2>1. q'[r] = [stage |-> "close", look |-> {}, left |-> FALSE, tx |-> t,
                 stale |-> FALSE, refused |-> "none", told |-> "retry"]
    BY <1>3 DEF NotNoted, Typed, Idle
  <2>2. q'[r] \in Request /\ q'[r].stage = "close" /\ q'[r].tx = t /\ q'[r].told = "retry"
    BY <1>1, <2>1 DEF Request, Stages
  <2>3. ~Noted(r, t)
    <3>1. Noted(r, t) => q'[r].stage = "send"
      BY DEF Noted, Typed, Request
    <3>2. QED
      BY <2>2, <3>1
  <2>4. QED
    BY <1>3, <2>2, <2>3 DEF NotNoted, Typed
<1>4. QED
    BY <1>2, <1>3

LEMMA NoteTurn == ASSUME PaidInv, NEW r \in Req, Note(r) PROVE Turn(r)
<1>1. /\ Typed /\ Knows(r) /\ inFlight = r /\ q[r].stage = "note"
      /\ UNCHANGED <<setting, phase, used, overtaken, crashes, served>>
    BY DEF PaidInv, Note, world, Knows, HasKey, Typed
<1>2. PICK t \in Signable :
        /\ tx' = [tx EXCEPT ![t] = "signed"]
        /\ \/ log' = Append(log, NewRow(t, r)) /\ Noted(r, t) /\ UNCHANGED late
           \/ /\ log' = Append(log, NewRow(t, r)) \/ UNCHANGED log
              /\ NotNoted(r, t)
              /\ late' = late \/ late' = late \cup {[kind |-> "insert", tx |-> t, by |-> r]}
    BY DEF Note
<1>3. t \in Tx /\ tx[t] \in {"signed", "none"}
    BY X402Assumption DEF Signable, PaidInv, Typed, Tx
<1>4. /\ tx' \in [Tx -> TxStates] /\ tx'[t] = "signed"
      /\ \A u \in Tx : tx'[u] = "landed" <=> tx[u] = "landed"
    BY <1>1, <1>2, <1>3 DEF Typed, TxStates
<1>5. late' \in SUBSET LateWrite
    BY <1>1, <1>2, <1>3 DEF Typed, LateWrite
<1>6. CASE log' = Append(log, NewRow(t, r)) /\ Noted(r, t)
  <2>1. LogTyped' /\ LogGrows /\ RowsOk'
        /\ \E k \in DOMAIN log' : log'[k].tx = t /\ log'[k].want = Want(r)
    BY <1>1, <1>3, <1>4, <1>6, AppendKeeps DEF Note
  <2>2. Want(r)' = Want(r)
    BY <1>1 DEF Want
  <2>3. Knows(r)'
    BY <1>1, <1>3, <1>4, <1>6, <2>1, <2>2, NotedMove DEF Knows, HasKey, HasTx, HasPay
  <2>4. QED
    BY <1>1, <1>3, <1>4, <1>5, <1>6, <2>1, <2>3, NotedMove DEF Turn, Typed, Others
<1>7. CASE (log' = Append(log, NewRow(t, r)) \/ UNCHANGED log) /\ NotNoted(r, t)
  <2>2. LogTyped' /\ LogGrows /\ RowsOk'
    <3>1. CASE UNCHANGED log
      <4>1. \A k \in DOMAIN log : log[k].tx \in Tx
        BY RowsOf DEF PaidInv, Typed, RowType
      <4>2. QED
        BY <1>1, <1>4, <3>1, <4>1 DEF LogTyped, LogGrows, RowsOk, PaidInv, Typed
    <3>2. CASE log' = Append(log, NewRow(t, r))
      BY <1>1, <1>3, <1>4, <3>2, AppendKeeps DEF Note
    <3>3. QED
      BY <1>7, <3>1, <3>2
  <2>3. Knows(r)'
    BY <1>1, <1>3, <1>4, <1>7, NotedMove DEF Knows, HasKey, HasTx, HasPay
  <2>4. QED
    BY <1>1, <1>3, <1>4, <1>5, <1>7, <2>2, <2>3, NotedMove DEF Turn, Typed, Others
<1>8. QED
    BY <1>2, <1>6, <1>7

LEMMA CloseTurn == ASSUME PaidInv, NEW r \in Req, CloseUnsentRow(r) PROVE Turn(r)
<1>1. /\ Typed /\ Knows(r) /\ inFlight = r /\ q[r].stage = "close" /\ q[r].tx \in Tx
      /\ UNCHANGED <<setting, phase, used, overtaken, crashes, served, tx>>
    BY DEF PaidInv, CloseUnsentRow, world, Knows, HasKey, HasTx, Typed
<1>2. late' \in SUBSET LateWrite
    BY <1>1 DEF CloseUnsentRow, Typed, LateWrite
<1>3. Answer(r, "retry") /\ (log' = Resolved(q[r].tx, "dropped", Nobody) \/ UNCHANGED log)
    BY DEF CloseUnsentRow
<1>4. LogTyped' /\ LogGrows /\ RowsOk'
    BY <1>1, <1>3, SameLog, ResolveKeeps
<1>5. QED
    BY <1>1, <1>2, <1>3, <1>4, Answered DEF Told, Typed

LEMMA SendTurn == ASSUME PaidInv, NEW r \in Req, Send(r) PROVE Turn(r)
<1>1. /\ Typed /\ Knows(r) /\ inFlight = r /\ q[r].stage = "send" /\ q[r].tx \in Tx
      /\ UNCHANGED <<setting, phase, used, overtaken, crashes, served, log, late, inFlight>>
      /\ tx[q[r].tx] = "signed"
    BY DEF PaidInv, Send, world, Knows, HasKey, HasTx, Typed
<1>2. \A k \in DOMAIN log : log[k].tx \in Tx
    BY RowsOf DEF PaidInv, Typed, RowType
<1>3. {"wait", "close"} \subseteq Stages
    BY DEF Stages
<1>4. CASE tx' = [tx EXCEPT ![q[r].tx] = "posted"] /\ Go(r, "wait")
  <2>1. /\ tx' \in [Tx -> TxStates] /\ \A u \in Tx : tx'[u] = "landed" <=> tx[u] = "landed"
    BY <1>1, <1>4 DEF Typed, TxStates
  <2>2. LogTyped' /\ LogGrows /\ RowsOk'
    BY <1>1, <1>2, <2>1 DEF LogTyped, LogGrows, RowsOk, PaidInv, Typed
  <2>3. Want(r)' = Want(r)
    BY <1>1 DEF Want
  <2>4. Knows(r)'
    BY <1>1, <1>3, <1>4, <2>1, <2>3, GoMove DEF Knows, HasKey, HasTx, HasPay
  <2>5. QED
    BY <1>1, <1>3, <1>4, <2>1, <2>2, <2>4, GoMove DEF Turn, Typed, Others
<1>5. CASE Go(r, "close") /\ UNCHANGED tx
  <2>1. LogTyped' /\ LogGrows /\ RowsOk'
    BY <1>1, <1>5, SameLog
  <2>2. Knows(r)'
    BY <1>1, <1>3, <1>5, GoMove DEF Knows, HasKey, HasTx, HasPay
  <2>3. QED
    BY <1>1, <1>3, <1>5, <2>1, <2>2, GoMove DEF Turn, Typed, Others
<1>6. QED
    BY <1>4, <1>5 DEF Send

LEMMA WaitTurn == ASSUME PaidInv, NEW r \in Req, Wait(r) PROVE Turn(r)
<1>1. /\ Typed /\ Knows(r) /\ inFlight = r /\ q[r].stage = "wait" /\ q[r].tx \in Tx /\ Still
    BY DEF PaidInv, Wait, world, Knows, HasKey, HasTx, Still, Typed
<1>2. CASE Answer(r, "retry") /\ (UNCHANGED log \/ log' = Resolved(q[r].tx, "reverted", Nobody))
  <2>1. LogTyped' /\ LogGrows /\ RowsOk'
    BY <1>1, <1>2, SameLog, ResolveKeeps DEF Still
  <2>2. QED
    BY <1>1, <1>2, <2>1, Answered DEF Told, Still, Typed
<1>3. CASE tx[q[r].tx] = "landed" /\ Go(r, "finish") /\ UNCHANGED <<log, inFlight>>
  <2>1. LogTyped' /\ LogGrows /\ RowsOk'
    BY <1>1, <1>3, SameLog DEF Still
  <2>2. "finish" \in Stages /\ Want(r)' = Want(r)
    BY <1>1 DEF Stages, Want, Still
  <2>3. Knows(r)'
    BY <1>1, <1>3, <2>2, GoMove DEF Knows, HasKey, HasTx, HasPay, Still
  <2>4. QED
    BY <1>1, <1>3, <2>1, <2>2, <2>3, GoMove DEF Turn, Typed, Others, Still
<1>4. QED
    BY <1>2, <1>3 DEF Wait

(* A request that goes on with its transaction, once the log is as it is.   *)
LEMMA PaidTurn ==
    ASSUME PaidInv, NEW r \in Req, q[r].stage \in HasPay,
           UNCHANGED <<setting, phase, used, crashes, tx, late>>, overtaken' \in Nat,
           served' \in Nat, served' >= served,
           LogTyped', LogGrows, RowsOk',
           q' \in [Req -> Request], inFlight' \in Req \cup {Nobody}, Others(r),
           q'[r].stage \in HasPay, q'[r].tx = q[r].tx,
           q'[r].stage \in HasKey => inFlight' = r,
           q'[r].stage = "mark" => served' > 0
    PROVE  Turn(r)
<1>1. Typed /\ Knows(r) /\ Want(r)' = Want(r)
    BY DEF PaidInv, Want
<1>2. \E k \in DOMAIN log' : log'[k].tx = q'[r].tx /\ log'[k].want = Want(r)'
    BY <1>1 DEF Knows, HasPay, HasTx, LogGrows
<1>3. Knows(r)'
    BY <1>1, <1>2 DEF Knows, HasPay, HasTx, HasKey
<1>4. QED
    BY <1>1, <1>3 DEF Turn, Typed

LEMMA FinishTurn == ASSUME PaidInv, NEW r \in Req, Finish(r) PROVE Turn(r)
<1>1. /\ Typed /\ Knows(r) /\ inFlight = r /\ q[r].stage = "finish" /\ q[r].tx \in Tx /\ Still
      /\ tx[q[r].tx] = "landed" /\ UNCHANGED inFlight
    BY DEF PaidInv, Finish, world, Knows, HasKey, HasTx, HasPay, Still, Typed
<1>2. log' = Resolved(q[r].tx, "settled", r) \/ UNCHANGED log
    BY DEF Finish
<1>3. LogTyped' /\ LogGrows /\ RowsOk'
    BY <1>1, <1>2, SameLog, ResolveKeeps DEF Still
<1>4. PICK stage \in {"key", "claim"} : Go(r, stage)
    BY DEF Finish
<1>5. stage \in Stages
    BY DEF Stages
<1>6. QED
    BY <1>1, <1>3, <1>4, <1>5, GoMove, PaidTurn DEF Still, Typed, Others, HasPay

LEMMA ClaimTurn == ASSUME PaidInv, NEW r \in Req, Claim(r) PROVE Turn(r)
<1> DEFINE free == {k \in DOMAIN log : Unserved(log[k], q[r].tx) /\ Claimable(log[k])}
<1>1. /\ Typed /\ Knows(r) /\ inFlight = r /\ q[r].stage = "claim" /\ Still
    BY DEF PaidInv, Claim, world, Knows, HasKey, Still, Typed
<1>2. CASE Answer(r, "retry") /\ UNCHANGED log
  <2>1. LogTyped' /\ LogGrows /\ RowsOk'
    BY <1>1, <1>2, SameLog DEF Still
  <2>2. QED
    BY <1>1, <1>2, <2>1, Answered DEF Told, Still, Typed
<1>3. CASE /\ log' = [k \in DOMAIN log |-> IF k \in free THEN [log[k] EXCEPT !.claim = r] ELSE log[k]]
           /\ Go(r, "key") /\ UNCHANGED inFlight
  <2>1. /\ log' \in Seq(RowType) /\ DOMAIN log' = DOMAIN log /\ Len(log') = Len(log)
        /\ \A k \in DOMAIN log :
             /\ log'[k].tx = log[k].tx /\ log'[k].want = log[k].want
             /\ log'[k].served = log[k].served /\ log'[k].outcome = log[k].outcome
    <3>1. LogTyped /\ free \in SUBSET DOMAIN log /\ r \in Req \cup {Nobody}
      BY <1>1 DEF LogTyped, Typed
    <3>2. log' = WithClaim(free, r)
      BY <1>3 DEF WithClaim
    <3> HIDE DEF free
    <3>3. QED
      BY <3>1, <3>2, ClaimedRows
  <2>2. LogTyped' /\ LogGrows /\ RowsOk'
    BY <1>1, <2>1 DEF LogTyped, LogGrows, RowsOk, PaidInv, Typed, Still
  <2>3. "key" \in Stages
    BY DEF Stages
  <2>4. QED
    BY <1>1, <1>3, <2>2, <2>3, GoMove, PaidTurn DEF Still, Typed, Others, HasPay
<1>4. QED
    BY <1>2, <1>3 DEF Claim

LEMMA SpentKeyTurn == ASSUME PaidInv, NEW r \in Req, WriteSpentKey(r) PROVE Turn(r)
<1>1. /\ Typed /\ q[r].stage = "key" /\ Still /\ UNCHANGED log /\ Go(r, "serve") /\ FreeKey(r)
    BY DEF PaidInv, WriteSpentKey, world, Still, Typed
<1>2. LogTyped' /\ LogGrows /\ RowsOk'
    BY <1>1, SameLog DEF Still
<1>3. "serve" \in Stages /\ q[r].stage \in HasPay
    BY <1>1 DEF Stages, HasPay
<1>4. inFlight' \in Req \cup {Nobody} /\ Others(r)
    BY <1>1, <1>3, GoMove DEF FreeKey, Typed, Others
<1>5. QED
    BY <1>1, <1>2, <1>3, <1>4, GoMove, PaidTurn DEF Still, Typed, HasPay, HasKey

LEMMA ServeTurn == ASSUME PaidInv, NEW r \in Req, Serve(r) PROVE Turn(r)
<1>1. /\ Typed /\ q[r].stage = "serve" /\ q[r] \in Request
      /\ UNCHANGED <<setting, phase, used, overtaken, crashes, tx, late, log, inFlight>>
    BY DEF PaidInv, Serve, world, Typed
<1>2. served' \in Nat /\ served' >= served
    BY <1>1 DEF Serve, Typed
<1>3. LogTyped' /\ LogGrows /\ RowsOk'
    BY <1>1, <1>2 DEF PaidInv, Typed, LogTyped, LogGrows, RowsOk
<1>4. q[r].stage \in HasPay
    BY <1>1 DEF HasPay
<1>5. CASE Go(r, "release")
  <2>1. "release" \in Stages
    BY DEF Stages
  <2>2. QED
    BY <1>1, <1>2, <1>3, <1>4, <1>5, <2>1, GoMove, PaidTurn DEF Typed, Others, HasPay, HasKey
<1>6. CASE served' = served + 1 /\ q' = [q EXCEPT ![r].stage = "mark", ![r].told = "served"]
  <2>1. q'[r] = [stage |-> "mark", look |-> q[r].look, left |-> q[r].left,
                 tx |-> q[r].tx, stale |-> q[r].stale, refused |-> q[r].refused, told |-> "served"]
    BY <1>1, <1>6 DEF Typed, Request
  <2>2. q'[r] \in Request /\ q'[r].stage = "mark" /\ q'[r].tx = q[r].tx
    BY <1>1, <2>1 DEF Request, Stages
  <2>3. q' \in [Req -> Request] /\ Others(r)
    BY <1>1, <1>6, <2>2 DEF Typed, Others
  <2>4. served' > 0
    BY <1>1, <1>6 DEF Typed
  <2>5. QED
    BY <1>1, <1>2, <1>3, <1>4, <2>2, <2>3, <2>4, PaidTurn DEF Typed, HasPay, HasKey
<1>7. QED
    BY <1>5, <1>6 DEF Serve

LEMMA EndTurn == ASSUME PaidInv, NEW r \in Req, MarkServed(r) \/ ReleaseClaim(r) PROVE Turn(r)
<1>1. /\ Typed /\ Knows(r) /\ q[r].stage \in {"mark", "release"} /\ Still
      /\ Answer(r, "served") \/ Answer(r, "retry")
    BY DEF PaidInv, MarkServed, ReleaseClaim, world, Still, Typed
<1>2. LogTyped' /\ LogGrows /\ RowsOk'
  <2>1. CASE UNCHANGED log
    BY <1>1, <2>1, SameLog DEF Still
  <2>2. CASE MarkServed(r) /\ log' # log
    <3>1. Mine(r) \subseteq DOMAIN log /\ \A k \in Mine(r) : log[k].outcome = "settled"
      BY DEF Mine, Unserved
    <3>2. /\ log' \in Seq(RowType) /\ DOMAIN log' = DOMAIN log /\ Len(log') = Len(log)
          /\ \A k \in DOMAIN log :
               /\ log'[k].tx = log[k].tx /\ log'[k].want = log[k].want
               /\ log'[k].claim = log[k].claim /\ log'[k].outcome = log[k].outcome
               /\ k \in Mine(r) => log'[k].served = TRUE
               /\ k \notin Mine(r) => log'[k] = log[k]
      <4>1. LogTyped /\ Mine(r) \in SUBSET DOMAIN log
        BY <1>1, <3>1 DEF LogTyped, Typed
      <4>2. log' = WithServed(Mine(r))
        BY <2>2 DEF MarkServed, WithServed
      <4>3. QED
        BY <4>1, <4>2, ServedRows
    <3>3. served > 0
      BY <1>1, <2>2 DEF MarkServed, Knows
    <3>4. QED
      BY <1>1, <3>1, <3>2, <3>3 DEF LogTyped, LogGrows, RowsOk, PaidInv, Typed, Still
  <2>3. CASE ReleaseClaim(r) /\ log' # log
    <3>1. Mine(r) \subseteq DOMAIN log
      BY DEF Mine
    <3>2. /\ log' \in Seq(RowType) /\ DOMAIN log' = DOMAIN log /\ Len(log') = Len(log)
          /\ \A k \in DOMAIN log :
               /\ log'[k].tx = log[k].tx /\ log'[k].want = log[k].want
               /\ log'[k].served = log[k].served /\ log'[k].outcome = log[k].outcome
      <4>1. LogTyped /\ Nobody \in Req \cup {Nobody}
        BY <1>1 DEF LogTyped, Typed
      <4>2. log' = WithClaim(Mine(r), Nobody)
        BY <2>3 DEF ReleaseClaim, WithClaim
      <4>3. QED
        BY <3>1, <4>1, <4>2, ClaimedRows
    <3>3. QED
      BY <1>1, <3>2 DEF LogTyped, LogGrows, RowsOk, PaidInv, Typed, Still
  <2>4. QED
    BY <2>1, <2>2, <2>3
<1>3. QED
    BY <1>1, <1>2, Answered DEF Told, Still, Typed

LEMMA LeaseTurn == ASSUME PaidInv, NEW r \in Req, LeaseEnds(r) PROVE Turn(r)
<1>1. Typed /\ Knows(r) /\ Still /\ UNCHANGED <<log, inFlight>> /\ q[r].stage \in Serving
    BY DEF PaidInv, LeaseEnds, world, Still, Typed
<1>2. q'[r] = [q[r] EXCEPT !.stale = TRUE]
    BY <1>1 DEF LeaseEnds, Typed
<1>3. q'[r] \in Request /\ q'[r].stage = q[r].stage /\ q'[r].tx = q[r].tx
    BY <1>1, <1>2 DEF Request, Typed
<1>4. q' \in [Req -> Request] /\ Others(r)
    BY <1>1, <1>3 DEF LeaseEnds, Typed, Others
<1>5. LogTyped' /\ LogGrows /\ RowsOk'
    BY <1>1, SameLog DEF Still
<1>6. q[r].stage \in HasPay
    BY <1>1 DEF Serving, HasPay
<1>7. QED
    BY <1>1, <1>3, <1>4, <1>5, <1>6, PaidTurn DEF Knows, Still, Typed

LEMMA HandleTurn ==
    ASSUME PaidInv, NEW r \in Req, Arrive(r) \/ Handle(r) \/ LeaseEnds(r)
    PROVE  Turn(r)
    BY LeaseTurn, VerifyTurn, ReadLogTurn, LookTurn, SendOffTurn, NoteTurn, CloseTurn, SendTurn, WaitTurn,
       FinishTurn, ClaimTurn, SpentKeyTurn, ServeTurn, EndTurn DEF Handle

-----------------------------------------------------------------------------
(* The chain, the clock, the database and the process.                      *)
World ==
    \/ \E k \in DOMAIN log : Sweep(k)
    \/ \E t \in Tx : Land(t)
    \/ \E t \in Tx : Vanish(t)
    \/ \E w \in late : LateCommit(w)
    \/ Tick

LEMMA WorldKeeps == ASSUME PaidInv, World PROVE PaidInv'
<1>1. /\ Typed /\ LogTyped /\ RowsOk /\ OneLanded
      /\ UNCHANGED <<setting, inFlight, q, served, crashes, overtaken>>
    BY DEF PaidInv, Typed, LogTyped, World, Sweep, Land, Vanish, LateCommit, Tick, world
<1>2. \A k \in DOMAIN log : log[k].tx \in Tx
    BY <1>1, RowsOf DEF LogTyped, RowType
<1>3. /\ tx' \in [Tx -> TxStates] /\ used' \in BOOLEAN
      /\ phase' \in {"valid", "closing", "expired", "over"}
      /\ late' \in SUBSET LateWrite
      /\ phase \in {"expired", "over"} => phase' \in {"expired", "over"}
  <2>1. CASE (\E k \in DOMAIN log : Sweep(k)) \/ (\E w \in late : LateCommit(w))
    BY <1>1, <2>1 DEF Typed, Sweep, LateCommit, world
  <2>2. CASE (\E t \in Tx : Land(t)) \/ (\E t \in Tx : Vanish(t))
    BY <1>1, <2>2 DEF Typed, Land, Vanish, world, TxStates
  <2>3. CASE Tick
    <3>1. PICK n \in 1..(Len(Phases) - 1) : phase = Phases[n] /\ phase' = Phases[n + 1]
      BY <2>3 DEF Tick
    <3>2. n \in {1, 2, 3}
      BY DEF Phases
    <3>3. /\ Phases[1] = "valid" /\ Phases[2] = "closing"
          /\ Phases[3] = "expired" /\ Phases[4] = "over"
      BY DEF Phases
    <3>4. /\ phase' \in {"valid", "closing", "expired", "over"}
          /\ phase \in {"expired", "over"} => phase' \in {"expired", "over"}
      BY <3>1, <3>2, <3>3
    <3>5. QED
      BY <1>1, <2>3, <3>4 DEF Tick, Typed
  <2>4. QED
    BY <2>1, <2>2, <2>3 DEF World
<1>4. /\ \A t \in Tx : tx[t] = "landed" => tx'[t] = "landed"
      /\ \A t \in Tx : tx[t] = "signed" /\ tx'[t] # "signed"
           => tx'[t] = "gone" /\ \A r \in Req : ~(q[r].stage = "send" /\ q[r].tx = t)
      /\ \A t \in Tx : tx[t] = "gone" => tx'[t] = "gone"
    BY <1>1 DEF Typed, World, Sweep, Land, Vanish, LateCommit, Tick, world
<1>5. LogTyped' /\ LogGrows /\ RowsOk'
  <2>1. CASE UNCHANGED log
    BY <1>1, <1>2, <1>4, <2>1 DEF LogTyped, LogGrows, RowsOk
  <2>2. ASSUME NEW k \in DOMAIN log, Sweep(k) PROVE LogTyped' /\ LogGrows /\ RowsOk'
    <3>1. log[k].tx \in Tx /\ tx' = tx
      BY <1>2, <2>2 DEF Sweep
    <3>2. PICK v \in Verdicts(log[k].tx) : log' = Resolved(log[k].tx, v, Nobody)
      BY <2>2 DEF Sweep
    <3>3. QED
      BY <1>1, <3>1, <3>2, VerdictTrue, ResolveKeeps
  <2>3. ASSUME NEW w \in late, LateCommit(w) PROVE LogTyped' /\ LogGrows /\ RowsOk'
    <3>1. w.tx \in Tx /\ w.by \in Req /\ tx' = tx
      BY <1>1, <2>3 DEF LateCommit, Typed, LateWrite
    <3>2. CASE Len(log) < MaxRows /\ log' = Append(log, NewRow(w.tx, w.by))
      BY <1>1, <3>1, <3>2, AppendKeeps
    <3>3. CASE log' = Resolved(w.tx, "dropped", Nobody)
      BY <1>1, <3>1, <3>3, ResolveKeeps
    <3>4. QED
      BY <2>1, <2>3, <3>2, <3>3 DEF LateCommit
  <2>4. QED
    BY <2>1, <2>2, <2>3 DEF World, Land, Vanish, Tick
<1>6. OneLanded'
  <2>1. CASE tx' = tx /\ (used => used')
    BY <1>1, <2>1 DEF OneLanded
  <2>2. ASSUME NEW t \in Tx, Land(t) PROVE OneLanded'
    BY <1>1, <2>2 DEF Land, OneLanded, Typed
  <2>3. ASSUME NEW t \in Tx, Vanish(t) PROVE OneLanded'
    BY <1>1, <2>3 DEF Vanish, OneLanded, Typed, world
  <2>4. QED
    BY <2>1, <2>2, <2>3 DEF World, Sweep, LateCommit, Tick, world
<1>7. ASSUME NEW r \in Req PROVE Knows(r)'
  <2>1. Knows(r) /\ q'[r] = q[r] /\ Want(r)' = Want(r)
    BY <1>1 DEF PaidInv, Want
  <2>2. q[r].stage \in HasTx \ {"close"}
          => \E k \in DOMAIN log' : log'[k].tx = q[r].tx /\ log'[k].want = Want(r)
    BY <1>5, <2>1 DEF Knows, LogGrows
  <2>3. /\ q[r].stage \in HasPay => tx'[q[r].tx] = "landed"
        /\ q[r].stage = "send" => tx'[q[r].tx] = "signed"
        /\ q[r].stage = "close" => tx'[q[r].tx] \in {"signed", "gone"}
    BY <1>4, <2>1 DEF Knows, HasPay, HasTx
  <2>4. q[r].stage = "look" => q[r].look \subseteq DOMAIN log'
    BY <1>5, <2>1 DEF Knows, LogGrows
  <2>5. QED
    BY <1>1, <1>3, <2>1, <2>2, <2>3, <2>4 DEF Knows
<1>8. QED
    BY <1>1, <1>3, <1>5, <1>6, <1>7 DEF PaidInv, Typed, LogTyped

LEMMA RestartKeeps == ASSUME PaidInv, Restart PROVE PaidInv'
<1>1. /\ UNCHANGED <<setting, phase, used, tx, log, late, served, overtaken>>
      /\ q' = [r \in Req |-> Idle] /\ inFlight' = Nobody /\ crashes' = crashes + 1
    BY DEF Restart
<1>2. \A r \in Req : q'[r].stage = "idle"
    BY <1>1, IdleType
<1>3. \A r \in Req : Knows(r)'
    BY <1>2 DEF Knows, HasKey, HasTx, HasPay
<1>4. Typed'
    BY <1>1, IdleType DEF PaidInv, Typed
<1>5. QED
    BY <1>1, <1>3, <1>4 DEF PaidInv, RowsOk, OneLanded

LEMMA PaidInit == Init => PaidInv
<1> SUFFICES ASSUME Init PROVE PaidInv
    OBVIOUS
<1>1. log = <<>> /\ DOMAIN log = {} /\ Len(log) = 0 /\ log \in Seq(RowType)
    BY DEF Init
<1>2. Typed
  <2>1. /\ setting \in Settings /\ phase = "valid" /\ used \in BOOLEAN /\ inFlight = Nobody
        /\ late = {} /\ served = 0 /\ crashes = 0 /\ overtaken = 0
        /\ tx = [t \in Tx |-> "none"] /\ q = [r \in Req |-> Idle]
    BY DEF Init
  <2>2. tx \in [Tx -> TxStates] /\ q \in [Req -> Request]
    BY <2>1, IdleType DEF TxStates
  <2>3. MaxRows \in Nat
    BY X402Assumption
  <2>4. QED
    BY <1>1, <2>1, <2>2, <2>3 DEF Typed
<1>3. \A r \in Req : Knows(r)
    BY IdleType DEF Init, Knows, HasKey, HasTx, HasPay
<1>4. QED
    BY <1>1, <1>2, <1>3 DEF PaidInv, RowsOk, OneLanded, Init

LEMMA PaidStep == PaidInv /\ [Next]_vars => PaidInv'
<1> SUFFICES ASSUME PaidInv, [Next]_vars PROVE PaidInv'
    OBVIOUS
<1>1. CASE UNCHANGED vars
    BY <1>1 DEF vars, PaidInv, Typed, RowsOk, OneLanded, Knows, Want
<1>2. CASE Next
    BY <1>2, HandleTurn, TurnKeeps, WorldKeeps, RestartKeeps DEF Next, World
<1>3. QED
    BY <1>1, <1>2

(* A call is served only for a payment that landed, to the request that its *)
(* row was written for: for any number of requests and restarts, whatever   *)
(* fails (settlePayment, redeem, finish).                                   *)
THEOREM PaidFirst == Spec => []ServedIsPaid
<1>1. PaidInv => ServedIsPaid
    BY DEF PaidInv, ServedIsPaid, Knows, HasPay, HasTx
<1>2. QED
    BY <1>1, PaidInit, PaidStep, PTL DEF Spec

-----------------------------------------------------------------------------
(* The record of what went out, where no write stalls.                      *)
Prompt == ~Fault({"stall"})

(* Before it sends, nothing is out; while it looks, what is out is still to *)
(* be looked at, or the answer is known to be open.                         *)
Clear(r) ==
    /\ q[r].stage \in {"simulate", "note", "send", "close"} => Live = {}
    /\ q[r].stage = "send" => \E k \in DOMAIN log : log[k].tx = q[r].tx /\ log[k].outcome = "ambiguous"
    /\ q[r].stage = "look" /\ ~q[r].left => \A t \in Live : \E k \in q[r].look : log[k].tx = t

Recorded ==
    /\ late = {}
    /\ \A t \in Live : \E k \in DOMAIN log :
         log[k].tx = t /\ log[k].outcome \in {"ambiguous", "settled"}
    /\ \A t, u \in Live : t = u
    /\ \A r \in Req : Clear(r)

OnceInv == PaidInv /\ (Prompt => Recorded)

(* No row of what is out, or about to be, is closed.                        *)
RowsStay ==
    \A k \in DOMAIN log :
      \/ log'[k].outcome = log[k].outcome
      \/ log'[k].outcome = "settled"
      \/ /\ tx'[log[k].tx] \notin {"posted", "landed"}
         /\ tx'[log[k].tx] = "signed" => \A s \in Req : q'[s].stage # "send"

LEMMA RecordKept ==
    ASSUME PaidInv, PaidInv', Recorded, LogGrows, RowsStay, late' = {}, Live' \subseteq Live,
           \A s \in Req : q'[s] = q[s] \/ Clear(s)'
    PROVE  Recorded'
<1>1. \A k \in DOMAIN log : k \in DOMAIN log' /\ log'[k].tx = log[k].tx
    BY DEF LogGrows
<1>2. ASSUME NEW t \in Live'
      PROVE  \E k \in DOMAIN log' : log'[k].tx = t /\ log'[k].outcome \in {"ambiguous", "settled"}
  <2>1. PICK k \in DOMAIN log : log[k].tx = t /\ log[k].outcome \in {"ambiguous", "settled"}
    BY <1>2 DEF Recorded
  <2>2. tx'[t] \in {"posted", "landed"}
    BY <1>2 DEF Live
  <2>3. QED
    BY <1>1, <2>1, <2>2 DEF RowsStay
<1>3. ASSUME NEW s \in Req, q'[s] = q[s] PROVE Clear(s)'
  <2>1. Clear(s) /\ Knows(s)'
    BY DEF Recorded, PaidInv
  <2>2. ASSUME q[s].stage = "send"
        PROVE  \E k \in DOMAIN log' : log'[k].tx = q'[s].tx /\ log'[k].outcome = "ambiguous"
    <3>1. PICK k \in DOMAIN log : log[k].tx = q[s].tx /\ log[k].outcome = "ambiguous"
      BY <2>1, <2>2 DEF Clear
    <3>2. tx'[q[s].tx] = "signed"
      BY <1>3, <2>1, <2>2 DEF Knows
    <3>3. log'[k].outcome # "settled"
      BY <1>1, <3>1, <3>2 DEF PaidInv, RowsOk
    <3>4. log'[k].outcome = "ambiguous"
      BY <1>3, <2>2, <3>1, <3>2, <3>3 DEF RowsStay
    <3>5. QED
      BY <1>1, <1>3, <3>1, <3>4
  <2>3. q[s].stage = "look" /\ ~q[s].left => \A t \in Live' : \E k \in q[s].look : log'[k].tx = t
    <3>1. q[s].stage = "look" => q[s].look \subseteq DOMAIN log
      BY DEF PaidInv, Knows
    <3>2. QED
      BY <1>1, <2>1, <3>1 DEF Clear
  <2>4. QED
    BY <1>3, <2>1, <2>2, <2>3 DEF Clear
<1>4. QED
    BY <1>2, <1>3 DEF Recorded

LEMMA ResolveStays ==
    ASSUME PaidInv, NEW t \in Tx, NEW v \in {"settled", "reverted", "dropped"},
           NEW claim \in Req \cup {Nobody}, log' = Resolved(t, v, claim),
           v = "settled" \/ tx'[t] \notin {"signed", "posted", "landed"}
    PROVE  RowsStay
<1>1. LogTyped
    BY DEF PaidInv, Typed, LogTyped
<1>2. \A k \in DOMAIN log :
        /\ log[k].tx = t /\ log[k].outcome = "ambiguous" => log'[k].outcome = v
        /\ ~(log[k].tx = t /\ log[k].outcome = "ambiguous") => log'[k] = log[k]
    BY <1>1, ResolvedRows
<1>3. QED
    BY <1>2 DEF RowsStay

LEMMA SameStays == ASSUME UNCHANGED log PROVE RowsStay
    BY DEF RowsStay

(* What a request is told when nobody who paid may be sent back.            *)
Back(r) == SeesWell /\ q'[r].told = "challenge" /\ q[r].told # "challenge" => ~Owed

LEMMA NothingOwed == ASSUME Live = {} PROVE ~Owed
    BY DEF Live, Owed, Paid, MayMove

LEMMA WellIsPrompt == SeesWell => Prompt
    BY DEF SeesWell, Prompt, Fault

(* The turns after which a request neither looks nor is about to send.      *)
Apart(r) == q'[r].stage \notin {"simulate", "note", "send", "close", "look"}

LEMMA ApartClear == ASSUME NEW r \in Req, Apart(r) PROVE Clear(r)'
    BY DEF Apart, Clear

LEMMA VerifyRecord ==
    ASSUME PaidInv, NEW r \in Req,
           Arrive(r) \/ LoadSpent(r) \/ AuthorizationState(r) \/ Funds(r) \/ Proof(r)
    PROVE  Apart(r) /\ Back(r) /\ UNCHANGED <<log, tx, late>>
<1> DEFINE Kinds == {"none", "expired", "expiring_too_soon", "nonce_used", "already_redeemed"}
<1>1. Typed /\ UNCHANGED <<log, tx, late>>
    BY DEF PaidInv, Arrive, LoadSpent, AuthorizationState, Funds, Proof, world, Typed
<1>2. ASSUME NEW stage \in {"proof", "log"}, NEW refused \in Kinds, TakeKey(r, stage, refused)
      PROVE  Apart(r) /\ Back(r)
  <2>1. stage \in Stages
    BY <1>2 DEF Stages
  <2>2. \/ q'[r].stage = "idle" /\ q'[r].told = "retry"
        \/ q'[r].stage = stage /\ q'[r].told = q[r].told
    BY <1>1, <1>2, <2>1, TakeKeyMove
  <2>3. QED
    BY <2>2 DEF Apart, Back
<1>3. ASSUME Answer(r, "retry") PROVE Apart(r) /\ Back(r)
    BY <1>1, <1>3, AnswerMove DEF Apart, Back, Told
<1>4. ASSUME NEW stage \in {"state", "funds", "log"}, Go(r, stage) PROVE Apart(r) /\ Back(r)
  <2>1. stage \in Stages
    BY <1>4 DEF Stages
  <2>2. QED
    BY <1>1, <1>4, <2>1, GoMove DEF Apart, Back
<1>5. ASSUME Answer(r, "challenge"), ~SeesWell PROVE Apart(r) /\ Back(r)
    BY <1>1, <1>5, AnswerMove DEF Apart, Back, Told
<1>6. CASE Arrive(r)
  <2>1. CASE q' = [q EXCEPT ![r] = [Idle EXCEPT !.stage = "spent"]]
    <3>1. q'[r] = [Idle EXCEPT !.stage = "spent"]
      BY <1>1, <2>1 DEF Typed
    <3>2. q'[r].stage = "spent" /\ q'[r].told = "nothing"
      BY <3>1 DEF Idle
    <3>3. q'[r].told # "challenge"
      BY <3>2
    <3>4. Apart(r)
      BY <3>2 DEF Apart
    <3>5. Back(r)
      BY <3>3 DEF Back
    <3>6. QED
      BY <1>1, <3>4, <3>5
  <2>2. CASE TakeKey(r, "proof", "expiring_too_soon")
    BY <1>1, <1>2, <2>2
  <2>3. CASE TakeKey(r, "proof", "expired")
    BY <1>1, <1>2, <2>3
  <2>4. QED
    BY <1>6, <2>1, <2>2, <2>3 DEF Arrive
<1>7. CASE LoadSpent(r)
    BY <1>2, <1>3, <1>4, <1>7 DEF LoadSpent
<1>8. CASE AuthorizationState(r)
    BY <1>2, <1>3, <1>4, <1>8 DEF AuthorizationState
<1>9. CASE Funds(r)
  <2>1. "signature" \in Faults \/ ~Rich => ~SeesWell
    BY DEF SeesWell, Fault
  <2>2. QED
    BY <1>2, <1>3, <1>5, <1>9, <2>1 DEF Funds
<1>10. CASE Proof(r)
  <2>1. "proof" \in Faults => ~SeesWell
    BY DEF SeesWell, Fault
  <2>2. QED
    BY <1>4, <1>5, <1>10, <2>1 DEF Proof
<1>11. QED
    BY <1>1, <1>6, <1>7, <1>8, <1>9, <1>10

LEMMA RedeemRecord ==
    ASSUME PaidInv, NEW r \in Req, NEW row \in RowType, Redeem(r, row),
           row.served => served > 0
    PROVE  Apart(r) /\ Back(r)
<1>1. Typed /\ row.served \in BOOLEAN
    BY DEF PaidInv, RowType
<1>2. CASE Answer(r, "challenge") /\ (row.served \/ phase = "over")
  <2>1. ~Owed
    BY <1>1, <1>2 DEF Owed, Typed
  <2>2. QED
    BY <1>1, <1>2, <2>1, AnswerMove DEF Apart, Back, Told
<1>3. CASE Answer(r, "mismatch")
    BY <1>1, <1>3, AnswerMove DEF Apart, Back, Told
<1>4. CASE q' = [q EXCEPT ![r].stage = "claim", ![r].tx = row.tx, ![r].look = {}, ![r].left = FALSE]
  <2>1. q[r] \in Request
    BY <1>1 DEF Typed
  <2>2. q'[r] = [stage |-> "claim", look |-> {}, left |-> FALSE, tx |-> row.tx,
                 stale |-> q[r].stale, refused |-> q[r].refused, told |-> q[r].told]
    BY <1>1, <1>4, <2>1 DEF Typed, Request
  <2>3. q'[r].stage = "claim" /\ q'[r].told = q[r].told
    BY <2>2
  <2>4. QED
    BY <2>3 DEF Apart, Back
<1>5. QED
    BY <1>1, <1>2, <1>3, <1>4 DEF Redeem

LEMMA NoEarlierRecord ==
    ASSUME PaidInv, NEW r \in Req, NoEarlier(r), Prompt => Live = {}, tx' = tx
    PROVE  /\ Prompt => Clear(r)'
           /\ Back(r)
<1>1. Typed /\ Live' = Live
    BY DEF PaidInv, Live
<1>2. CASE Answer(r, "challenge")
    BY <1>1, <1>2, AnswerMove, NothingOwed, WellIsPrompt DEF Back, Clear, Told
<1>3. CASE q' = [q EXCEPT ![r].stage = "simulate", ![r].look = {}, ![r].left = FALSE]
  <2>1. q[r] \in Request
    BY <1>1 DEF Typed
  <2>2. q'[r] = [stage |-> "simulate", look |-> {}, left |-> FALSE, tx |-> q[r].tx,
                 stale |-> q[r].stale, refused |-> q[r].refused, told |-> q[r].told]
    BY <1>1, <1>3, <2>1 DEF Typed, Request
  <2>3. q'[r].stage = "simulate" /\ q'[r].told = q[r].told
    BY <2>2
  <2>4. QED
    BY <1>1, <2>3 DEF Back, Clear
<1>4. QED
    BY <1>2, <1>3 DEF NoEarlier

(* A turn that keeps the record.                                            *)
Keeps(r) == Clear(r)' /\ RowsStay /\ late' = {} /\ Live' \subseteq Live

LEMMA ReadLogRecord ==
    ASSUME OnceInv, NEW r \in Req, ReadLog(r)
    PROVE  Back(r) /\ (Prompt => Keeps(r))
<1>1. Typed /\ LogTyped /\ UNCHANGED <<tx, log, late>> /\ PaidInv
    BY DEF OnceInv, PaidInv, ReadLog, world, Typed, LogTyped
<1>2. RowsStay /\ Live' = Live /\ (Prompt => late' = {})
    BY <1>1, SameStays DEF Live, OnceInv, Recorded
<1>3. DOMAIN log = 1..Len(log) /\ Len(log) \in Nat /\ \A k \in DOMAIN log : log[k] \in RowType
    BY <1>1, RowsOf DEF LogTyped
<1>4. CASE Answer(r, "retry")
    BY <1>1, <1>2, <1>4, AnswerMove DEF Back, Keeps, Clear, Told
<1>5. CASE RowsThat("settled") # {} /\ Redeem(r, log[Max(RowsThat("settled"))])
  <2>1. RowsThat("settled") \subseteq DOMAIN log /\ \A k \in RowsThat("settled") : k <= Len(log)
    BY <1>3 DEF RowsThat
  <2>2. RowsThat("settled") \in SUBSET Nat
    BY <1>3, <2>1
  <2>3. Max(RowsThat("settled")) \in RowsThat("settled")
    BY <1>3, <1>5, <2>1, <2>2, NewestRow
  <2>4. PICK k \in DOMAIN log : k = Max(RowsThat("settled"))
    BY <2>1, <2>3
  <2>5. log[k] \in RowType /\ Redeem(r, log[k]) /\ (log[k].served => served > 0)
    BY <1>1, <1>3, <1>5, <2>4 DEF PaidInv, RowsOk
  <2>6. Apart(r) /\ Back(r)
    BY <1>1, <2>5, RedeemRecord
  <2>7. QED
    BY <1>2, <2>6, ApartClear DEF Keeps
<1>6. CASE RowsThat("settled") = {} /\ RowsThat("ambiguous") = {} /\ NoEarlier(r)
  <2>1. Prompt => Live = {}
    BY <1>6 DEF OnceInv, Recorded, RowsThat
  <2>2. QED
    BY <1>1, <1>2, <1>6, <2>1, NoEarlierRecord DEF Keeps
<1>7. CASE /\ RowsThat("settled") = {}
           /\ q' = [q EXCEPT ![r].stage = "look", ![r].look = RowsThat("ambiguous")]
  <2>1. q'[r] = [stage |-> "look", look |-> RowsThat("ambiguous"), left |-> q[r].left,
                 tx |-> q[r].tx, stale |-> q[r].stale, refused |-> q[r].refused, told |-> q[r].told]
    BY <1>1, <1>7 DEF Typed, Request
  <2>2. q'[r].stage = "look" /\ q'[r].look = RowsThat("ambiguous") /\ q'[r].told = q[r].told
    BY <2>1
  <2>3. Prompt => \A t \in Live : \E k \in RowsThat("ambiguous") : log[k].tx = t
    BY <1>7 DEF OnceInv, Recorded, RowsThat
  <2>4. Prompt => Clear(r)'
    BY <1>1, <1>2, <2>2, <2>3 DEF Clear
  <2>5. QED
    BY <1>2, <2>2, <2>4 DEF Back, Keeps
<1>8. QED
    BY <1>4, <1>5, <1>6, <1>7 DEF ReadLog

LEMMA GoOnRecord ==
    ASSUME PaidInv, NEW r \in Req, q[r].stage = "look", NEW rest \in SUBSET q[r].look,
           NEW left \in BOOLEAN, GoOn(r, rest, left), tx' = tx, LogGrows,
           Prompt /\ ~left => \A t \in Live : \E k \in rest : log[k].tx = t
    PROVE  Back(r) /\ (Prompt => Clear(r)')
<1>1. Typed /\ q[r] \in Request /\ Live' = Live /\ rest \subseteq DOMAIN log
    BY DEF PaidInv, Typed, Live, Knows
<1>2. CASE q' = [q EXCEPT ![r].look = rest, ![r].left = left]
  <2>1. q'[r] = [stage |-> "look", look |-> rest, left |-> left,
                 tx |-> q[r].tx, stale |-> q[r].stale, refused |-> q[r].refused, told |-> q[r].told]
    BY <1>1, <1>2 DEF Typed, Request
  <2>2. /\ q'[r].stage = "look" /\ q'[r].look = rest /\ q'[r].left = left
        /\ q'[r].told = q[r].told
    BY <2>1
  <2>3. Prompt => Clear(r)'
    BY <1>1, <2>2 DEF Clear, LogGrows
  <2>4. QED
    BY <2>2, <2>3 DEF Back
<1>3. CASE q' = [q EXCEPT ![r].stage = "unused", ![r].look = {}]
  <2>1. q'[r] = [stage |-> "unused", look |-> {}, left |-> q[r].left,
                 tx |-> q[r].tx, stale |-> q[r].stale, refused |-> q[r].refused, told |-> q[r].told]
    BY <1>1, <1>3 DEF Typed, Request
  <2>2. q'[r].stage = "unused" /\ q'[r].told = q[r].told
    BY <2>1
  <2>3. QED
    BY <2>2 DEF Back, Clear
<1>4. CASE Answer(r, "retry")
    BY <1>1, <1>4, AnswerMove DEF Back, Clear, Told
<1>5. CASE rest = {} /\ ~left /\ NoEarlier(r)
    BY <1>5, NoEarlierRecord
<1>6. QED
    BY <1>2, <1>3, <1>4, <1>5 DEF GoOn

LEMMA LookRecord ==
    ASSUME OnceInv, NEW r \in Req, Look(r)
    PROVE  Back(r) /\ (Prompt => Keeps(r))
<1> DEFINE k    == Max(q[r].look)
           rest == q[r].look \ {k}
<1>1. Typed /\ UNCHANGED <<tx, late, served>> /\ PaidInv /\ q[r].stage = "look"
    BY DEF OnceInv, PaidInv, Look, world
<1>2. Live' = Live /\ (Prompt => late' = {})
    BY <1>1 DEF Live, OnceInv, Recorded
<1>3. k \in q[r].look /\ k \in DOMAIN log /\ log[k] \in RowType /\ rest \in SUBSET q[r].look
    BY <1>1, LookedAt
<1>4. CASE GoOn(r, rest, TRUE) /\ UNCHANGED log
  <2>1. LogGrows /\ RowsStay
    BY <1>4, SameStays DEF LogGrows
  <2>2. QED
    BY <1>1, <1>2, <1>3, <1>4, <2>1, GoOnRecord DEF Keeps
<1>5. ASSUME NEW v \in Verdicts(log[k].tx), log' = Resolved(log[k].tx, v, Nobody),
             IF v = "settled" THEN Redeem(r, [log[k] EXCEPT !.served = FALSE])
             ELSE GoOn(r, rest, q[r].left)
      PROVE  Back(r) /\ (Prompt => Keeps(r))
  <2>1. /\ log[k].tx \in Tx /\ v \in {"settled", "reverted", "dropped"}
        /\ v = "settled" => tx[log[k].tx] = "landed"
        /\ v # "settled" => tx[log[k].tx] \in {"reverted", "gone"}
    BY <1>1, <1>3, VerdictTrue DEF RowType
  <2>2. LogGrows
    BY <1>1, <1>5, <2>1, ResolveKeeps
  <2>3. RowsStay
    BY <1>1, <1>5, <2>1, ResolveStays
  <2>4. CASE v = "settled"
    <3>1. /\ [log[k] EXCEPT !.served = FALSE] \in RowType
          /\ ~[log[k] EXCEPT !.served = FALSE].served
      BY <1>3 DEF RowType
    <3>2. Apart(r) /\ Back(r)
      BY <1>1, <1>5, <2>4, <3>1, RedeemRecord
    <3>3. QED
      BY <1>2, <2>3, <3>2, ApartClear DEF Keeps
  <2>5. CASE v # "settled"
    <3>1. q[r].left \in BOOLEAN
      BY <1>1 DEF Typed, Request
    <3>2. log[k].tx \notin Live
      BY <2>1, <2>5 DEF Live
    <3>3. Prompt /\ ~q[r].left => \A t \in Live : \E j \in rest : log[j].tx = t
      BY <1>1, <3>2 DEF OnceInv, Recorded, Clear
    <3>4. QED
      BY <1>1, <1>2, <1>3, <1>5, <2>2, <2>3, <2>5, <3>1, <3>3, GoOnRecord DEF Keeps
  <2>6. QED
    BY <2>4, <2>5
<1>6. QED
    BY <1>4, <1>5 DEF Look

LEMMA SendOffRecord ==
    ASSUME OnceInv, NEW r \in Req, ReadUnused(r) \/ Simulate(r)
    PROVE  Back(r) /\ (Prompt => Keeps(r))
<1>1. Typed /\ UNCHANGED <<tx, log, late>> /\ PaidInv
    BY DEF OnceInv, PaidInv, ReadUnused, Simulate, world
<1>2. RowsStay /\ Live' = Live /\ (Prompt => late' = {})
    BY <1>1, SameStays DEF Live, OnceInv, Recorded
<1>3. CASE Answer(r, "retry")
    BY <1>1, <1>2, <1>3, AnswerMove DEF Back, Keeps, Clear, Told
<1>4. CASE ReadUnused(r) /\ FALSE \in UsedReads /\ Answer(r, "challenge")
  <2>1. phase \in {"expired", "over"}
    BY <1>1, <1>4 DEF ReadUnused, PaidInv, Knows
  <2>2. SeesWell => ~used
    BY <1>4 DEF SeesWell, Fault, UsedReads
  <2>3. ~used => ~Paid
    BY <1>1 DEF PaidInv, OneLanded, Paid
  <2>4. SeesWell => ~Owed
    BY <2>1, <2>2, <2>3 DEF Owed, MayMove
  <2>5. QED
    BY <1>1, <1>2, <1>4, <2>4, AnswerMove DEF Back, Keeps, Clear, Told
<1>5. CASE Simulate(r) /\ Go(r, "note")
  <2>1. "note" \in Stages
    BY DEF Stages
  <2>2. q'[r].stage = "note" /\ q'[r].told = q[r].told
    BY <1>1, <1>5, <2>1, GoMove
  <2>3. Prompt => Live = {}
    BY <1>5 DEF Simulate, OnceInv, Recorded, Clear
  <2>4. QED
    BY <1>2, <2>2, <2>3 DEF Back, Keeps, Clear
<1>6. QED
    BY <1>3, <1>4, <1>5 DEF ReadUnused, Simulate

LEMMA NoteRecord ==
    ASSUME OnceInv, NEW r \in Req, Note(r)
    PROVE  Back(r) /\ (Prompt => Keeps(r))
<1>1. Typed /\ PaidInv /\ q[r].stage = "note" /\ Len(log) < MaxRows /\ served' = served
    BY DEF OnceInv, PaidInv, Note
<1>2. PICK t \in Signable :
        /\ tx' = [tx EXCEPT ![t] = "signed"]
        /\ \/ log' = Append(log, NewRow(t, r)) /\ Noted(r, t) /\ UNCHANGED late
           \/ /\ log' = Append(log, NewRow(t, r)) \/ UNCHANGED log
              /\ NotNoted(r, t)
              /\ Prompt => UNCHANGED late
    BY DEF Note, Prompt, Fault
<1>3. t \in Tx /\ tx[t] \in {"signed", "none"}
  <2>1. setting \in Settings /\ setting.tries \in Tx /\ MaxTx \in Nat
    BY <1>1, X402Assumption DEF Typed
  <2>2. 1..setting.tries \subseteq Tx
    BY <2>1 DEF Tx
  <2>3. QED
    BY <1>2, <2>2 DEF Signable
<1>4. Live' = Live
    BY <1>1, <1>2, <1>3 DEF Live, Typed
<1>5. Prompt => Live = {} /\ late' = {}
    BY <1>1, <1>2 DEF OnceInv, Recorded, Clear
<1>6. \A u \in Tx : tx[u] = "landed" => tx'[u] = "landed"
    BY <1>1, <1>2, <1>3 DEF Typed
<1>7. log' = Append(log, NewRow(t, r)) =>
        /\ \A k \in DOMAIN log : log'[k] = log[k]
        /\ Len(log) + 1 \in DOMAIN log' /\ log'[Len(log) + 1] = NewRow(t, r)
    BY <1>1, <1>3, <1>6, AppendKeeps
<1>8. RowsStay
    BY <1>2, <1>7 DEF RowsStay
<1>9. CASE log' = Append(log, NewRow(t, r)) /\ Noted(r, t)
  <2>1. q'[r].stage = "send" /\ q'[r].told = q[r].told /\ q'[r].tx = t
    BY <1>1, <1>3, <1>9, NotedMove
  <2>2. NewRow(t, r).tx = t /\ NewRow(t, r).outcome = "ambiguous"
    BY <1>1, <1>3, NewRowType
  <2>3. \E k \in DOMAIN log' : log'[k].tx = q'[r].tx /\ log'[k].outcome = "ambiguous"
    BY <1>7, <1>9, <2>1, <2>2
  <2>4. QED
    BY <1>4, <1>5, <1>8, <2>1, <2>3 DEF Back, Keeps, Clear
<1>10. CASE NotNoted(r, t)
  <2>1. q'[r].stage = "close" /\ q'[r].told = "retry"
    BY <1>1, <1>3, <1>10, NotedMove
  <2>2. QED
    BY <1>4, <1>5, <1>8, <2>1 DEF Back, Keeps, Clear
<1>11. QED
    BY <1>2, <1>9, <1>10

LEMMA CloseRecord ==
    ASSUME OnceInv, NEW r \in Req, CloseUnsentRow(r)
    PROVE  Back(r) /\ (Prompt => Keeps(r))
<1>1. /\ Typed /\ PaidInv /\ Knows(r) /\ q[r].stage = "close" /\ UNCHANGED tx
      /\ Answer(r, "retry") /\ (Prompt => late = {})
    BY DEF OnceInv, Recorded, PaidInv, CloseUnsentRow
<1>2. q'[r].stage = "idle" /\ q'[r].told = "retry"
    BY <1>1, AnswerMove DEF Told
<1>3. Prompt => late' = {} /\ (UNCHANGED log \/ log' = Resolved(q[r].tx, "dropped", Nobody))
    BY <1>1 DEF CloseUnsentRow, Prompt, Fault
<1>4. Live' = Live
    BY <1>1 DEF Live
<1>5. ASSUME Prompt PROVE RowsStay
  <2>1. CASE UNCHANGED log
    BY <2>1, SameStays
  <2>2. CASE log' = Resolved(q[r].tx, "dropped", Nobody)
    <3>1. q[r].tx \in Tx /\ tx[q[r].tx] \in {"signed", "gone"} /\ inFlight = r
      BY <1>1 DEF Knows, HasTx, HasKey
    <3>2. \A s \in Req : q'[s].stage # "send"
      <4>1. \A s \in Req : s # r => q'[s] = q[s] /\ inFlight # s /\ Knows(s)
        BY <1>1, <3>1, AnswerMove DEF Others, Told, PaidInv
      <4>2. QED
        BY <1>2, <4>1 DEF Knows, HasKey
    <3>3. LogTyped
      BY <1>1 DEF LogTyped, Typed
    <3>4. \A k \in DOMAIN log :
            ~(log[k].tx = q[r].tx /\ log[k].outcome = "ambiguous") => log'[k] = log[k]
      BY <2>2, <3>1, <3>3, ResolvedRows
    <3>5. QED
      BY <1>1, <3>1, <3>2, <3>4 DEF RowsStay
  <2>3. QED
    BY <1>3, <1>5, <2>1, <2>2
<1>6. QED
    BY <1>2, <1>3, <1>4, <1>5 DEF Back, Keeps, Clear

LEMMA SendRecord ==
    ASSUME OnceInv, NEW r \in Req, Send(r)
    PROVE  Back(r) /\ (Prompt => Recorded')
<1>1. /\ Typed /\ PaidInv /\ Knows(r) /\ q[r].stage = "send" /\ inFlight = r /\ q[r].tx \in Tx
      /\ UNCHANGED <<log, late, inFlight>>
    BY DEF OnceInv, PaidInv, Send, Knows, HasKey, HasTx
<1>2. {"wait", "close"} \subseteq Stages
    BY DEF Stages
<1>3. ASSUME NEW s \in Req, s # r PROVE q'[s] = q[s] /\ Clear(s)'
  <2>1. q'[s] = q[s]
    BY <1>1, <1>2, <1>3, GoMove DEF Send
  <2>2. q[s].stage \notin HasKey
    BY <1>1, <1>3 DEF PaidInv, Knows
  <2>3. Apart(s)
    BY <2>1, <2>2 DEF Apart, HasKey
  <2>4. QED
    BY <2>1, <2>3, ApartClear
<1>4. Prompt => /\ late' = {} /\ Live = {}
                /\ \E k \in DOMAIN log : log[k].tx = q[r].tx /\ log[k].outcome = "ambiguous"
    BY <1>1 DEF OnceInv, Recorded, Clear
<1>5. CASE tx' = [tx EXCEPT ![q[r].tx] = "posted"] /\ Go(r, "wait")
  <2>1. q'[r].stage = "wait" /\ q'[r].told = q[r].told
    BY <1>1, <1>2, <1>5, GoMove
  <2>2. Live' \subseteq Live \cup {q[r].tx}
    BY <1>1, <1>5 DEF Live, Typed
  <2>3. Clear(r)'
    BY <2>1, ApartClear DEF Apart
  <2>4. QED
    BY <1>1, <1>3, <1>4, <2>1, <2>2, <2>3 DEF Back, Recorded
<1>6. CASE Go(r, "close") /\ UNCHANGED tx
  <2>1. q'[r].stage = "close" /\ q'[r].told = q[r].told
    BY <1>1, <1>2, <1>6, GoMove
  <2>2. Live' = Live
    BY <1>6 DEF Live
  <2>3. Prompt => Clear(r)'
    BY <1>4, <2>1, <2>2 DEF Clear
  <2>4. QED
    BY <1>1, <1>3, <1>4, <2>1, <2>2, <2>3 DEF Back, Recorded
<1>7. QED
    BY <1>5, <1>6 DEF Send

(* From the wait on, a request only settles, claims and closes its rows.    *)
LEMMA OutcomesStay ==
    ASSUME PaidInv, NEW S \in SUBSET DOMAIN log, NEW claim \in Req \cup {Nobody},
           log' = WithClaim(S, claim) \/ log' = WithServed(S)
    PROVE  RowsStay
<1>1. LogTyped
    BY DEF PaidInv, Typed, LogTyped
<1>2. \A k \in DOMAIN log : log'[k].outcome = log[k].outcome
  <2>1. CASE log' = WithClaim(S, claim)
    BY <1>1, <2>1, ClaimedRows
  <2>2. CASE log' = WithServed(S)
    BY <1>1, <2>2, ServedRows
  <2>3. QED
    BY <2>1, <2>2
<1>3. QED
    BY <1>2 DEF RowsStay

LEMMA PayRecord ==
    ASSUME PaidInv, NEW r \in Req,
           \/ Wait(r) \/ Finish(r) \/ Claim(r) \/ WriteSpentKey(r)
           \/ Serve(r) \/ MarkServed(r) \/ ReleaseClaim(r) \/ LeaseEnds(r)
    PROVE  Apart(r) /\ Back(r) /\ RowsStay /\ UNCHANGED <<tx, late>>
<1>1. Typed /\ Knows(r) /\ UNCHANGED <<tx, late>>
    BY DEF PaidInv, Wait, Finish, Claim, WriteSpentKey, Serve, MarkServed, ReleaseClaim, LeaseEnds
<1>2. Apart(r) /\ Back(r)
  <2>1. ASSUME NEW told \in {"retry", "served"}, Answer(r, told) PROVE Apart(r) /\ Back(r)
    <3>1. q'[r].stage = "idle" /\ q'[r].told = told
      BY <1>1, <2>1, AnswerMove DEF Told
    <3>2. QED
      BY <3>1 DEF Apart, Back
  <2>2. ASSUME NEW stage \in {"finish", "key", "claim", "serve", "release"}, Go(r, stage)
        PROVE  Apart(r) /\ Back(r)
    <3>1. stage \in Stages
      BY DEF Stages
    <3>2. q'[r].stage = stage /\ q'[r].told = q[r].told
      BY <1>1, <2>2, <3>1, GoMove
    <3>3. QED
      BY <3>2 DEF Apart, Back
  <2>3. CASE q' = [q EXCEPT ![r].stage = "mark", ![r].told = "served"]
    <3>1. q[r] \in Request
      BY <1>1 DEF Typed
    <3>2. q'[r] = [stage |-> "mark", look |-> q[r].look, left |-> q[r].left,
                   tx |-> q[r].tx, stale |-> q[r].stale,
                   refused |-> q[r].refused, told |-> "served"]
      BY <1>1, <2>3, <3>1 DEF Typed, Request
    <3>3. q'[r].stage = "mark" /\ q'[r].told = "served"
      BY <3>2
    <3>4. QED
      BY <3>3 DEF Apart, Back
  <2>4. CASE LeaseEnds(r)
    <3>1. q[r] \in Request /\ q[r].stage \in Serving /\ q'[r] = [q[r] EXCEPT !.stale = TRUE]
      BY <1>1, <2>4 DEF LeaseEnds, Typed
    <3>2. q'[r].stage = q[r].stage /\ q'[r].told = q[r].told
      BY <3>1 DEF Request
    <3>3. QED
      BY <3>1, <3>2 DEF Apart, Back, Serving
  <2>5. QED
    BY <2>1, <2>2, <2>3, <2>4
       DEF Wait, Finish, Claim, WriteSpentKey, Serve, MarkServed, ReleaseClaim
<1>3. RowsStay
  <2>1. CASE UNCHANGED log
    BY <2>1, SameStays
  <2>2. CASE Wait(r) /\ log' # log
    <3>1. log' = Resolved(q[r].tx, "reverted", Nobody) /\ tx[q[r].tx] = "reverted" /\ q[r].tx \in Tx
      BY <1>1, <2>2 DEF Wait, Knows, HasTx
    <3>2. QED
      BY <1>1, <3>1, ResolveStays
  <2>3. CASE Finish(r) /\ log' # log
    <3>1. log' = Resolved(q[r].tx, "settled", r) /\ q[r].tx \in Tx
      BY <1>1, <2>3 DEF Finish, Knows, HasTx
    <3>2. QED
      BY <1>1, <3>1, ResolveStays
  <2>4. CASE Claim(r) /\ log' # log
    <3>1. PICK free \in SUBSET DOMAIN log : log' = WithClaim(free, r)
      BY <2>4 DEF Claim, WithClaim
    <3>2. QED
      BY <3>1, OutcomesStay
  <2>5. CASE MarkServed(r) /\ log' # log
    <3>1. Mine(r) \in SUBSET DOMAIN log
      BY DEF Mine
    <3>2. log' = WithServed(Mine(r))
      BY <2>5 DEF MarkServed, WithServed
    <3>3. QED
      BY <3>1, <3>2, OutcomesStay
  <2>6. CASE ReleaseClaim(r) /\ log' # log
    <3>1. Mine(r) \in SUBSET DOMAIN log
      BY DEF Mine
    <3>2. log' = WithClaim(Mine(r), Nobody)
      BY <2>6 DEF ReleaseClaim, WithClaim
    <3>3. QED
      BY <3>1, <3>2, OutcomesStay
  <2>7. QED
    BY <2>1, <2>2, <2>3, <2>4, <2>5, <2>6 DEF WriteSpentKey, Serve, LeaseEnds
<1>4. QED
    BY <1>1, <1>2, <1>3

LEMMA TurnRecord ==
    ASSUME OnceInv, NEW r \in Req, Arrive(r) \/ Handle(r) \/ LeaseEnds(r)
    PROVE  /\ Back(r)
           /\ OnceInv'
           /\ \A s \in Req : s # r => q'[s] = q[s]
<1>1. PaidInv /\ Turn(r) /\ PaidInv'
    BY HandleTurn, TurnKeeps DEF OnceInv
<1>2. /\ LogGrows /\ setting' = setting /\ \A s \in Req : s # r => q'[s] = q[s]
    BY <1>1 DEF Turn, Others
<1>3. Prompt' = Prompt
    BY <1>2 DEF Prompt, Fault, Faults
<1>4. (Prompt => Keeps(r)) => (Prompt => Recorded')
    BY <1>1, <1>2, RecordKept DEF OnceInv, Keeps
<1>5. ASSUME Apart(r), RowsStay, UNCHANGED <<tx, late>> PROVE Prompt => Keeps(r)
    BY <1>5, ApartClear DEF Keeps, OnceInv, Recorded, Live
<1>6. Back(r) /\ (Prompt => Recorded')
  <2>1. CASE Arrive(r) \/ LoadSpent(r) \/ AuthorizationState(r) \/ Funds(r) \/ Proof(r)
    BY <1>1, <1>4, <1>5, <2>1, VerifyRecord, SameStays
  <2>2. CASE \/ Wait(r) \/ Finish(r) \/ Claim(r) \/ WriteSpentKey(r)
             \/ Serve(r) \/ MarkServed(r) \/ ReleaseClaim(r) \/ LeaseEnds(r)
    BY <1>1, <1>4, <1>5, <2>2, PayRecord
  <2>3. CASE Send(r)
    BY <2>3, SendRecord
  <2>4. CASE \/ ReadLog(r) \/ Look(r) \/ ReadUnused(r) \/ Simulate(r)
             \/ Note(r) \/ CloseUnsentRow(r)
    BY <1>4, <2>4, ReadLogRecord, LookRecord, SendOffRecord, NoteRecord, CloseRecord
  <2>5. QED
    BY <2>1, <2>2, <2>3, <2>4 DEF Handle
<1>7. QED
    BY <1>1, <1>2, <1>3, <1>6 DEF OnceInv

LEMMA WorldRecord ==
    ASSUME OnceInv, World
    PROVE  OnceInv' /\ q' = q
<1>1. PaidInv /\ PaidInv' /\ UNCHANGED <<q, setting>>
    BY WorldKeeps DEF OnceInv, World, Sweep, Land, Vanish, LateCommit, Tick, world
<1>2. Prompt' = Prompt
    BY <1>1 DEF Prompt, Fault, Faults
<1>3. ASSUME Prompt PROVE LogGrows /\ RowsStay /\ late' = {} /\ Live' \subseteq Live
  <2>1. late = {} /\ Typed
    BY <1>1, <1>3 DEF OnceInv, Recorded, PaidInv
  <2>2. CASE UNCHANGED log
    <3>1. LogGrows /\ RowsStay
      BY <2>2, SameStays DEF LogGrows
    <3>2. late' = {} /\ Live' \subseteq Live
      BY <2>1 DEF World, Sweep, Land, Vanish, LateCommit, Tick, world, Live, Typed
    <3>3. QED
      BY <3>1, <3>2
  <2>3. CASE log' # log
    <3>1. PICK k \in DOMAIN log : Sweep(k)
      BY <2>1, <2>3 DEF World, Land, Vanish, LateCommit, Tick
    <3>2. PICK v \in Verdicts(log[k].tx) : log' = Resolved(log[k].tx, v, Nobody)
      BY <3>1 DEF Sweep
    <3>3. UNCHANGED <<tx, late, served>> /\ log[k].tx \in Tx
      BY <2>1, <3>1, RowsOf DEF Sweep, world, Typed, RowType
    <3>4. /\ v \in {"settled", "reverted", "dropped"}
          /\ v = "settled" => tx[log[k].tx] = "landed"
          /\ v # "settled" => tx[log[k].tx] \in {"reverted", "gone"}
      BY <1>1, <3>2, <3>3, VerdictTrue
    <3>5. LogGrows
      BY <1>1, <3>2, <3>3, <3>4, ResolveKeeps
    <3>6. RowsStay
      BY <1>1, <3>2, <3>3, <3>4, ResolveStays
    <3>7. QED
      BY <2>1, <3>3, <3>5, <3>6 DEF Live
  <2>4. QED
    BY <2>2, <2>3
<1>4. Prompt => Recorded'
    BY <1>1, <1>3, RecordKept DEF OnceInv
<1>5. QED
    BY <1>1, <1>2, <1>4 DEF OnceInv

LEMMA RestartRecord ==
    ASSUME OnceInv, Restart
    PROVE  OnceInv' /\ \A r \in Req : q'[r].told = "nothing"
<1>1. PaidInv /\ PaidInv' /\ UNCHANGED <<setting, tx, log, late>> /\ q' = [r \in Req |-> Idle]
    BY RestartKeeps DEF OnceInv, Restart
<1>2. Prompt' = Prompt /\ Live' = Live
    BY <1>1 DEF Prompt, Fault, Faults, Live
<1>3. \A r \in Req : q'[r].stage = "idle" /\ q'[r].told = "nothing"
    BY <1>1 DEF Idle
<1>4. \A r \in Req : Clear(r)'
    BY <1>3, ApartClear DEF Apart
<1>5. QED
    BY <1>1, <1>2, <1>3, <1>4 DEF OnceInv, Recorded

LEMMA OnceInit == Init => OnceInv
<1> SUFFICES ASSUME Init PROVE OnceInv
    OBVIOUS
<1>1. Live = {} /\ late = {}
    BY DEF Init, Live
<1>2. \A r \in Req : Clear(r)
    BY IdleType DEF Init, Clear
<1>3. QED
    BY <1>1, <1>2, PaidInit DEF OnceInv, Recorded

LEMMA OnceStep ==
    ASSUME OnceInv, [Next]_vars
    PROVE  OnceInv' /\ \A r \in Req : Back(r)
<1>1. CASE UNCHANGED vars
  <2>1. PaidInv'
    BY <1>1, PaidStep DEF OnceInv
  <2>2. QED
    BY <1>1, <2>1 DEF vars, OnceInv, Prompt, Fault, Faults, Recorded, Clear, Live, Back
<1>2. ASSUME NEW r \in Req, Arrive(r) \/ Handle(r) \/ LeaseEnds(r)
      PROVE  OnceInv' /\ \A s \in Req : Back(s)
    BY <1>2, TurnRecord DEF Back
<1>3. CASE World
    BY <1>3, WorldRecord DEF Back
<1>4. CASE Restart
    BY <1>4, RestartRecord DEF Back
<1>5. QED
    BY <1>1, <1>2, <1>3, <1>4 DEF Next, World

(* One authorization is never on its way twice, where no write stalls past  *)
(* its deadline: the row is written before the send, and a send starts only *)
(* once every row that could still land is read (settleFromEarlierBroadcast,*)
(* noteBroadcast, closeUnsentRow).                                          *)
THEOREM NeverTwice == Spec => []BroadcastOnce
<1>1. OnceInv => BroadcastOnce
    BY DEF OnceInv, Prompt, Recorded, BroadcastOnce
<1>2. OnceInv /\ [Next]_vars => OnceInv'
    BY OnceStep
<1>3. QED
    BY <1>1, <1>2, OnceInit, PTL DEF Spec

(* Whatever went out is in the log under its hash, open or settled: a retry *)
(* reads it before anything is signed.                                      *)
THEOREM AlwaysOnRecord == Spec => []SentIsOnRecord
<1>1. OnceInv => SentIsOnRecord
    BY DEF OnceInv, Prompt, Recorded, SentIsOnRecord
<1>2. OnceInv /\ [Next]_vars => OnceInv'
    BY OnceStep
<1>3. QED
    BY <1>1, <1>2, OnceInit, PTL DEF Spec

(* Nobody who paid, or may still have paid, is answered with a fresh        *)
(* challenge before the call was served (redeem, retryOfEarlierBroadcast).  *)
THEOREM PayerIsHeard == Spec => NeverSentBack
<1>1. OnceInv /\ [Next]_vars
        => [\A r \in Req : SeesWell /\ q'[r].told = "challenge" /\ q[r].told # "challenge"
                              => ~Owed]_vars
  <2> SUFFICES ASSUME OnceInv, [Next]_vars
               PROVE  \A r \in Req : SeesWell /\ q'[r].told = "challenge" /\ q[r].told # "challenge"
                                         => ~Owed
      OBVIOUS
  <2>1. QED
    BY OnceStep DEF Back
<1>2. OnceInv /\ [Next]_vars => OnceInv'
    BY OnceStep
<1>3. QED
    BY <1>1, <1>2, OnceInit, PTL DEF Spec, NeverSentBack

-----------------------------------------------------------------------------
(* What one payment bought, where the writes of a claim do not fail.        *)
Sure == ~Fault({"finish", "mark", "stall"})

Settled == RowsThat("settled")

(* Who serves holds the rows that are settled, or was overtaken: then it    *)
(* may still have its call to serve.                                        *)
Holds(r) == \A k \in Settled : log[k].claim = r

Calling == {"key", "serve"}

Displaced == {r \in Req : q[r].stage \in Calling /\ \E k \in Settled : log[k].claim # r}

Ahead == Cardinality(Displaced)

Done ==
    \/ \E k \in Settled : log[k].served
    \/ \E r \in Req : q[r].stage = "mark" /\ Holds(r)

(* The rows that are settled move as one. Every call served, and every call *)
(* that a displaced request may yet serve, was lost to a restart or to a    *)
(* claim taken over, or is the one that the rows are marked with.           *)
SoldOnce ==
    /\ \A j, k \in Settled : log[j].claim = log[k].claim /\ log[j].served = log[k].served
    /\ \A j \in Settled, k \in DOMAIN log : log[k].outcome = "ambiguous" => log[k].tx # log[j].tx
    /\ \A r \in Req : q[r].stage \in Serving
         => Settled # {} /\ (Holds(r) => \A k \in Settled : ~log[k].served)
    /\ served + Ahead <= crashes + overtaken + 1
    /\ ~Done => served + Ahead <= crashes + overtaken

SaleInv == OnceInv /\ (Sure => SoldOnce)

Kept == Promise!Next \/ UNCHANGED Promise!vars

(* Nobody comes to serve, and nobody who has served forgets it.             *)
Calm ==
    \A s \in Req : /\ q'[s].stage \in Serving => q[s].stage \in Serving
                   /\ q'[s].stage \in Calling => q[s].stage \in Calling
                   /\ q[s].stage = "mark" => q'[s].stage = "mark"

(* The displaced are counted.                                               *)
LEMMA AheadCount ==
    /\ Ahead \in Nat
    /\ Displaced = {} => Ahead = 0
    /\ Displaced # {} => Ahead >= 1
<1>1. IsFiniteSet(Displaced)
    BY X402Assumption, FS_Subset DEF Displaced
<1>2. QED
    BY <1>1, FS_CardinalityType, FS_EmptySet DEF Ahead

LEMMA FewerAhead ==
    ASSUME Displaced' \subseteq Displaced
    PROVE  Ahead' \in Nat /\ Ahead' <= Ahead
<1>1. IsFiniteSet(Displaced)
    BY X402Assumption, FS_Subset DEF Displaced
<1>2. Cardinality(Displaced') \in Nat /\ Cardinality(Displaced') <= Cardinality(Displaced)
    BY <1>1, FS_Subset, FS_CardinalityType
<1>3. QED
    BY <1>2 DEF Ahead

LEMMA Slack ==
    ASSUME NEW a \in Nat, NEW b \in Nat, NEW c \in Nat, NEW d \in Nat, d <= b, a + b <= c
    PROVE  a + d <= c
    OBVIOUS

LEMMA StillBounded ==
    ASSUME Typed, SoldOnce, Displaced' \subseteq Displaced
    PROVE  /\ served + Ahead' <= crashes + overtaken + 1
           /\ ~Done => served + Ahead' <= crashes + overtaken
<1>1. /\ served + Ahead <= crashes + overtaken + 1
      /\ ~Done => served + Ahead <= crashes + overtaken
    BY DEF SoldOnce
<1>2. /\ served \in Nat /\ crashes \in Nat /\ overtaken \in Nat
      /\ Ahead \in Nat /\ Ahead' \in Nat /\ Ahead' <= Ahead
    BY FewerAhead, AheadCount DEF Typed
<1>3. crashes + overtaken + 1 \in Nat /\ crashes + overtaken \in Nat
    BY <1>2
<1>4. QED
    BY <1>1, <1>2, <1>3, Slack

LEMMA OneLessAhead ==
    ASSUME NEW r \in Displaced, Displaced' = Displaced \ {r}
    PROVE  Ahead' = Ahead - 1 /\ Ahead' \in Nat /\ Ahead \in Nat
<1>1. IsFiniteSet(Displaced)
    BY X402Assumption, FS_Subset DEF Displaced
<1>2. /\ Cardinality(Displaced') = Cardinality(Displaced) - 1
      /\ Cardinality(Displaced') \in Nat /\ Cardinality(Displaced) \in Nat
    BY <1>1, FS_RemoveElement, FS_CardinalityType
<1>3. QED
    BY <1>2 DEF Ahead

LEMMA OneMoreAhead ==
    ASSUME NEW r, Displaced' \subseteq Displaced \cup {r}
    PROVE  Ahead' \in Nat /\ Ahead' <= Ahead + 1
<1>1. IsFiniteSet(Displaced)
    BY X402Assumption, FS_Subset DEF Displaced
<1>2. /\ IsFiniteSet(Displaced \cup {r}) /\ Cardinality(Displaced) \in Nat
      /\ Cardinality(Displaced \cup {r}) <= Cardinality(Displaced) + 1
    BY <1>1, FS_AddElement, FS_CardinalityType
<1>3. /\ Cardinality(Displaced') \in Nat /\ Cardinality(Displaced \cup {r}) \in Nat
      /\ Cardinality(Displaced') <= Cardinality(Displaced \cup {r})
    BY <1>2, FS_Subset, FS_CardinalityType
<1>4. QED
    BY <1>2, <1>3 DEF Ahead

SameSettled ==
    /\ \A k \in DOMAIN log : log[k].outcome = "settled" => k \in DOMAIN log' /\ log'[k] = log[k]
    /\ \A k \in DOMAIN log' :
         /\ log'[k].outcome = "settled" => k \in DOMAIN log /\ log[k].outcome = "settled"
         /\ log'[k].outcome = "ambiguous"
              => \/ k \in DOMAIN log /\ log[k].outcome = "ambiguous" /\ log'[k].tx = log[k].tx
                 \/ tx[log'[k].tx] # "landed"

LEMMA SameSold ==
    ASSUME PaidInv, SoldOnce, SameSettled, Calm, served' = served, crashes' = crashes,
           overtaken' = overtaken
    PROVE  SoldOnce'
<1>1. Settled' = Settled /\ \A k \in Settled : k \in DOMAIN log /\ log'[k] = log[k]
    BY DEF Settled, RowsThat, SameSettled
<1>2. \A k \in Settled : tx[log[k].tx] = "landed"
    BY DEF Settled, RowsThat, PaidInv, RowsOk
<1>3. \A j \in Settled', k \in DOMAIN log' :
        log'[k].outcome = "ambiguous" => log'[k].tx # log'[j].tx
    BY <1>1, <1>2 DEF SameSettled, SoldOnce
<1>4. Done => Done'
    BY <1>1 DEF Done, Calm, Holds
<1>5. \A r \in Req : q'[r].stage \in Serving
        => Settled' # {} /\ (Holds(r)' => \A k \in Settled' : ~log'[k].served)
    BY <1>1 DEF Calm, SoldOnce, Holds
<1>6. \A j, k \in Settled' : log'[j].claim = log'[k].claim /\ log'[j].served = log'[k].served
    BY <1>1 DEF SoldOnce
<1>7. Displaced' \subseteq Displaced
    BY <1>1 DEF Displaced, Calm
<1>8. /\ served + Ahead' <= crashes + overtaken + 1
      /\ ~Done' => served + Ahead' <= crashes + overtaken
    BY <1>4, <1>7, StillBounded DEF PaidInv
<1>9. QED
    BY <1>3, <1>5, <1>6, <1>8 DEF SoldOnce

(* The rows that are settled are of one transaction.                        *)
LEMMA OneSettled ==
    ASSUME PaidInv
    PROVE  /\ \A k \in Settled : k \in DOMAIN log /\ log[k].tx \in Tx /\ tx[log[k].tx] = "landed"
           /\ \A t \in Tx : tx[t] = "landed" => \A k \in Settled : log[k].tx = t
<1>1. \A k \in DOMAIN log : log[k].tx \in Tx
    BY RowsOf DEF PaidInv, Typed, RowType
<1>2. QED
    BY <1>1 DEF Settled, RowsThat, PaidInv, RowsOk, OneLanded

(* A resolution: the rows of a payment that landed settle together, with    *)
(* the claim of whoever settles them, or with none.                         *)
LEMMA ResolveSold ==
    ASSUME PaidInv, SoldOnce, NEW t \in Tx, NEW v \in {"settled", "reverted", "dropped"},
           NEW claim \in Req \cup {Nobody}, log' = Resolved(t, v, claim),
           v = "settled" => tx[t] = "landed",
           served' = served, crashes' = crashes, overtaken' = overtaken,
           \/ Calm
           \/ /\ v = "settled"
              /\ \E k \in DOMAIN log : log[k].tx = t /\ log[k].outcome = "ambiguous"
              /\ \A s \in Req : q'[s].stage \in Serving => q[s].stage \in Serving \/ s = claim
    PROVE  SoldOnce'
<1> DEFINE Open == {k \in DOMAIN log : log[k].tx = t /\ log[k].outcome = "ambiguous"}
<1>1. LogTyped
    BY DEF PaidInv, Typed, LogTyped
<1>2. /\ DOMAIN log' = DOMAIN log
      /\ \A k \in DOMAIN log : /\ log'[k].tx = log[k].tx /\ log'[k].served = log[k].served
                               /\ k \in Open => log'[k].outcome = v /\ log'[k].claim = claim
                               /\ k \notin Open => log'[k] = log[k]
    BY <1>1, ResolvedRows
<1>3. CASE v # "settled" \/ Open = {}
  <2>1. SameSettled
    BY <1>2, <1>3 DEF SameSettled
  <2>2. Calm
    BY <1>3 DEF Calm
  <2>3. QED
    BY <2>1, <2>2, SameSold
<1>4. CASE v = "settled" /\ Open # {}
  <2>1. tx[t] = "landed" /\ \A k \in Settled : log[k].tx = t
    BY <1>4, OneSettled
  <2>2. Settled = {}
    BY <1>4, <2>1 DEF SoldOnce, Settled, RowsThat
  <2>3. \A s \in Req : q[s].stage \notin Serving
    BY <2>2 DEF SoldOnce
  <2>4. ~Done /\ Displaced = {}
    BY <2>2, <2>3 DEF Done, Displaced, Serving
  <2>5. Settled' = Open
    BY <1>2, <1>4, <2>2 DEF Settled, RowsThat
  <2>6. \A k \in Open : log'[k].claim = claim /\ log'[k].served = log[k].served /\ log'[k].tx = t
    BY <1>2
  <2>7. \A k \in Open : ~log[k].served
    BY DEF PaidInv, RowsOk
  <2>8. \A k \in Open : log[k].served \in BOOLEAN
    BY <1>1, RowsOf DEF LogTyped, RowType
  <2>9. \A k \in Open : log'[k].served = FALSE
    BY <2>6, <2>7, <2>8
  <2>10. \A k \in DOMAIN log' : log'[k].outcome = "ambiguous" => log'[k].tx # t
    BY <1>2, <1>4
  <2>11. \A s \in Req : q'[s].stage \in Serving => s = claim
    BY <2>3 DEF Calm
  <2>12. \A j, k \in Settled' : log'[j].claim = log'[k].claim /\ log'[j].served = log'[k].served
    BY <2>5, <2>6, <2>9
  <2>13. \A j \in Settled', k \in DOMAIN log' :
           log'[k].outcome = "ambiguous" => log'[k].tx # log'[j].tx
    BY <2>5, <2>6, <2>10
  <2>14. \A s \in Req : q'[s].stage \in Serving
           => Settled' # {} /\ (Holds(s)' => \A k \in Settled' : ~log'[k].served)
    BY <1>4, <2>5, <2>9
  <2>15. Displaced' \subseteq Displaced
    BY <2>5, <2>6, <2>11 DEF Displaced, Calling, Serving
  <2>16. /\ served + Ahead' <= crashes + overtaken + 1
         /\ served + Ahead' <= crashes + overtaken
    BY <2>4, <2>15, StillBounded DEF PaidInv
  <2>17. QED
    BY <2>12, <2>13, <2>14, <2>16 DEF SoldOnce
<1>5. QED
    BY <1>3, <1>4

LEMMA StillSettled == ASSUME UNCHANGED log PROVE SameSettled
    BY DEF SameSettled

(* The turns that end neither in a claim nor in a call.                     *)
LEMMA VerifyCalm ==
    ASSUME PaidInv, NEW r \in Req,
           Arrive(r) \/ LoadSpent(r) \/ AuthorizationState(r) \/ Funds(r) \/ Proof(r)
    PROVE  q'[r].stage \notin Serving /\ q[r].stage \notin Serving
<1>1. Typed
    BY DEF PaidInv
<1>2. ASSUME NEW told \in {"retry", "challenge"}, Answer(r, told) PROVE q'[r].stage \notin Serving
    BY <1>1, <1>2, AnswerMove DEF Told, Serving
<1>3. ASSUME NEW stage \in {"proof", "log"},
             NEW refused \in {"none", "expired", "expiring_too_soon", "nonce_used", "already_redeemed"},
             TakeKey(r, stage, refused)
      PROVE  q'[r].stage \notin Serving
  <2>1. stage \in Stages
    BY DEF Stages
  <2>2. q'[r].stage \in {"idle", stage}
    BY <1>1, <1>3, <2>1, TakeKeyMove
  <2>3. QED
    BY <2>2 DEF Serving
<1>4. ASSUME NEW stage \in {"state", "funds", "log"}, Go(r, stage) PROVE q'[r].stage \notin Serving
  <2>1. stage \in Stages
    BY DEF Stages
  <2>2. q'[r].stage = stage
    BY <1>1, <1>4, <2>1, GoMove
  <2>3. QED
    BY <2>2 DEF Serving
<1>5. ASSUME q' = [q EXCEPT ![r] = [Idle EXCEPT !.stage = "spent"]]
      PROVE  q'[r].stage \notin Serving
  <2>1. q'[r] = [Idle EXCEPT !.stage = "spent"]
    BY <1>1, <1>5 DEF Typed
  <2>2. q'[r].stage = "spent"
    BY <2>1 DEF Idle
  <2>3. QED
    BY <2>2 DEF Serving
<1>6. q[r].stage \notin Serving
    BY DEF Arrive, LoadSpent, AuthorizationState, Funds, Proof, Serving
<1>7. q'[r].stage \notin Serving
  <2>1. CASE Arrive(r)
    BY <1>3, <1>5, <2>1 DEF Arrive
  <2>2. CASE LoadSpent(r) \/ AuthorizationState(r) \/ Funds(r) \/ Proof(r)
    BY <1>2, <1>3, <1>4, <2>2 DEF LoadSpent, AuthorizationState, Funds, Proof
  <2>3. QED
    BY <2>1, <2>2
<1>8. QED
    BY <1>6, <1>7

LEMMA RedeemCalm ==
    ASSUME PaidInv, NEW r \in Req, NEW row, Redeem(r, row)
    PROVE  q'[r].stage \notin Serving
<1>1. Typed
    BY DEF PaidInv
<1>2. CASE Answer(r, "challenge") \/ Answer(r, "mismatch")
    BY <1>1, <1>2, AnswerMove DEF Told, Serving
<1>3. CASE q' = [q EXCEPT ![r].stage = "claim", ![r].tx = row.tx, ![r].look = {}, ![r].left = FALSE]
  <2>1. q[r] \in Request
    BY <1>1 DEF Typed
  <2>2. q'[r] = [stage |-> "claim", look |-> {}, left |-> FALSE, tx |-> row.tx,
                 stale |-> q[r].stale, refused |-> q[r].refused, told |-> q[r].told]
    BY <1>1, <1>3, <2>1 DEF Typed, Request
  <2>3. QED
    BY <2>2 DEF Serving
<1>4. QED
    BY <1>2, <1>3 DEF Redeem

LEMMA NoEarlierCalm ==
    ASSUME PaidInv, NEW r \in Req, NoEarlier(r)
    PROVE  q'[r].stage \notin Serving
<1>1. Typed
    BY DEF PaidInv
<1>2. CASE Answer(r, "challenge")
    BY <1>1, <1>2, AnswerMove DEF Told, Serving
<1>3. CASE q' = [q EXCEPT ![r].stage = "simulate", ![r].look = {}, ![r].left = FALSE]
  <2>1. q[r] \in Request
    BY <1>1 DEF Typed
  <2>2. q'[r] = [stage |-> "simulate", look |-> {}, left |-> FALSE, tx |-> q[r].tx,
                 stale |-> q[r].stale, refused |-> q[r].refused, told |-> q[r].told]
    BY <1>1, <1>3, <2>1 DEF Typed, Request
  <2>3. QED
    BY <2>2 DEF Serving
<1>4. QED
    BY <1>2, <1>3 DEF NoEarlier

LEMMA GoOnCalm ==
    ASSUME PaidInv, NEW r \in Req, q[r].stage = "look", NEW rest, NEW left, GoOn(r, rest, left)
    PROVE  q'[r].stage \notin Serving
<1>1. Typed /\ q[r] \in Request
    BY DEF PaidInv, Typed
<1>2. CASE q' = [q EXCEPT ![r].look = rest, ![r].left = left]
  <2>1. q'[r] = [stage |-> "look", look |-> rest, left |-> left,
                 tx |-> q[r].tx, stale |-> q[r].stale, refused |-> q[r].refused, told |-> q[r].told]
    BY <1>1, <1>2 DEF Typed, Request
  <2>2. QED
    BY <2>1 DEF Serving
<1>3. CASE q' = [q EXCEPT ![r].stage = "unused", ![r].look = {}]
  <2>1. q'[r] = [stage |-> "unused", look |-> {}, left |-> q[r].left,
                 tx |-> q[r].tx, stale |-> q[r].stale, refused |-> q[r].refused, told |-> q[r].told]
    BY <1>1, <1>3 DEF Typed, Request
  <2>2. QED
    BY <2>1 DEF Serving
<1>4. CASE Answer(r, "retry")
    BY <1>1, <1>4, AnswerMove DEF Told, Serving
<1>5. CASE NoEarlier(r)
    BY <1>5, NoEarlierCalm
<1>6. QED
    BY <1>2, <1>3, <1>4, <1>5 DEF GoOn

LEMMA EarlyCalm ==
    ASSUME PaidInv, NEW r \in Req, ReadLog(r) \/ ReadUnused(r) \/ Simulate(r)
    PROVE  q'[r].stage \notin Serving /\ q[r].stage \notin Serving
<1>1. Typed /\ q[r] \in Request /\ q[r].stage \notin Serving
    BY DEF PaidInv, Typed, ReadLog, ReadUnused, Simulate, Serving
<1>2. CASE Answer(r, "retry") \/ Answer(r, "challenge")
    BY <1>1, <1>2, AnswerMove DEF Told, Serving
<1>3. CASE Go(r, "note")
  <2>1. "note" \in Stages
    BY DEF Stages
  <2>2. QED
    BY <1>1, <1>3, <2>1, GoMove DEF Serving
<1>4. CASE q' = [q EXCEPT ![r].stage = "look", ![r].look = RowsThat("ambiguous")]
  <2>1. q'[r] = [stage |-> "look", look |-> RowsThat("ambiguous"), left |-> q[r].left,
                 tx |-> q[r].tx, stale |-> q[r].stale, refused |-> q[r].refused, told |-> q[r].told]
    BY <1>1, <1>4 DEF Typed, Request
  <2>2. QED
    BY <1>1, <2>1 DEF Serving
<1>5. CASE NoEarlier(r)
    BY <1>1, <1>5, NoEarlierCalm
<1>6. ASSUME NEW row, Redeem(r, row) PROVE q'[r].stage \notin Serving
    BY <1>6, RedeemCalm
<1>7. QED
    BY <1>1, <1>2, <1>3, <1>4, <1>5, <1>6 DEF ReadLog, ReadUnused, Simulate

LEMMA QuietSold ==
    ASSUME PaidInv, SoldOnce, NEW r \in Req, Turn(r), SameSettled, served' = served,
           overtaken' = overtaken, q'[r].stage \notin Serving, q[r].stage \notin Serving
    PROVE  SoldOnce'
<1>1. Calm /\ crashes' = crashes
    BY DEF Calm, Turn, Others, Serving, Calling
<1>2. QED
    BY <1>1, SameSold

LEMMA LookSold ==
    ASSUME PaidInv, SoldOnce, NEW r \in Req, Look(r)
    PROVE  SoldOnce'
<1> DEFINE k    == Max(q[r].look)
           rest == q[r].look \ {k}
<1>1. /\ Typed /\ Turn(r) /\ q[r].stage = "look" /\ served' = served /\ crashes' = crashes
      /\ q[r].stage \notin Serving /\ overtaken' = overtaken
    BY LookTurn DEF PaidInv, Look, world, Serving
<1>2. k \in DOMAIN log /\ log[k] \in RowType
    BY <1>1, LookedAt
<1>3. q'[r].stage \notin Serving
  <2>1. ASSUME NEW left, GoOn(r, rest, left) PROVE q'[r].stage \notin Serving
    BY <1>1, <2>1, GoOnCalm
  <2>2. ASSUME NEW row, Redeem(r, row) PROVE q'[r].stage \notin Serving
    BY <2>2, RedeemCalm
  <2>3. QED
    BY <2>1, <2>2 DEF Look
<1>4. CASE UNCHANGED log
    BY <1>1, <1>3, <1>4, StillSettled, QuietSold
<1>5. ASSUME NEW v \in Verdicts(log[k].tx), log' = Resolved(log[k].tx, v, Nobody) PROVE SoldOnce'
  <2>1. /\ log[k].tx \in Tx /\ v \in {"settled", "reverted", "dropped"}
        /\ v = "settled" => tx[log[k].tx] = "landed"
    BY <1>2, <1>5, VerdictTrue DEF RowType
  <2>2. Calm
    BY <1>1, <1>3 DEF Calm, Turn, Others, Serving, Calling
  <2>3. QED
    BY <1>1, <1>5, <2>1, <2>2, ResolveSold
<1>6. QED
    BY <1>4, <1>5 DEF Look

LEMMA NoteSold ==
    ASSUME PaidInv, SoldOnce, NEW r \in Req, Note(r)
    PROVE  SoldOnce'
<1>1. /\ Typed /\ Turn(r) /\ q[r].stage = "note" /\ served' = served /\ Len(log) < MaxRows
      /\ q[r].stage \notin Serving /\ overtaken' = overtaken
    BY NoteTurn DEF PaidInv, Note, Serving, world
<1>2. PICK t \in Signable :
        /\ tx' = [tx EXCEPT ![t] = "signed"]
        /\ log' = Append(log, NewRow(t, r)) \/ UNCHANGED log
        /\ Noted(r, t) \/ NotNoted(r, t)
    BY DEF Note
<1>3. t \in Tx /\ tx[t] \in {"signed", "none"}
  <2>1. setting \in Settings /\ setting.tries \in Tx /\ MaxTx \in Nat
    BY <1>1, X402Assumption DEF Typed
  <2>2. 1..setting.tries \subseteq Tx
    BY <2>1 DEF Tx
  <2>3. QED
    BY <1>2, <2>2 DEF Signable
<1>4. q'[r].stage \notin Serving
    BY <1>1, <1>2, <1>3, NotedMove DEF Serving
<1>5. SameSettled
  <2>1. CASE UNCHANGED log
    BY <2>1, StillSettled
  <2>2. CASE log' = Append(log, NewRow(t, r))
    <3>1. \A u \in Tx : tx[u] = "landed" => tx'[u] = "landed"
      BY <1>1, <1>2, <1>3 DEF Typed
    <3>2. /\ DOMAIN log' = DOMAIN log \cup {Len(log) + 1}
          /\ \A k \in DOMAIN log : log'[k] = log[k]
          /\ log'[Len(log) + 1] = NewRow(t, r)
      BY <1>1, <1>3, <2>2, <3>1, AppendKeeps
    <3>3. NewRow(t, r).tx = t /\ NewRow(t, r).outcome = "ambiguous"
      BY <1>3, NewRowType
    <3>4. QED
      BY <1>3, <3>2, <3>3 DEF SameSettled
  <2>3. QED
    BY <1>2, <2>1, <2>2
<1>6. QED
    BY <1>1, <1>4, <1>5, QuietSold

(* A turn of a request before or after its claim that may close its rows.   *)
LEMMA CloseSold ==
    ASSUME OnceInv, SoldOnce, NEW r \in Req, CloseUnsentRow(r) \/ Send(r) \/ Wait(r)
    PROVE  SoldOnce'
<1>1. /\ Typed /\ PaidInv /\ Turn(r) /\ served' = served /\ crashes' = crashes
      /\ q[r].stage \notin Serving /\ q[r].tx \in Tx /\ overtaken' = overtaken
    BY CloseTurn, SendTurn, WaitTurn
       DEF OnceInv, PaidInv, CloseUnsentRow, Send, Wait, world, Serving, Knows, HasTx
<1>2. q'[r].stage \notin Serving
  <2>1. CASE Answer(r, "retry")
    BY <1>1, <2>1, AnswerMove DEF Told, Serving
  <2>2. ASSUME NEW stage \in {"wait", "close", "finish"}, Go(r, stage)
        PROVE  q'[r].stage \notin Serving
    <3>1. stage \in Stages
      BY DEF Stages
    <3>2. q'[r].stage = stage
      BY <1>1, <2>2, <3>1, GoMove
    <3>3. QED
      BY <3>2 DEF Serving
  <2>3. QED
    BY <2>1, <2>2 DEF CloseUnsentRow, Send, Wait
<1>3. CASE UNCHANGED log
    BY <1>1, <1>2, <1>3, StillSettled, QuietSold
<1>4. ASSUME NEW v \in {"dropped", "reverted"}, log' = Resolved(q[r].tx, v, Nobody)
      PROVE  SoldOnce'
  <2>1. Calm
    BY <1>1, <1>2 DEF Calm, Turn, Others, Serving, Calling
  <2>2. QED
    BY <1>1, <1>4, <2>1, ResolveSold
<1>5. QED
    BY <1>3, <1>4 DEF CloseUnsentRow, Send, Wait

LEMMA FinishSold ==
    ASSUME PaidInv, SoldOnce, Sure, NEW r \in Req, Finish(r)
    PROVE  SoldOnce'
<1>1. /\ Typed /\ Turn(r) /\ served' = served /\ crashes' = crashes /\ q[r].stage = "finish"
      /\ q[r].stage \notin Serving /\ q[r].tx \in Tx /\ tx[q[r].tx] = "landed"
      /\ overtaken' = overtaken
    BY FinishTurn DEF PaidInv, Finish, world, Serving, Knows, HasTx, HasPay
<1>2. \A s \in Req : s # r => q'[s] = q[s]
    BY <1>1 DEF Turn, Others
<1>3. CASE /\ log' = Resolved(q[r].tx, "settled", r)
           /\ \E k \in RowsThat("ambiguous") : log[k].tx = q[r].tx
  <2>1. \E k \in DOMAIN log : log[k].tx = q[r].tx /\ log[k].outcome = "ambiguous"
    BY <1>3 DEF RowsThat
  <2>2. \A s \in Req : q'[s].stage \in Serving => q[s].stage \in Serving \/ s = r
    BY <1>2
  <2>3. QED
    BY <1>1, <1>3, <2>1, <2>2, ResolveSold
<1>4. CASE Go(r, "claim") /\ UNCHANGED log
  <2>1. "claim" \in Stages
    BY DEF Stages
  <2>2. q'[r].stage \notin Serving
    BY <1>1, <1>4, <2>1, GoMove DEF Serving
  <2>3. QED
    BY <1>1, <1>4, <2>2, StillSettled, QuietSold
<1>5. QED
    BY <1>3, <1>4 DEF Finish, Sure, Fault

(* A claim takes every row: from nobody, from one that no longer serves, or *)
(* from one that outlived its lease, which may still have its call to serve.*)
LEMMA ClaimSold ==
    ASSUME PaidInv, SoldOnce, NEW r \in Req, Claim(r)
    PROVE  SoldOnce'
<1> DEFINE free == {k \in DOMAIN log : Unserved(log[k], q[r].tx) /\ Claimable(log[k])}
           over == \E k \in free : Overtakes(log[k])
<1>1. /\ Typed /\ Turn(r) /\ served' = served /\ crashes' = crashes /\ q[r].stage = "claim"
      /\ q[r].stage \notin Serving /\ q[r].tx \in Tx /\ tx[q[r].tx] = "landed"
    BY ClaimTurn DEF PaidInv, Claim, Serving, Knows, HasTx, HasPay
<1>2. \A s \in Req : s # r => q'[s] = q[s]
    BY <1>1 DEF Turn, Others
<1>3. CASE Answer(r, "retry") /\ UNCHANGED <<log, overtaken>>
  <2>1. q'[r].stage \notin Serving
    BY <1>1, <1>3, AnswerMove DEF Told, Serving
  <2>2. QED
    BY <1>1, <1>3, <2>1, StillSettled, QuietSold
<1>4. CASE /\ free # {} /\ log' = WithClaim(free, r)
           /\ overtaken' = IF over THEN overtaken + 1 ELSE overtaken
           /\ Go(r, "key")
  <2>1. LogTyped /\ free \in SUBSET DOMAIN log
    BY <1>1 DEF LogTyped, Typed
  <2>2. /\ DOMAIN log' = DOMAIN log
        /\ \A k \in DOMAIN log :
             /\ log'[k].tx = log[k].tx /\ log'[k].served = log[k].served
             /\ log'[k].outcome = log[k].outcome
             /\ k \in free => log'[k].claim = r
    <3> HIDE DEF free
    <3>1. QED
      BY <1>4, <2>1, ClaimedRows
  <2>3. Settled' = Settled
    BY <2>2 DEF Settled, RowsThat
  <2>4. PICK f \in Settled : f \in free /\ ~log[f].served /\ Claimable(log[f])
    BY <1>4 DEF Settled, RowsThat, Unserved
  <2>5. \A k \in Settled : /\ log[k].claim = log[f].claim /\ log[k].served = log[f].served
                          /\ log[k].tx = q[r].tx /\ k \in DOMAIN log /\ log[k].outcome = "settled"
    BY <1>1, OneSettled DEF SoldOnce, Settled, RowsThat
  <2>6. Settled \subseteq free
    BY <2>4, <2>5 DEF Unserved, Claimable, Overtakes
  <2>7. /\ q'[r].stage = "key"
        /\ \A s \in Req : q'[s].stage \in Serving => q[s].stage \in Serving \/ s = r
        /\ \A s \in Req : q'[s].stage \in Calling => q[s].stage \in Calling \/ s = r
    <3>1. "key" \in Stages
      BY DEF Stages
    <3>2. QED
      BY <1>1, <1>2, <1>4, <3>1, GoMove
  <2>8. \A k \in Settled : log'[k].claim = r /\ log'[k].served = log[f].served
    BY <2>2, <2>5, <2>6
  <2>9. \A s \in Req : Holds(s) <=> log[f].claim = s
    BY <2>4, <2>5 DEF Holds
  <2>10. \A s \in Req : Holds(s)' => s = r
    BY <2>3, <2>4, <2>8 DEF Holds
  <2>11. ~Done'
    BY <2>3, <2>4, <2>7, <2>8, <2>10 DEF Done
  <2>12. /\ served \in Nat /\ crashes \in Nat /\ overtaken \in Nat
         /\ Ahead \in Nat
         /\ served + Ahead <= crashes + overtaken + 1
         /\ ~Done => served + Ahead <= crashes + overtaken
    BY <1>1, AheadCount DEF SoldOnce, Typed
  <2>13. served' + Ahead' <= crashes' + overtaken'
    <3>1. Displaced' \subseteq Displaced \cup {log[f].claim}
      BY <2>3, <2>5, <2>7, <2>8, <2>10 DEF Displaced, Holds
    <3>2. Ahead' \in Nat /\ Ahead' <= Ahead + 1
      BY <3>1, OneMoreAhead
    <3>3. CASE log[f].claim \in Req /\ q[log[f].claim].stage \in Serving
      <4>1. overtaken' = overtaken + 1
        BY <1>4, <2>4, <3>3, X402Assumption DEF Claimable, Overtakes
      <4>2. CASE q[log[f].claim].stage \in Calling
        <5>1. ~Done
          BY <2>4, <2>5, <2>9, <4>2 DEF Done, Calling
        <5>2. QED
          BY <1>1, <2>12, <3>2, <4>1, <5>1
      <4>3. CASE q[log[f].claim].stage \notin Calling
        <5>1. Displaced' \subseteq Displaced
          BY <2>3, <2>5, <2>7, <2>8, <2>10, <4>3 DEF Displaced, Holds
        <5>2. Ahead' <= Ahead
          BY <5>1, FewerAhead
        <5>3. QED
          BY <1>1, <2>12, <3>2, <4>1, <5>2
      <4>4. QED
        BY <4>2, <4>3
    <3>4. CASE ~(log[f].claim \in Req /\ q[log[f].claim].stage \in Serving)
      <4>1. \A s \in Req : Holds(s) => q[s].stage \notin Serving
        BY <2>9, <3>4
      <4>2. ~Done
        BY <2>4, <2>5, <4>1 DEF Done, Serving
      <4>3. Displaced' \subseteq Displaced
        BY <2>3, <2>5, <2>7, <2>8, <2>10, <3>4 DEF Displaced, Holds, Calling, Serving
      <4>4. Ahead' <= Ahead
        BY <4>3, FewerAhead
      <4>5. overtaken' \in Nat /\ overtaken' >= overtaken
        BY <1>4, <2>12
      <4>6. QED
        BY <1>1, <2>12, <3>2, <4>2, <4>4, <4>5
    <3>5. QED
      BY <3>3, <3>4
  <2>14. /\ overtaken' \in Nat /\ Ahead' \in Nat
         /\ served' + Ahead' <= crashes' + overtaken' + 1
    <3>1. overtaken' \in Nat
      BY <1>4, <2>12
    <3>2. Displaced' \subseteq Displaced \cup {log[f].claim}
      BY <2>3, <2>5, <2>7, <2>8, <2>10 DEF Displaced, Holds
    <3>3. Ahead' \in Nat
      BY <3>2, OneMoreAhead
    <3>4. QED
      BY <1>1, <2>12, <2>13, <3>1, <3>3
  <2>15. \A j, k \in Settled' : log'[j].claim = log'[k].claim /\ log'[j].served = log'[k].served
    BY <2>3, <2>8
  <2>16. \A j \in Settled', k \in DOMAIN log' :
           log'[k].outcome = "ambiguous" => log'[k].tx # log'[j].tx
    BY <2>2, <2>3, <2>5 DEF SoldOnce
  <2>17. \A s \in Req : q'[s].stage \in Serving
           => Settled' # {} /\ (Holds(s)' => \A k \in Settled' : ~log'[k].served)
    BY <2>3, <2>4, <2>8
  <2>18. QED
    BY <2>13, <2>14, <2>15, <2>16, <2>17 DEF SoldOnce
<1>5. QED
    BY <1>3, <1>4 DEF Claim, WithClaim

LEMMA KeySold ==
    ASSUME PaidInv, SoldOnce, NEW r \in Req,
           WriteSpentKey(r) \/ (Serve(r) /\ UNCHANGED served) \/ LeaseEnds(r)
    PROVE  SoldOnce'
<1>1. /\ Typed /\ Turn(r) /\ served' = served /\ crashes' = crashes /\ UNCHANGED log
      /\ overtaken' = overtaken
    BY SpentKeyTurn, ServeTurn, LeaseTurn DEF PaidInv, WriteSpentKey, Serve, LeaseEnds, world
<1>2. \A s \in Req : s # r => q'[s] = q[s]
    BY <1>1 DEF Turn, Others
<1>3. CASE q[r].stage \in Calling
  <2>1. Calm
    BY <1>2, <1>3 DEF Calm, Serving, Calling
  <2>2. QED
    BY <1>1, <2>1, StillSettled, SameSold
<1>4. CASE LeaseEnds(r)
  <2>1. q'[r].stage = q[r].stage
    BY <1>1, <1>4 DEF LeaseEnds, Typed, Request
  <2>2. Calm
    BY <1>2, <2>1 DEF Calm
  <2>3. QED
    BY <1>1, <2>2, StillSettled, SameSold
<1>5. QED
    BY <1>3, <1>4 DEF WriteSpentKey, Serve, Calling

(* A call: of the one that holds the rows, or of one that was overtaken.    *)
LEMMA ServeSold ==
    ASSUME PaidInv, SoldOnce, NEW r \in Req, Serve(r), served' # served
    PROVE  /\ SoldOnce'
           /\ served' = served + 1 /\ served <= crashes + overtaken
<1>1. /\ Typed /\ Turn(r) /\ served' = served + 1 /\ crashes' = crashes /\ UNCHANGED log
      /\ overtaken' = overtaken
      /\ q[r].stage = "serve" /\ q' = [q EXCEPT ![r].stage = "mark", ![r].told = "served"]
    BY ServeTurn DEF PaidInv, Serve, world
<1>2. \A s \in Req : s # r => q'[s] = q[s]
    BY <1>1 DEF Turn, Others
<1>3. q'[r].stage = "mark"
  <2>1. q[r] \in Request
    BY <1>1 DEF Typed
  <2>2. q'[r] = [stage |-> "mark", look |-> q[r].look, left |-> q[r].left,
                 tx |-> q[r].tx, stale |-> q[r].stale, refused |-> q[r].refused,
                 told |-> "served"]
    BY <1>1, <2>1 DEF Typed, Request
  <2>3. QED
    BY <2>2
<1>4. /\ Settled' = Settled /\ Settled # {}
      /\ \A s \in Req : Holds(s)' <=> Holds(s)
    BY <1>1 DEF Settled, RowsThat, SoldOnce, Serving, Holds
<1>5. /\ served \in Nat /\ crashes \in Nat /\ overtaken \in Nat /\ Ahead \in Nat
      /\ served + Ahead <= crashes + overtaken + 1
      /\ ~Done => served + Ahead <= crashes + overtaken
    BY <1>1, AheadCount DEF SoldOnce, Typed
<1>6. \A s \in Req : q'[s].stage \in Serving => q[s].stage \in Serving
    BY <1>1, <1>2 DEF Serving
<1>7. Displaced' = Displaced \ {r}
    BY <1>1, <1>2, <1>3, <1>4 DEF Displaced, Calling
<1>8. CASE Holds(r)
  <2>1. ~Done
    BY <1>1, <1>4, <1>8 DEF Done, SoldOnce, Serving, Holds
  <2>2. Done'
    BY <1>3, <1>4, <1>8 DEF Done
  <2>3. Ahead' \in Nat /\ Ahead' <= Ahead
    BY <1>7, FewerAhead
  <2>4. served' + Ahead' <= crashes' + overtaken' + 1 /\ served <= crashes + overtaken
    BY <1>1, <1>5, <2>1, <2>3
  <2>5. QED
    BY <1>1, <1>4, <1>6, <2>2, <2>4 DEF SoldOnce
<1>9. CASE ~Holds(r)
  <2>1. r \in Displaced
    BY <1>1, <1>9 DEF Displaced, Calling, Holds
  <2>2. Ahead' = Ahead - 1 /\ Ahead' \in Nat /\ Ahead >= 1
    BY <1>7, <2>1, OneLessAhead, AheadCount
  <2>3. Done => Done'
    BY <1>1, <1>2, <1>4 DEF Done
  <2>4. /\ served' + Ahead' <= crashes' + overtaken' + 1
        /\ ~Done' => served' + Ahead' <= crashes' + overtaken'
        /\ served <= crashes + overtaken
    BY <1>1, <1>5, <2>2, <2>3
  <2>5. QED
    BY <1>1, <1>4, <1>6, <2>4 DEF SoldOnce
<1>10. QED
    BY <1>8, <1>9

(* The mark and the release of a claim reach every row that is settled, or, *)
(* of one that was overtaken, none.                                         *)
LEMMA AllMine ==
    ASSUME PaidInv, SoldOnce, NEW r \in Req, q[r].stage \in {"mark", "release"}
    PROVE  /\ Settled # {} /\ Settled \in SUBSET DOMAIN log
           /\ Holds(r) => Mine(r) = Settled
           /\ ~Holds(r) => Mine(r) = {}
<1>1. q[r].stage \in Serving /\ q[r].tx \in Tx /\ tx[q[r].tx] = "landed"
    BY DEF Serving, PaidInv, Knows, HasTx, HasPay
<1>2. \A k \in Settled : k \in DOMAIN log /\ log[k].outcome = "settled" /\ log[k].tx = q[r].tx
    BY <1>1, OneSettled DEF Settled, RowsThat
<1>3. \A k \in Mine(r) : k \in Settled /\ log[k].claim = r
    BY DEF Mine, Unserved, Settled, RowsThat
<1>4. CASE Holds(r)
  <2>1. \A k \in Settled : log[k].claim = r /\ ~log[k].served
    BY <1>1, <1>4 DEF SoldOnce, Holds
  <2>2. QED
    BY <1>1, <1>2, <1>3, <1>4, <2>1 DEF Mine, Unserved, SoldOnce
<1>5. CASE ~Holds(r)
  <2>1. \A k \in Settled : log[k].claim # r
    BY <1>5 DEF SoldOnce, Holds
  <2>2. QED
    BY <1>1, <1>2, <1>3, <1>5, <2>1 DEF SoldOnce
<1>6. QED
    BY <1>4, <1>5

LEMMA EndSold ==
    ASSUME PaidInv, SoldOnce, Sure, NEW r \in Req, MarkServed(r) \/ ReleaseClaim(r)
    PROVE  SoldOnce'
<1>1. /\ Typed /\ LogTyped /\ Turn(r) /\ served' = served /\ crashes' = crashes
      /\ overtaken' = overtaken
      /\ q[r].stage \in {"mark", "release"} /\ (Answer(r, "served") \/ Answer(r, "retry"))
      /\ MarkServed(r) => q[r].stage = "mark"
      /\ ReleaseClaim(r) => q[r].stage = "release"
    BY EndTurn DEF PaidInv, Typed, LogTyped, MarkServed, ReleaseClaim, world
<1>2. \A s \in Req : s # r => q'[s] = q[s]
    BY <1>1 DEF Turn, Others
<1>3. q'[r].stage = "idle"
    BY <1>1, AnswerMove DEF Told
<1>4. /\ Settled # {} /\ Settled \in SUBSET DOMAIN log
      /\ Holds(r) => Mine(r) = Settled
      /\ ~Holds(r) => Mine(r) = {}
    BY <1>1, AllMine
<1>5. /\ \A s \in Req : q'[s].stage \in Serving => q[s].stage \in Serving /\ s # r
      /\ \A s \in Req : q'[s].stage \in Calling => q[s].stage \in Calling /\ s # r
    BY <1>2, <1>3 DEF Serving, Calling
<1>6. CASE MarkServed(r) /\ Holds(r)
  <2>1. log' = WithServed(Settled)
    BY <1>4, <1>6 DEF MarkServed, WithServed, Sure, Fault
  <2>2. /\ DOMAIN log' = DOMAIN log
        /\ \A k \in DOMAIN log :
             /\ log'[k].tx = log[k].tx /\ log'[k].claim = log[k].claim
             /\ log'[k].outcome = log[k].outcome
             /\ k \in Settled => log'[k].served = TRUE
    <3>1. LogTyped /\ Settled \in SUBSET DOMAIN log
      BY <1>1, <1>4
    <3>2. QED
      BY <2>1, <3>1, ServedRows
  <2>3. Settled' = Settled
    BY <2>2 DEF Settled, RowsThat
  <2>4. Done'
    BY <1>4, <2>2, <2>3 DEF Done
  <2>5. \A k \in Settled : log'[k].served = TRUE /\ log'[k].claim = r
    BY <1>4, <1>6, <2>2 DEF Holds
  <2>6. \A j, k \in Settled' : log'[j].claim = log'[k].claim /\ log'[j].served = log'[k].served
    BY <2>3, <2>5
  <2>7. \A j \in Settled', k \in DOMAIN log' :
           log'[k].outcome = "ambiguous" => log'[k].tx # log'[j].tx
    BY <1>4, <2>2, <2>3 DEF SoldOnce
  <2>8. \A s \in Req : Holds(s)' => s = r
    BY <1>4, <2>3, <2>5 DEF Holds
  <2>9. Displaced' \subseteq Displaced
    BY <1>4, <1>5, <2>2, <2>3 DEF Displaced
  <2>10. served + Ahead' <= crashes + overtaken + 1
    BY <1>1, <2>9, StillBounded
  <2>11. \A s \in Req : q'[s].stage \in Serving
           => Settled' # {} /\ (Holds(s)' => \A k \in Settled' : ~log'[k].served)
    BY <1>4, <1>5, <2>3, <2>8
  <2>12. QED
    BY <1>1, <2>4, <2>6, <2>7, <2>10, <2>11 DEF SoldOnce
<1>7. CASE ~Holds(r) \/ (ReleaseClaim(r) /\ UNCHANGED log)
  <2>1. SameSettled
    <3>1. CASE UNCHANGED log
      BY <3>1, StillSettled
    <3>2. CASE log' = WithServed(Mine(r)) /\ Mine(r) = {}
      <4>1. Mine(r) \in SUBSET DOMAIN log
        BY <3>2
      <4>2. DOMAIN log' = DOMAIN log /\ \A k \in DOMAIN log : k \notin Mine(r) => log'[k] = log[k]
        BY <1>1, <3>2, <4>1, ServedRows
      <4>3. QED
        BY <3>2, <4>2 DEF SameSettled
    <3>3. CASE log' = WithClaim(Mine(r), Nobody) /\ Mine(r) = {}
      BY <1>1, <3>3, ClaimedRows DEF SameSettled
    <3>4. QED
      BY <1>4, <1>7, <3>1, <3>2, <3>3 DEF MarkServed, ReleaseClaim, WithServed, WithClaim
  <2>2. Settled' = Settled /\ \A k \in Settled : k \in DOMAIN log /\ log'[k] = log[k]
    BY <2>1 DEF Settled, RowsThat, SameSettled
  <2>3. \A s \in Req : Holds(s)' <=> Holds(s)
    BY <2>2 DEF Holds
  <2>4. Done => Done'
    <3>1. ~(q[r].stage = "mark" /\ Holds(r))
      BY <1>1, <1>7
    <3>2. QED
      BY <1>2, <2>2, <2>3, <3>1 DEF Done
  <2>5. \A k \in Settled : tx[log[k].tx] = "landed"
    BY DEF Settled, RowsThat, PaidInv, RowsOk
  <2>6. \A j \in Settled', k \in DOMAIN log' :
          log'[k].outcome = "ambiguous" => log'[k].tx # log'[j].tx
    BY <2>1, <2>2, <2>5 DEF SameSettled, SoldOnce
  <2>7. \A s \in Req : q'[s].stage \in Serving
          => Settled' # {} /\ (Holds(s)' => \A k \in Settled' : ~log'[k].served)
    BY <1>5, <2>2, <2>3 DEF SoldOnce
  <2>8. \A j, k \in Settled' : log'[j].claim = log'[k].claim /\ log'[j].served = log'[k].served
    BY <2>2 DEF SoldOnce
  <2>9. Displaced' \subseteq Displaced
    BY <1>5, <2>2 DEF Displaced
  <2>10. /\ served + Ahead' <= crashes + overtaken + 1
         /\ ~Done' => served + Ahead' <= crashes + overtaken
    BY <1>1, <2>4, <2>9, StillBounded
  <2>11. QED
    BY <1>1, <2>6, <2>7, <2>8, <2>10 DEF SoldOnce
<1>8. CASE ReleaseClaim(r) /\ Holds(r) /\ log' = WithClaim(Settled, Nobody)
  <2>1. /\ DOMAIN log' = DOMAIN log
        /\ \A k \in DOMAIN log :
             /\ log'[k].tx = log[k].tx /\ log'[k].served = log[k].served
             /\ log'[k].outcome = log[k].outcome
             /\ k \in Settled => log'[k].claim = Nobody
    BY <1>1, <1>4, <1>8, ClaimedRows
  <2>2. Settled' = Settled /\ \A k \in Settled : k \in DOMAIN log /\ log'[k].claim = Nobody
    BY <1>4, <2>1 DEF Settled, RowsThat
  <2>3. \A k \in Settled : log[k].claim = r /\ ~log[k].served
    BY <1>1, <1>8 DEF SoldOnce, Holds, Serving
  <2>4. ~Done
    BY <1>1, <1>4, <1>8, <2>3 DEF Done, Holds
  <2>5. \A s \in Req : ~Holds(s)'
    BY <1>4, <2>2, X402Assumption DEF Holds
  <2>6. \A s \in Req : q'[s].stage \in Serving
          => Settled' # {} /\ (Holds(s)' => \A k \in Settled' : ~log'[k].served)
    BY <1>4, <2>2, <2>5
  <2>7. \A j, k \in Settled' : log'[j].claim = log'[k].claim /\ log'[j].served = log'[k].served
    BY <1>4, <2>1, <2>2 DEF SoldOnce
  <2>8. \A j \in Settled', k \in DOMAIN log' :
           log'[k].outcome = "ambiguous" => log'[k].tx # log'[j].tx
    BY <1>4, <2>1, <2>2 DEF SoldOnce
  <2>9. Displaced' \subseteq Displaced
    BY <1>4, <1>5, <2>3 DEF Displaced
  <2>10. /\ served + Ahead' <= crashes + overtaken + 1
         /\ served + Ahead' <= crashes + overtaken
    BY <1>1, <2>4, <2>9, StillBounded
  <2>11. QED
    BY <1>1, <2>6, <2>7, <2>8, <2>10 DEF SoldOnce
<1>9. QED
    BY <1>4, <1>6, <1>7, <1>8 DEF ReleaseClaim, WithClaim

(* The promise of a step that is no call.                                   *)
LEMMA QuietKept ==
    ASSUME UNCHANGED <<setting, crashes, overtaken>>, Paid => Paid',
           ~Sure \/ UNCHANGED served
    PROVE  Kept
<1>1. Fault({"finish", "mark", "stall"})' = Fault({"finish", "mark", "stall"})
    BY DEF Fault, Faults
<1>2. Paid \in BOOLEAN /\ Paid' \in BOOLEAN
    BY DEF Paid
<1>3. CASE Paid' = Paid
    BY <1>1, <1>3 DEF Kept, Sure, Promise!vars
<1>4. CASE ~Paid /\ Paid'
    BY <1>1, <1>4 DEF Kept, Sure, Promise!Next, Promise!Pay
<1>5. QED
    BY <1>2, <1>3, <1>4

LEMMA TurnSold ==
    ASSUME SaleInv, NEW r \in Req, Arrive(r) \/ Handle(r) \/ LeaseEnds(r)
    PROVE  SaleInv' /\ Kept
<1>1. /\ OnceInv /\ OnceInv' /\ PaidInv /\ Turn(r)
    BY TurnRecord, HandleTurn DEF SaleInv, OnceInv
<1>2. /\ setting' = setting /\ crashes' = crashes /\ Sure' = Sure
      /\ Fault({"finish", "mark", "stall"})' = Fault({"finish", "mark", "stall"})
      /\ \A t \in Tx : tx'[t] = "landed" <=> tx[t] = "landed"
    BY <1>1 DEF Turn, Sure, Fault, Faults
<1>3. Paid' = Paid
    BY <1>2 DEF Paid
<1>4. ~Claim(r) => overtaken' = overtaken
    BY DEF Handle, Arrive, LoadSpent, AuthorizationState, Funds, Proof, ReadLog, Look,
           ReadUnused, Simulate, Note, CloseUnsentRow, Send, Wait, Finish, WriteSpentKey, Serve,
           MarkServed, ReleaseClaim, LeaseEnds, world
<1>5. ASSUME Sure
      PROVE  /\ SoldOnce'
             /\ \/ served' = served
                \/ served' = served + 1 /\ served <= crashes + overtaken /\ Paid /\ ~Claim(r)
  <2>1. SoldOnce
    BY <1>5 DEF SaleInv
  <2>2. CASE Arrive(r) \/ LoadSpent(r) \/ AuthorizationState(r) \/ Funds(r) \/ Proof(r)
    <3>1. UNCHANGED <<log, overtaken>> /\ served' = served
      BY <2>2 DEF Arrive, LoadSpent, AuthorizationState, Funds, Proof, world
    <3>2. QED
      BY <1>1, <2>1, <2>2, <3>1, VerifyCalm, StillSettled, QuietSold
  <2>3. CASE ReadLog(r) \/ ReadUnused(r) \/ Simulate(r)
    <3>1. UNCHANGED <<log, overtaken>> /\ served' = served
      BY <2>3 DEF ReadLog, ReadUnused, Simulate, world
    <3>2. QED
      BY <1>1, <2>1, <2>3, <3>1, EarlyCalm, StillSettled, QuietSold
  <2>4. CASE \/ Look(r) \/ Note(r) \/ CloseUnsentRow(r) \/ Send(r) \/ Wait(r) \/ Finish(r)
             \/ Claim(r) \/ WriteSpentKey(r) \/ MarkServed(r) \/ ReleaseClaim(r) \/ LeaseEnds(r)
    <3>1. served' = served
      BY <2>4 DEF Look, Note, CloseUnsentRow, Send, Wait, Finish, Claim, WriteSpentKey,
                  MarkServed, ReleaseClaim, LeaseEnds
    <3>2. QED
      BY <1>1, <1>5, <2>1, <2>4, <3>1, LookSold, NoteSold, CloseSold, FinishSold, ClaimSold,
         KeySold, EndSold
  <2>5. CASE Serve(r)
    <3>1. Paid
      BY <1>1, <2>5 DEF Serve, PaidInv, Knows, HasPay, HasTx, Paid
    <3>2. ~Claim(r)
      BY <2>5 DEF Serve, Claim
    <3>3. QED
      BY <1>1, <2>1, <2>5, <3>1, <3>2, KeySold, ServeSold
  <2>6. QED
    BY <2>2, <2>3, <2>4, <2>5 DEF Handle
<1>6. CASE overtaken' # overtaken
  <2>1. Claim(r) /\ served' = served /\ overtaken' = overtaken + 1
    BY <1>4, <1>6 DEF Claim
  <2>2. overtaken \in Nat /\ crashes \in Nat
    BY <1>1 DEF PaidInv, Typed
  <2>3. Promise!Lapse
    BY <1>2, <1>3, <2>1, <2>2 DEF Promise!Lapse
  <2>4. QED
    BY <1>1, <1>2, <1>5, <2>3 DEF SaleInv, Kept, Promise!Next
<1>7. CASE overtaken' = overtaken /\ (~Sure \/ served' = served)
    BY <1>1, <1>2, <1>3, <1>5, <1>7, QuietKept DEF SaleInv
<1>8. CASE overtaken' = overtaken /\ Sure /\ served' # served
  <2>1. Promise!Serve
    BY <1>2, <1>3, <1>5, <1>8 DEF Promise!Serve, Sure
  <2>2. QED
    BY <1>1, <1>2, <1>5, <1>8, <2>1 DEF SaleInv, Kept, Promise!Next
<1>9. QED
    BY <1>6, <1>7, <1>8

LEMMA WorldSold ==
    ASSUME SaleInv, World
    PROVE  SaleInv' /\ Kept
<1>1. /\ OnceInv /\ OnceInv' /\ PaidInv /\ Typed
      /\ UNCHANGED <<setting, crashes, overtaken, served, q>>
    BY WorldRecord DEF SaleInv, OnceInv, PaidInv, World, Sweep, Land, Vanish, LateCommit, Tick, world
<1>2. Sure' = Sure
    BY <1>1 DEF Sure, Fault, Faults
<1>3. Paid => Paid'
    BY <1>1 DEF Paid, Typed, World, Sweep, Land, Vanish, LateCommit, Tick, world
<1>4. ASSUME Sure PROVE SoldOnce'
  <2>1. SoldOnce /\ Calm
    BY <1>1, <1>4 DEF SaleInv, Calm
  <2>2. CASE UNCHANGED log
    BY <1>1, <2>1, <2>2, StillSettled, SameSold
  <2>3. CASE log' # log
    <3>1. late = {}
      BY <1>1, <1>4 DEF Sure, Fault, OnceInv, Prompt, Recorded
    <3>2. PICK k \in DOMAIN log : Sweep(k)
      BY <2>3, <3>1 DEF World, Land, Vanish, LateCommit, Tick
    <3>3. PICK v \in Verdicts(log[k].tx) : log' = Resolved(log[k].tx, v, Nobody)
      BY <3>2 DEF Sweep
    <3>4. log[k].tx \in Tx
      BY <1>1, <3>2, RowsOf DEF Typed, RowType
    <3>5. /\ v \in {"settled", "reverted", "dropped"}
          /\ v = "settled" => tx[log[k].tx] = "landed"
      BY <1>1, <3>3, <3>4, VerdictTrue
    <3>6. QED
      BY <1>1, <2>1, <3>3, <3>4, <3>5, ResolveSold
  <2>4. QED
    BY <2>2, <2>3
<1>5. QED
    BY <1>1, <1>2, <1>3, <1>4, QuietKept DEF SaleInv

LEMMA RestartSold ==
    ASSUME SaleInv, Restart
    PROVE  SaleInv' /\ Kept
<1>1. /\ OnceInv /\ OnceInv' /\ UNCHANGED <<setting, tx, log, served>>
      /\ q' = [r \in Req |-> Idle] /\ crashes' = crashes + 1 /\ overtaken' = overtaken
      /\ crashes \in Nat /\ overtaken \in Nat /\ served \in Nat
    BY RestartRecord DEF SaleInv, OnceInv, PaidInv, Typed, Restart
<1>2. /\ Sure' = Sure /\ Paid' = Paid
      /\ Fault({"finish", "mark", "stall"})' = Fault({"finish", "mark", "stall"})
    BY <1>1 DEF Sure, Fault, Faults, Paid
<1>3. Promise!Lapse
    BY <1>1, <1>2 DEF Promise!Lapse
<1>4. ASSUME SoldOnce PROVE SoldOnce'
  <2>1. \A r \in Req : q'[r].stage \notin Serving
    BY <1>1, IdleType DEF Serving
  <2>2. Settled' = Settled /\ Displaced' = {}
    BY <1>1, <2>1 DEF Settled, RowsThat, Displaced, Calling, Serving
  <2>3. /\ served' + Ahead' <= crashes' + overtaken'
        /\ served' + Ahead' <= crashes' + overtaken' + 1
    <3>1. Ahead' = 0
      BY <2>2, FS_EmptySet DEF Ahead
    <3>2. Ahead \in Nat /\ served + Ahead <= crashes + overtaken + 1
      BY <1>4, AheadCount DEF SoldOnce
    <3>3. QED
      BY <1>1, <3>1, <3>2
  <2>4. QED
    BY <1>1, <1>4, <2>1, <2>2, <2>3 DEF SoldOnce
<1>5. QED
    BY <1>1, <1>2, <1>3, <1>4 DEF SaleInv, Kept, Promise!Next

LEMMA SaleInit == Init => SaleInv /\ Promise!Init
<1> SUFFICES ASSUME Init PROVE SaleInv /\ Promise!Init
    OBVIOUS
<1>1. OnceInv /\ log = <<>> /\ served = 0 /\ crashes = 0 /\ overtaken = 0
    BY OnceInit DEF Init
<1>2. Settled = {}
    BY <1>1 DEF Settled, RowsThat
<1>3. \A r \in Req : q[r].stage \notin Serving
    BY IdleType DEF Init, Serving
<1>4. SoldOnce
  <2>1. Ahead = 0
    BY <1>2, AheadCount DEF Displaced
  <2>2. QED
    BY <1>1, <1>2, <1>3, <2>1 DEF SoldOnce
<1>5. ~Paid
    BY DEF Init, Paid
<1>6. QED
    BY <1>1, <1>4, <1>5 DEF SaleInv, Promise!Init

LEMMA SaleStep ==
    ASSUME SaleInv, [Next]_vars
    PROVE  SaleInv' /\ Kept
<1>1. CASE UNCHANGED vars
  <2>1. OnceInv'
    BY <1>1, OnceStep DEF SaleInv
  <2>2. Sure' = Sure /\ (Paid => Paid') /\ Calm
    BY <1>1 DEF vars, Sure, Fault, Faults, Paid, Calm
  <2>3. SoldOnce => SoldOnce'
    BY <1>1, <2>2, StillSettled, SameSold DEF vars, SaleInv, OnceInv
  <2>4. QED
    BY <1>1, <2>1, <2>2, <2>3, QuietKept DEF vars, SaleInv
<1>2. QED
    BY <1>1, TurnSold, WorldSold, RestartSold DEF Next, World

(* One payment buys one call, and one more for every restart between an     *)
(* answer and its mark and for every claim taken over from a request that   *)
(* outlived its lease: the facilitator implements PaidOnce, where the writes*)
(* that settle, claim and mark a row do not fail (finish, claim,            *)
(* markSettlementServed, releaseSettlementClaim).                           *)
THEOREM PromiseKept == Spec => KeepsPromise
<1>1. SaleInv /\ [Next]_vars => SaleInv' /\ [Promise!Next]_(Promise!vars)
    BY SaleStep DEF Kept
<1>2. QED
    BY <1>1, SaleInit, PTL DEF Spec, KeepsPromise, Promise!Spec
=============================================================================
