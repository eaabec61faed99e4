---------------------------- MODULE Vaults_proofs ----------------------------
(* Proofs about the Solidity vault, for every set of accounts and amounts,   *)
(* every day length and every horizon; and that the contracts of all three   *)
(* chains keep the one policy, for any lifetimes under which a bucket        *)
(* outlives its day.                                                         *)
EXTENDS Vaults, TLAPS

LEMMA DayOfTime == ASSUME NEW t \in Time PROVE Day(t) \in Days
    BY DEF Days

LEMMA TodayType == TypeOK => today \in Days
    BY DayOfTime DEF TypeOK, today

LEMMA InForceType == ASSUME NEW cap \in Uint PROVE InForce(cap) \in Uint
    BY PolicyAssumption DEF Uint, InForce

LEMMA SeeCapType ==
    ASSUME TypeOK, NEW d \in Days, NEW cap \in Uint
    PROVE  /\ SeeCap(d, cap) \in [Days -> Uint]
           /\ SeeCap(d, cap)[d] >= InForce(cap)
           /\ \A e \in Days : SeeCap(d, cap)[e] >= capSeen[e]
<1>1. InForce(cap) \in Uint
    BY InForceType
<1>2. QED
    BY <1>1, PolicyAssumption DEF SeeCap, TypeOK, Uint

(* The transfer keeps the balance within its bounds.                       *)
LEMMA TransferType ==
    ASSUME TypeOK, NEW to, NEW a \in Amount, Transfer(to, a)
    PROVE  balance' \in 0..MaxSupply
    BY PolicyAssumption DEF TypeOK, Transfer, Uint

LEMMA CountType ==
    ASSUME TypeOK, NEW a \in Amount, Count(a)
    PROVE  /\ spentOnDay' \in [Days -> Uint]
           /\ spentOnDay'[today] = spentOnDay[today] + a
           /\ \A d \in Days : spentOnDay'[d] >= spentOnDay[d]
           /\ \A d \in Days : d # today => spentOnDay'[d] = spentOnDay[d]
<1>1. today \in Days
    BY TodayType
<1>2. QED
    BY <1>1, PolicyAssumption DEF TypeOK, Count, Uint

LEMMA InitType == Init => TypeOK
<1> SUFFICES ASSUME Init PROVE TypeOK
    OBVIOUS
<1>1. now \in Time
    BY PolicyAssumption DEF Init, Time
<1>2. \A c \in Limit : InForce(c) \in Uint
    BY PolicyAssumption, InForceType
<1>3. capSeen \in [Days -> Uint]
    BY <1>2, PolicyAssumption DEF Init, Uint
<1>4. 0 \in Uint /\ 0 \in 0..MaxSupply
    BY PolicyAssumption DEF Uint
<1>5. /\ operator \in Address \cup {NoAddress}
      /\ dailyCap \in Uint /\ autoApproveMax \in Uint
      /\ sessionKeyExpiry \in Uint /\ allowed \in SUBSET Payees
    BY <1>4, PolicyAssumption DEF Init
<1>6. spentOnDay \in [Days -> Uint] /\ agentPaid \in [Days -> Nat]
    BY <1>4 DEF Init
<1>7. QED
    BY <1>1, <1>3, <1>4, <1>5, <1>6 DEF Init, TypeOK

(* The invariant behind the cap: what the agent moved on a day is part of  *)
(* that day's count and under the largest cap seen, and today's cap has    *)
(* been seen.                                                              *)
CapInv ==
    /\ TypeOK
    /\ AgentWithinCap
    /\ \A d \in Days : agentPaid[d] <= spentOnDay[d]
    /\ InForce(dailyCap) <= capSeen[today]

LEMMA InitCap == Init => CapInv
<1> SUFFICES ASSUME Init PROVE CapInv
    OBVIOUS
<1>1. TypeOK
    BY InitType
<1>2. today = 0
    BY PolicyAssumption DEF Init, today, Day
<1>3. today \in Days
    BY <1>1, TodayType
<1>4. AgentWithinCap
    BY <1>1 DEF Init, AgentWithinCap, TypeOK, Uint
<1>5. InForce(dailyCap) <= capSeen[today]
    <2>1. InForce(dailyCap) \in Uint /\ capSeen[today] = InForce(dailyCap)
        BY <1>1, <1>2, <1>3, InForceType DEF Init, TypeOK
    <2>2. QED
        BY <2>1, PolicyAssumption DEF Uint
<1>6. QED
    BY <1>1, <1>4, <1>5 DEF Init, CapInv

LEMMA PayCap ==
    ASSUME CapInv, NEW s, NEW to, NEW a \in Amount, Pay(s, to, a)
    PROVE  CapInv'
<1>1. TypeOK /\ today \in Days /\ today' = today
    BY TodayType DEF CapInv, Pay, today
<1>2. /\ spentOnDay' \in [Days -> Uint]
      /\ spentOnDay'[today] = spentOnDay[today] + a
      /\ \A d \in Days : spentOnDay'[d] >= spentOnDay[d]
    BY <1>1, CountType DEF Pay
<1>3. balance' \in 0..MaxSupply
    BY <1>1, TransferType DEF Pay
<1>4. a \in Nat
    BY PolicyAssumption DEF Uint
<1>5. agentPaid' = [agentPaid EXCEPT ![today] = @ + a]
    BY DEF Pay
<1>6. agentPaid' \in [Days -> Nat]
    BY <1>1, <1>4, <1>5 DEF TypeOK
<1>7. UNCHANGED <<policy, now, capSeen>>
    BY DEF Pay
<1>8. TypeOK'
    BY <1>1, <1>2, <1>3, <1>6, <1>7 DEF TypeOK, policy
<1>9. spentOnDay[today] + a <= InForce(dailyCap)
    BY <1>1, <1>4, PolicyAssumption DEF Pay, UnderCap, Count, InForce, TypeOK, Uint
<1>10. \A d \in Days : agentPaid'[d] <= capSeen[d] /\ agentPaid'[d] <= spentOnDay'[d]
    <2>1. agentPaid'[today] <= spentOnDay[today] + a
        BY <1>1, <1>4, <1>5 DEF CapInv, TypeOK, Uint
    <2>2. InForce(dailyCap) \in Uint
        BY <1>1, InForceType DEF TypeOK
    <2>3. agentPaid'[today] <= capSeen[today]
        BY <1>1, <1>4, <1>6, <1>9, <2>1, <2>2, PolicyAssumption DEF CapInv, TypeOK, Uint
    <2>4. ASSUME NEW d \in Days, d # today
          PROVE  agentPaid'[d] <= capSeen[d] /\ agentPaid'[d] <= spentOnDay'[d]
        BY <1>1, <1>2, <1>5, <2>4, PolicyAssumption DEF CapInv, AgentWithinCap, TypeOK, Uint
    <2>5. QED
        BY <1>2, <2>1, <2>3, <2>4
<1>11. QED
    BY <1>1, <1>7, <1>8, <1>10 DEF CapInv, AgentWithinCap, InForce, policy

LEMMA OwnerPayCap ==
    ASSUME CapInv, NEW s, NEW to, NEW a \in Amount, OwnerPay(s, to, a)
    PROVE  CapInv'
<1>1. TypeOK /\ today \in Days /\ today' = today
    BY TodayType DEF CapInv, OwnerPay, today
<1>2. /\ spentOnDay' \in [Days -> Uint]
      /\ \A d \in Days : spentOnDay'[d] >= spentOnDay[d]
    BY <1>1, CountType DEF OwnerPay
<1>3. balance' \in 0..MaxSupply
    BY <1>1, TransferType DEF OwnerPay
<1>4. UNCHANGED <<policy, now, history>>
    BY DEF OwnerPay
<1>5. TypeOK'
    BY <1>1, <1>2, <1>3, <1>4 DEF TypeOK, policy, history
<1>6. \A d \in Days : agentPaid[d] <= spentOnDay'[d]
    BY <1>1, <1>2, PolicyAssumption DEF CapInv, TypeOK, Uint
<1>7. QED
    BY <1>1, <1>4, <1>5, <1>6 DEF CapInv, AgentWithinCap, InForce, policy, history

LEMMA SetPolicyCap ==
    ASSUME CapInv, NEW s, NEW cap \in Limit, NEW ceiling \in Limit, NEW listed \in BOOLEAN,
           SetPolicy(s, cap, ceiling, listed)
    PROVE  CapInv'
<1>1. TypeOK /\ today \in Days /\ today' = today
    BY TodayType DEF CapInv, SetPolicy, today
<1>2. cap \in Uint /\ ceiling \in Uint
    BY PolicyAssumption
<1>3. capSeen' = SeeCap(today, cap) /\ dailyCap' = cap
    BY DEF SetPolicy
<1>4. /\ capSeen' \in [Days -> Uint]
      /\ capSeen'[today] >= InForce(cap)
      /\ \A d \in Days : capSeen'[d] >= capSeen[d]
    BY <1>1, <1>2, <1>3, SeeCapType
<1>5. TypeOK'
    BY <1>1, <1>2, <1>4 DEF TypeOK, SetPolicy
<1>6. agentPaid' = agentPaid /\ spentOnDay' = spentOnDay
    BY DEF SetPolicy
<1>7. \A d \in Days : agentPaid[d] <= capSeen'[d]
    BY <1>1, <1>4, PolicyAssumption DEF CapInv, AgentWithinCap, TypeOK, Uint
<1>8. InForce(cap) \in Uint
    BY <1>2, InForceType
<1>9. InForce(dailyCap)' <= capSeen'[today']
    BY <1>1, <1>3, <1>4, <1>8, PolicyAssumption DEF InForce, Uint
<1>10. QED
    BY <1>5, <1>6, <1>7, <1>9 DEF CapInv, AgentWithinCap

LEMMA BlockCap == ASSUME CapInv, Block PROVE CapInv'
<1>1. TypeOK
    BY DEF CapInv
<1>2. now' \in Time /\ today' = Day(now + 1) /\ today' \in Days
    <2>1. now' = now + 1 /\ now' \in Time
        BY <1>1, PolicyAssumption DEF Block, TypeOK, Time
    <2>2. QED
        BY <2>1, DayOfTime DEF today
<1>3. capSeen' = SeeCap(today', dailyCap)
    BY <1>2 DEF Block
<1>4. /\ capSeen' \in [Days -> Uint]
      /\ capSeen'[today'] >= InForce(dailyCap)
      /\ \A d \in Days : capSeen'[d] >= capSeen[d]
    BY <1>1, <1>2, <1>3, SeeCapType DEF TypeOK
<1>5. UNCHANGED <<policy, spentOnDay, balance, agentPaid>>
    BY DEF Block
<1>6. TypeOK'
    BY <1>1, <1>2, <1>4, <1>5 DEF TypeOK, policy
<1>7. \A d \in Days : agentPaid[d] <= capSeen'[d]
    BY <1>1, <1>4, PolicyAssumption DEF CapInv, AgentWithinCap, TypeOK, Uint
<1>8. InForce(dailyCap) \in Uint
    BY <1>1, InForceType DEF TypeOK
<1>9. InForce(dailyCap)' <= capSeen'[today']
    BY <1>2, <1>4, <1>5, <1>8, PolicyAssumption DEF InForce, Uint, policy
<1>10. QED
    BY <1>5, <1>6, <1>7, <1>9 DEF CapInv, AgentWithinCap

LEMMA StepCap == CapInv /\ [Next]_vars => CapInv'
<1> SUFFICES ASSUME CapInv, [Next]_vars PROVE CapInv'
    OBVIOUS
<1>1. TypeOK
    BY DEF CapInv
<1>2. ASSUME NEW s \in Address, Call(s) PROVE CapInv'
    <2>1. ASSUME NEW to, NEW a \in Amount, Pay(s, to, a) PROVE CapInv'
        BY <2>1, PayCap
    <2>2. ASSUME NEW to, NEW a \in Amount, OwnerPay(s, to, a) PROVE CapInv'
        BY <2>2, OwnerPayCap
    <2>3. ASSUME NEW to, NEW a \in Amount, Withdraw(s, to, a) PROVE CapInv'
        <3>1. balance' \in 0..MaxSupply
            BY <1>1, <2>3, TransferType DEF Withdraw
        <3>2. QED
            BY <2>3, <3>1 DEF Withdraw, CapInv, AgentWithinCap, TypeOK, InForce, today, policy, history
    <2>4. ASSUME NEW cap \in Limit, NEW ceiling \in Limit, NEW listed \in BOOLEAN,
                 SetPolicy(s, cap, ceiling, listed)
          PROVE  CapInv'
        BY <2>4, SetPolicyCap
    <2>5. ASSUME NEW payee \in Payees, NEW ok \in BOOLEAN, SetAllowed(s, payee, ok)
          PROVE  CapInv'
        BY <2>5 DEF SetAllowed, CapInv, AgentWithinCap, TypeOK, InForce, today, history
    <2>6. ASSUME NEW account \in Address \cup {NoAddress}, SetOperator(s, account) PROVE CapInv'
        BY <2>6 DEF SetOperator, CapInv, AgentWithinCap, TypeOK, InForce, today, history
    <2>7. ASSUME NEW expiry \in Time, SetSessionKeyExpiry(s, expiry) PROVE CapInv'
        <3>1. expiry \in Uint
            BY PolicyAssumption DEF Time, Uint
        <3>2. QED
            BY <2>7, <3>1
            DEF SetSessionKeyExpiry, CapInv, AgentWithinCap, TypeOK, InForce, today, history
    <2>8. ASSUME NEW on \in BOOLEAN, SetFrozen(s, on) PROVE CapInv'
        BY <2>8 DEF SetFrozen, CapInv, AgentWithinCap, TypeOK, InForce, today, history
    <2>9. QED
        BY <1>2, <2>1, <2>2, <2>3, <2>4, <2>5, <2>6, <2>7, <2>8 DEF Call
<1>3. ASSUME NEW a \in Amount, Deposit(a) PROVE CapInv'
    <2>1. balance' \in 0..MaxSupply
        BY <1>1, <1>3, PolicyAssumption DEF Deposit, TypeOK, Uint
    <2>2. QED
        BY <1>3, <2>1 DEF Deposit, CapInv, AgentWithinCap, TypeOK, InForce, today, policy, history
<1>4. CASE Block
    BY <1>4, BlockCap
<1>5. CASE UNCHANGED vars
    BY <1>5 DEF vars, policy, history, CapInv, AgentWithinCap, TypeOK, InForce, today
<1>6. QED
    BY <1>2, <1>3, <1>4, <1>5 DEF Next

(* The vault's storage keeps its types through every transaction: no count *)
(* passes the largest uint.                                                *)
THEOREM TypeCorrect == Spec => []TypeOK
<1>1. CapInv => TypeOK
    BY DEF CapInv
<1>2. QED
    BY <1>1, InitCap, StepCap, PTL DEF Spec

(* On any day the agent moves at most the largest cap in force that day,   *)
(* whatever the owner pays, raises, lowers, freezes or rotates meanwhile.  *)
THEOREM AgentCapped == Spec => []AgentWithinCap
<1>1. CapInv => AgentWithinCap
    BY DEF CapInv
<1>2. QED
    BY <1>1, InitCap, StepCap, PTL DEF Spec

(* Days only pass: the day of a later second is no earlier.                *)
LEMMA DayPasses ==
    ASSUME NEW t \in Nat
    PROVE  Day(t) \in Nat /\ Day(t + 1) \in Nat /\ Day(t) <= Day(t + 1)
<1> DEFINE d == DayLength
           m == t \div d
           n == (t + 1) \div d
<1>1. d \in Nat \ {0}
    BY PolicyAssumption
<1>2. m \in Int /\ d * m <= t /\ t < d * (m + 1)
    BY <1>1
<1>3. n \in Int /\ d * n <= t + 1 /\ t + 1 < d * (n + 1)
    BY <1>1
<1>4. m >= 0 /\ n >= 0
    BY <1>1
<1>5. m <= n
    <2>1. SUFFICES ASSUME n + 1 <= m PROVE FALSE
        BY <1>2, <1>3
    <2>2. d * (n + 1) <= d * m
        BY <1>1, <1>2, <1>3, <2>1
    <2> HIDE DEF m, n, d
    <2>3. d * (n + 1) \in Int /\ d * m \in Int
        BY <1>1, <1>2, <1>3
    <2>4. QED
        BY <1>2, <1>3, <2>2, <2>3
<1>6. QED
    BY <1>2, <1>3, <1>4, <1>5 DEF Day

(* Nothing is counted on a day that has not come.                          *)
FutureIsEmpty == \A d \in Days : spentOnDay[d] # 0 => d <= today

LEMMA StepCounted ==
    ASSUME CapInv, FutureIsEmpty, [Next]_vars
    PROVE  FutureIsEmpty'
<1>1. TypeOK /\ today \in Days
    BY TodayType DEF CapInv
<1>2. now \in Nat /\ \A d \in Days : d \in Nat
    <2>1. \A t \in Time : t \in Nat
        BY PolicyAssumption DEF Time
    <2>2. QED
        BY <1>1, <2>1, DayPasses DEF TypeOK, Days
<1>3. today' = today \/ today <= today'
    BY <1>2, DayPasses DEF Next, vars, Call, Pay, OwnerPay, Withdraw, SetPolicy, SetAllowed,
       SetOperator, SetSessionKeyExpiry, SetFrozen, Deposit, Block, today
<1>4. today \in Nat /\ today' \in Nat /\ today <= today'
    <2>1. today \in Nat
        BY <1>1, <1>2
    <2>2. now' \in Nat
        BY <1>2 DEF Next, vars, Call, Pay, OwnerPay, Withdraw, SetPolicy, SetAllowed,
           SetOperator, SetSessionKeyExpiry, SetFrozen, Deposit, Block
    <2>3. QED
        BY <1>3, <2>1, <2>2, DayPasses DEF today
<1>5. \A d \in Days : d # today => spentOnDay'[d] = spentOnDay[d]
    <2>1. ASSUME NEW s \in Address, NEW to \in Accounts, NEW a \in Amount,
                 Pay(s, to, a) \/ OwnerPay(s, to, a)
          PROVE  \A d \in Days : d # today => spentOnDay'[d] = spentOnDay[d]
        BY <1>1, <2>1, CountType DEF Pay, OwnerPay
    <2>2. spentOnDay' = spentOnDay \/
            \E s \in Address, to \in Accounts, a \in Amount : Pay(s, to, a) \/ OwnerPay(s, to, a)
        BY DEF Next, vars, Call, Withdraw, SetPolicy, SetAllowed, SetOperator,
           SetSessionKeyExpiry, SetFrozen, Deposit, Block
    <2>3. QED
        BY <2>1, <2>2
<1>6. QED
    BY <1>1, <1>2, <1>4, <1>5 DEF FutureIsEmpty

(* Every payment of the agent is in its day's count, and no day is counted *)
(* before it comes.                                                        *)
THEOREM AgentCounted == Spec => []AgentIsCounted
<1>1. Init => FutureIsEmpty
    BY DEF Init, FutureIsEmpty
<1>2. CapInv /\ FutureIsEmpty => AgentIsCounted
    BY DEF CapInv, FutureIsEmpty, AgentIsCounted
<1>3. QED
    BY <1>1, <1>2, InitCap, StepCap, StepCounted, PTL DEF Spec

(* A revoked key stays revoked and pays nothing until the owner changes    *)
(* the freeze, the operator or the expiry.                                 *)
THEOREM RevocationKept == Spec => RevocationHolds
<1>1. CapInv /\ [Next]_vars =>
        [Revoked /\ UNCHANGED <<frozen, operator, sessionKeyExpiry>>
           => Revoked' /\ agentPaid' = agentPaid]_vars
    <2> SUFFICES ASSUME CapInv, [Next]_vars, Revoked,
                        UNCHANGED <<frozen, operator, sessionKeyExpiry>>
                 PROVE  Revoked' /\ agentPaid' = agentPaid
        OBVIOUS
    <2>1. now' >= now
        <3>1. now' = now \/ now' = now + 1
            BY DEF Next, vars, Call, Pay, OwnerPay, Withdraw, SetPolicy, SetAllowed, SetOperator,
               SetSessionKeyExpiry, SetFrozen, Deposit, Block
        <3>2. QED
            BY <3>1 DEF CapInv, TypeOK, Time
    <2>2. agentPaid' = agentPaid
        <3>1. ASSUME NEW s \in Address, NEW to, NEW a, Pay(s, to, a) PROVE FALSE
            BY <3>1, PolicyAssumption DEF Pay, KeyLives, Revoked, CapInv, TypeOK, Time, Uint
        <3>2. QED
            BY <3>1 DEF Next, vars, history, Call, OwnerPay, Withdraw, SetPolicy, SetAllowed,
               SetOperator, SetSessionKeyExpiry, SetFrozen, Deposit, Block
    <2>3. Revoked'
        <3>1. sessionKeyExpiry \in Int /\ now \in Int /\ now' \in Int
            BY StepCap, PolicyAssumption DEF CapInv, TypeOK, Time, Uint
        <3>2. QED
            BY <2>1, <3>1 DEF Revoked
    <2>4. QED
        BY <2>2, <2>3
<1>2. QED
    BY <1>1, InitCap, StepCap, PTL DEF Spec, RevocationHolds

-----------------------------------------------------------------------------
(* The promise of the three contracts.                                      *)
(* A call is signed by whoever makes it, and the world signs nothing.        *)
LEMMA Signers ==
    ASSUME NEW s \in Address
    PROVE  s # NoAddress
    BY PolicyAssumption

LEMMA AmountType == ASSUME NEW a \in Amount \cup {0} PROVE a \in Nat /\ a <= MaxUint
    BY PolicyAssumption DEF Uint

(* A ceiling of zero lets any amount pass, any other only what is within it. *)
LEMMA WithinForce ==
    ASSUME NEW cap \in Uint, NEW n \in Uint, cap # 0 => n <= cap
    PROVE  n <= InForce(cap)
    BY PolicyAssumption DEF InForce, Uint

-----------------------------------------------------------------------------
(* The Solidity vault. The proofs of its own module give what it counts.     *)
EvmInv == CapInv /\ FutureIsEmpty

LEMMA EvmInit == VaultsInit => EvmInv /\ EvmPolicy!Init
<1> SUFFICES ASSUME VaultsInit PROVE EvmInv /\ EvmPolicy!Init
    OBVIOUS
<1>1. CapInv
    BY InitCap DEF VaultsInit
<1>2. FutureIsEmpty
    BY DEF VaultsInit, Init, FutureIsEmpty
<1>3. today \in Days
    BY <1>1, TodayType DEF CapInv
<1>4. agentPaid[today] = 0
    BY <1>3 DEF VaultsInit, Init
<1>5. QED
    BY <1>1, <1>2, <1>4 DEF EvmInv, EvmPolicy!Init, SignedOn, VaultsInit

LEMMA EvmNext == [VaultsNext]_vaultsVars => [Next]_vars
    BY DEF VaultsNext, vaultsVars, EvmStep, StellarStep, AlgorandStep, Next

LEMMA EvmInvKept == EvmInv /\ [VaultsNext]_vaultsVars => EvmInv'
    BY EvmNext, StepCap, StepCounted DEF EvmInv

LEMMA EvmPay ==
    ASSUME EvmInv, NEW s \in Address, NEW to, NEW a \in Amount, Pay(s, to, a),
           chain = "evm", chain' = "evm", signer' = s
    PROVE  EvmPolicy!AgentPays
<1>1. TypeOK /\ today \in Days /\ today' = today
    BY TodayType DEF EvmInv, CapInv, Pay, today
<1>2. a \in Nat /\ a <= MaxUint
    BY AmountType
<1>3. agentPaid[today] \in Nat /\ agentPaid'[today] = agentPaid[today] + a
    BY <1>1, <1>2 DEF Pay, TypeOK
<1>4. /\ spentOnDay[today] \in Uint /\ agentPaid[today] <= spentOnDay[today]
      /\ spentOnDay[today] + a \in Uint
      /\ dailyCap \in Uint /\ autoApproveMax \in Uint
    BY <1>1, <1>2, PolicyAssumption DEF EvmInv, CapInv, TypeOK, Pay, Count, Uint
<1>5. spentOnDay[today] + a <= InForce(dailyCap)
    BY <1>4, WithinForce DEF Pay, UnderCap
<1>6. a <= InForce(autoApproveMax)
    BY <1>2, <1>4, WithinForce DEF Pay, Uint
<1>7. InForce(dailyCap) \in Nat /\ InForce(autoApproveMax) \in Nat
    BY <1>4, InForceType DEF Uint
<1>8. agentPaid'[today] <= InForce(dailyCap)
    BY <1>2, <1>3, <1>4, <1>5, <1>7 DEF Uint
<1>9. agentPaid[today] <= agentPaid'[today] /\ agentPaid'[today] <= agentPaid[today] + InForce(autoApproveMax)
    BY <1>2, <1>3, <1>6, <1>7
<1>10. s = operator /\ operator # NoAddress /\ ~frozen /\ KeyLives
    BY Signers DEF Pay
<1>11. UNCHANGED <<InForce(dailyCap), InForce(autoApproveMax), frozen, KeyLives, operator>>
    BY DEF Pay, policy, InForce, KeyLives
<1>12. QED
    BY <1>1, <1>8, <1>9, <1>10, <1>11 DEF EvmPolicy!AgentPays, SignedOn

LEMMA EvmOwner ==
    ASSUME EvmInv, NEW s \in Address, Call(s), ~(\E to \in Accounts, a \in Amount : Pay(s, to, a)),
           chain = "evm", chain' = "evm", signer' = s
    PROVE  EvmPolicy!OwnerRules
<1>1. s = Owner /\ UNCHANGED <<now, agentPaid>>
    BY DEF Call, OwnerPay, Withdraw, SetPolicy, SetAllowed, SetOperator, SetSessionKeyExpiry,
           SetFrozen, history
<1>2. QED
    BY <1>1 DEF EvmPolicy!OwnerRules, SignedOn, today

LEMMA EvmTime ==
    ASSUME EvmInv, EvmInv', (\E a \in Amount : Deposit(a)) \/ Block,
           chain = "evm", chain' = "evm", signer' = NoAddress
    PROVE  EvmPolicy!TimePasses
<1>1. TypeOK /\ now \in Nat /\ today \in Days /\ today' \in Days
    BY DayOfTime, PolicyAssumption DEF EvmInv, CapInv, TypeOK, Time, today
<1>2. UNCHANGED <<policy, agentPaid, spentOnDay>>
    BY DEF Deposit, Block, history
<1>3. now' = now \/ now' = now + 1
    BY DEF Deposit, Block
<1>4. today \in Nat /\ today' \in Nat /\ today <= today'
    BY <1>1, <1>3, DayPasses DEF today
<1>5. today' # today => agentPaid[today'] = 0
    BY <1>1, <1>2, <1>4 DEF EvmInv, CapInv, FutureIsEmpty, TypeOK, Uint
<1>6. sessionKeyExpiry \in Nat
    BY <1>1 DEF TypeOK, Uint
<1>7. KeyLives' => KeyLives
    BY <1>1, <1>2, <1>3, <1>6 DEF KeyLives, policy
<1>8. UNCHANGED <<InForce(dailyCap), InForce(autoApproveMax), frozen, operator>>
    BY <1>2 DEF policy, InForce
<1>9. agentPaid'[today'] = IF today' = today THEN agentPaid[today] ELSE 0
    BY <1>2, <1>5
<1>10. QED
    BY <1>4, <1>7, <1>8, <1>9 DEF EvmPolicy!TimePasses, SignedOn

LEMMA EvmKeeps ==
    EvmInv /\ EvmInv' /\ [VaultsNext]_vaultsVars => [EvmPolicy!Next]_(EvmPolicy!vars)
<1> SUFFICES ASSUME EvmInv, EvmInv', [VaultsNext]_vaultsVars
             PROVE  [EvmPolicy!Next]_(EvmPolicy!vars)
    OBVIOUS
<1>1. CASE chain = "evm" /\ chain' = "evm" /\ EvmStep
    <2>1. ASSUME NEW s \in Address, Call(s), signer' = s PROVE EvmPolicy!Next
        <3>1. CASE \E to \in Accounts, a \in Amount : Pay(s, to, a)
            BY <1>1, <2>1, <3>1, EvmPay DEF EvmPolicy!Next
        <3>2. CASE ~(\E to \in Accounts, a \in Amount : Pay(s, to, a))
            BY <1>1, <2>1, <3>2, EvmOwner DEF EvmPolicy!Next
        <3>3. QED
            BY <3>1, <3>2
    <2>2. ASSUME (\E a \in Amount : Deposit(a)) \/ Block, signer' = NoAddress PROVE EvmPolicy!Next
        BY <1>1, <2>2, EvmTime DEF EvmPolicy!Next
    <2>3. QED
        BY <1>1, <2>1, <2>2 DEF EvmStep
<1>2. CASE UNCHANGED <<vars, chain>> /\ (chain = "evm" => UNCHANGED signer)
    BY <1>2 DEF EvmPolicy!vars, vars, policy, history, today, InForce, KeyLives, SignedOn
<1>3. QED
    BY <1>1, <1>2 DEF VaultsNext, vaultsVars, StellarStep, AlgorandStep
-----------------------------------------------------------------------------
(* The Soroban vault. A bucket that counts something outlives its day, and   *)
(* what the agent moved today is part of what the bucket counts.             *)
Outlives ==
    bucket.day = ledger.day /\ bucket.spent > 0 => bucket.life >= SorobanDay - 1 - ledger.unit

StellarInv ==
    /\ Soroban!TypeOK
    /\ bucket.day <= ledger.day
    /\ bucket.life >= 0 => bucket.spent > 0
    /\ Outlives
    /\ moved <= IF bucket.day = ledger.day THEN bucket.spent ELSE 0

LEMMA StellarInit == VaultsInit => StellarInv /\ StellarPolicy!Init
<1> SUFFICES ASSUME VaultsInit PROVE StellarInv /\ StellarPolicy!Init
    OBVIOUS
<1>1. \A cap \in Limit : cap \in Uint
    BY PolicyAssumption
<1>2. Soroban!TypeOK
    BY <1>1, PolicyAssumption, VaultsAssumption
    DEF VaultsInit, Soroban!Init, Soroban!TypeOK, Soroban!Int128, Uint
<1>3. QED
    BY <1>2 DEF VaultsInit, Soroban!Init, StellarInv, Outlives, StellarPolicy!Init, SignedOn

(* What is read back of today's count is at least what the agent moved, and  *)
(* a bucket of today that counts something is there to be read.              *)
LEMMA BucketRead ==
    ASSUME StellarInv
    PROVE  /\ moved <= Soroban!get_spent_on_day
           /\ Soroban!get_spent_on_day \in Uint
           /\ bucket.day = ledger.day /\ bucket.spent > 0 => Soroban!Kept
<1>1. ledger.unit \in Int /\ ledger.unit <= SorobanDay - 1
    BY VaultsAssumption DEF StellarInv, Soroban!TypeOK
<1>2. bucket.spent \in Uint /\ bucket.life \in Int /\ moved \in Nat /\ 0 \in Uint
    BY PolicyAssumption DEF StellarInv, Soroban!TypeOK, Soroban!Int128, Uint
<1>3. bucket.day = ledger.day /\ bucket.spent > 0 => bucket.life >= 0
    BY <1>1, <1>2, VaultsAssumption DEF StellarInv, Outlives
<1>4. QED
    BY <1>2, <1>3 DEF StellarInv, Soroban!Kept, Soroban!get_spent_on_day, Uint

LEMMA StellarSettle ==
    ASSUME StellarInv, NEW to, NEW a \in Amount \cup {0}, Soroban!settle(to, a)
    PROVE  /\ moved' \in Nat => Soroban!TypeOK'
           /\ bucket'.day = ledger.day
           /\ bucket'.spent = Soroban!get_spent_on_day + a
           /\ bucket'.spent > 0
           /\ bucket'.life >= SorobanDay - 1 - ledger.unit
           /\ ledger' = ledger
           /\ instance' = instance
<1>1. a \in Nat /\ a > 0 /\ a <= MaxUint
    BY AmountType DEF Soroban!settle, Soroban!Transfer
<1>2. Soroban!get_spent_on_day \in Nat /\ Soroban!get_spent_on_day + a <= MaxUint
    BY BucketRead DEF Soroban!settle, Uint
<1>3. UNCHANGED <<instance, allowlist, ledger>>
    BY DEF Soroban!settle
<1>4. ledger.unit \in Nat /\ ledger.unit <= SorobanDay - 1 /\ ledger.day \in 0..MaxDay
    BY VaultsAssumption DEF StellarInv, Soroban!TypeOK
<1>5. bucket.life \in Int
    BY DEF StellarInv, Soroban!TypeOK
<1> DEFINE life == IF Soroban!Kept THEN bucket.life ELSE MinLife
           next == IF life <= LifeThreshold THEN LifeExtend ELSE life
<1>6. bucket' = [day |-> ledger.day, spent |-> Soroban!get_spent_on_day + a, life |-> next]
    BY DEF Soroban!settle, Soroban!set_spent_on_day
<1>7. life \in Int /\ next \in Int
    BY <1>5, VaultsAssumption
<1>8. next >= SorobanDay - 1 - ledger.unit
    <2>1. CASE life <= LifeThreshold
        BY <2>1, <1>4, VaultsAssumption
    <2>2. CASE ~(life <= LifeThreshold)
        <3>1. Soroban!Kept
            BY <2>2, VaultsAssumption
        <3>2. QED
            BY <2>2, <3>1, <1>4, <1>5 DEF StellarInv, Outlives, Soroban!Kept
    <2>3. QED
        BY <2>1, <2>2
<1>9. funds' \in 0..MaxSupply
    BY <1>1, PolicyAssumption DEF StellarInv, Soroban!TypeOK, Soroban!settle, Soroban!Transfer
<1>10. bucket' \in [day : 0..MaxDay, spent : Soroban!Int128, life : Int]
    <2>1. Soroban!get_spent_on_day + a \in Soroban!Int128
        BY <1>1, <1>2, PolicyAssumption DEF Soroban!Int128
    <2> HIDE DEF next
    <2>2. QED
        BY <1>4, <1>6, <1>7, <2>1
<1>11. moved' \in Nat => Soroban!TypeOK'
    BY <1>3, <1>9, <1>10 DEF StellarInv, Soroban!TypeOK
<1>12. Soroban!get_spent_on_day + a > 0
    BY <1>1, <1>2
<1> HIDE DEF next
<1>13. QED
    BY <1>3, <1>6, <1>8, <1>11, <1>12

LEMMA StellarSpend ==
    ASSUME StellarInv, NEW to, NEW a \in Amount \cup {0}, Soroban!settle(to, a),
           moved' \in {moved, moved + a}
    PROVE  StellarInv'
<1>1. a \in Nat /\ moved \in Nat
    BY AmountType DEF StellarInv, Soroban!TypeOK
<1>2. Soroban!TypeOK'
    BY <1>1, StellarSettle
<1>3. moved' <= bucket'.spent
    BY <1>1, BucketRead, StellarSettle DEF Uint
<1>4. ledger.day \in Int
    BY DEF StellarInv, Soroban!TypeOK
<1>5. QED
    BY <1>2, <1>3, <1>4, StellarSettle DEF StellarInv, Outlives

LEMMA StellarConfigure ==
    ASSUME StellarInv, NEW s, NEW settings, Soroban!Configure(s, settings),
           settings \in [operator : Soroban!Accounts \ {Owner}, dailyCap : Soroban!Int128,
                         autoApproveMax : Soroban!Int128, frozen : BOOLEAN,
                         allowlistEnabled : BOOLEAN, sessionKeyExpiry : Nat]
    PROVE  StellarInv'
    BY DEF StellarInv, Outlives, Soroban!TypeOK, Soroban!Configure

LEMMA StellarCallKept ==
    ASSUME StellarInv, NEW s \in Address, Soroban!Call(s)
    PROVE  StellarInv'
<1>1. \A cap \in Limit : cap \in Soroban!Int128
    BY PolicyAssumption DEF Soroban!Int128, Uint
<1>2. Soroban!Time \subseteq Nat
    BY DEF Soroban!Time
<1>3. ASSUME NEW to, NEW a \in Amount \cup {0},
             Soroban!pay(s, to, a) \/ Soroban!owner_pay(s, to, a)
      PROVE  StellarInv'
    BY <1>3, StellarSpend DEF Soroban!pay, Soroban!owner_pay
<1>4. ASSUME NEW to, NEW a \in Amount \cup {0}, Soroban!withdraw(s, to, a) PROVE StellarInv'
    <2>1. a \in Nat
        BY AmountType
    <2>2. funds' \in 0..MaxSupply
        BY <1>4, <2>1, PolicyAssumption
        DEF Soroban!withdraw, Soroban!Transfer, StellarInv, Soroban!TypeOK
    <2>3. QED
        BY <1>4, <2>2 DEF Soroban!withdraw, StellarInv, Outlives, Soroban!TypeOK
<1>5. ASSUME NEW cap \in Limit, NEW ceiling \in Limit, NEW listed \in BOOLEAN,
             Soroban!set_policy(s, cap, ceiling, listed)
      PROVE  StellarInv'
    BY <1>1, <1>5, StellarConfigure DEF Soroban!set_policy, StellarInv, Soroban!TypeOK
<1>6. ASSUME NEW account \in Soroban!Accounts, Soroban!set_operator(s, account) PROVE StellarInv'
    BY <1>6, StellarConfigure DEF Soroban!set_operator, StellarInv, Soroban!TypeOK
<1>7. ASSUME NEW expiry \in Soroban!Time, Soroban!set_session_key_expiry(s, expiry)
      PROVE  StellarInv'
    BY <1>2, <1>7, StellarConfigure DEF Soroban!set_session_key_expiry, StellarInv, Soroban!TypeOK
<1>8. ASSUME NEW on \in BOOLEAN, Soroban!set_frozen(s, on) PROVE StellarInv'
    BY <1>8, StellarConfigure DEF Soroban!set_frozen, StellarInv, Soroban!TypeOK
<1>9. ASSUME NEW payee \in Payees, NEW ok \in BOOLEAN, Soroban!set_allowed(s, payee, ok)
      PROVE  StellarInv'
    BY <1>9 DEF Soroban!set_allowed, StellarInv, Outlives, Soroban!TypeOK
<1>10. QED
    BY <1>3, <1>4, <1>5, <1>6, <1>7, <1>8, <1>9 DEF Soroban!Call

LEMMA StellarWorldKept ==
    ASSUME StellarInv, Soroban!World
    PROVE  StellarInv'
<1>1. /\ ledger.unit \in Nat /\ ledger.unit <= SorobanDay - 1
      /\ ledger.day \in 0..MaxDay /\ bucket.day \in Nat
      /\ bucket.life \in Int /\ bucket.spent \in Nat /\ moved \in Nat
    BY VaultsAssumption, PolicyAssumption DEF StellarInv, Soroban!TypeOK, Soroban!Int128
<1>2. ASSUME NEW a \in Amount, Soroban!Deposit(a) PROVE StellarInv'
    <2>1. funds' \in 0..MaxSupply
        BY <1>2, AmountType, PolicyAssumption DEF Soroban!Deposit, StellarInv, Soroban!TypeOK
    <2>2. QED
        BY <1>2, <2>1 DEF Soroban!Deposit, StellarInv, Outlives, Soroban!TypeOK
<1>3. CASE Soroban!ExtendBucket
    <2>1. bucket' = [bucket EXCEPT !.life = LifeExtend] /\ bucket.life >= 0
        BY <1>3, VaultsAssumption DEF Soroban!ExtendBucket
    <2>2. /\ bucket'.day = bucket.day /\ bucket'.spent = bucket.spent
          /\ bucket'.life = LifeExtend
          /\ bucket' \in [day : 0..MaxDay, spent : Soroban!Int128, life : Int]
        BY <2>1, VaultsAssumption DEF StellarInv, Soroban!TypeOK
    <2>3. LifeExtend >= SorobanDay - 1 - ledger.unit
        BY <1>1, VaultsAssumption
    <2>4. QED
        BY <1>3, <2>1, <2>2, <2>3 DEF Soroban!ExtendBucket, StellarInv, Outlives, Soroban!TypeOK
<1>4. ASSUME Soroban!Ages
      PROVE  /\ bucket'.day = bucket.day /\ bucket'.spent = bucket.spent
             /\ bucket'.life = IF bucket.life >= 0 THEN bucket.life - 1 ELSE bucket.life
             /\ bucket' \in [day : 0..MaxDay, spent : Soroban!Int128, life : Int]
    BY <1>1, <1>4 DEF Soroban!Ages, StellarInv, Soroban!TypeOK
<1>5. ASSUME NEW units \in 1..(SorobanDay - 1), Soroban!CloseWithinDay(units) PROVE StellarInv'
    <2>1. /\ ledger'.day = ledger.day /\ ledger'.unit = ledger.unit + units
          /\ ledger' \in [day : 0..MaxDay, unit : 0..(SorobanDay - 1)]
        BY <1>1, <1>5, VaultsAssumption DEF Soroban!CloseWithinDay, StellarInv, Soroban!TypeOK
    <2>2. Outlives'
        BY <1>1, <1>4, <1>5, <2>1, VaultsAssumption DEF Soroban!CloseWithinDay, StellarInv, Outlives
    <2>3. QED
        BY <1>1, <1>4, <1>5, <2>1, <2>2 DEF Soroban!CloseWithinDay, StellarInv, Soroban!TypeOK
<1>6. ASSUME NEW unit \in 0..(SorobanDay - 1), Soroban!CloseAfterMidnight(unit) PROVE StellarInv'
    <2>1. /\ ledger'.day = ledger.day + 1
          /\ ledger' \in [day : 0..MaxDay, unit : 0..(SorobanDay - 1)]
        BY <1>1, <1>6, VaultsAssumption DEF Soroban!CloseAfterMidnight
    <2>2. bucket'.day # ledger'.day /\ bucket'.day <= ledger'.day
        BY <1>1, <1>4, <1>6, <2>1 DEF Soroban!CloseAfterMidnight, StellarInv
    <2>3. QED
        BY <1>1, <1>4, <1>6, <2>1, <2>2
        DEF Soroban!CloseAfterMidnight, StellarInv, Outlives, Soroban!TypeOK
<1>7. QED
    BY <1>2, <1>3, <1>5, <1>6 DEF Soroban!World

LEMMA StellarInvKept == StellarInv /\ [VaultsNext]_vaultsVars => StellarInv'
<1> SUFFICES ASSUME StellarInv, [VaultsNext]_vaultsVars PROVE StellarInv'
    OBVIOUS
<1>1. CASE StellarStep
    BY <1>1, StellarCallKept, StellarWorldKept DEF StellarStep
<1>2. CASE UNCHANGED sorobanVars
    BY <1>2 DEF sorobanVars, StellarInv, Outlives, Soroban!TypeOK
<1>3. QED
    BY <1>1, <1>2 DEF VaultsNext, vaultsVars, EvmStep, AlgorandStep

LEMMA StellarPay ==
    ASSUME StellarInv, NEW s \in Address, NEW to, NEW a \in Amount \cup {0},
           Soroban!pay(s, to, a), chain = "stellar", chain' = "stellar", signer' = s
    PROVE  StellarPolicy!AgentPays
<1>1. a \in Uint /\ a \in Nat
    BY AmountType DEF Uint
<1>2. Soroban!settle(to, a) /\ moved' = moved + a /\ moved \in Nat
    BY DEF Soroban!pay, StellarInv, Soroban!TypeOK
<1>3. UNCHANGED <<ledger, instance>>
    BY <1>2, StellarSettle
<1>4. instance.dailyCap \in Uint /\ instance.autoApproveMax \in Uint
    BY DEF StellarInv, Soroban!TypeOK, Soroban!Int128, Uint
<1>5. /\ moved <= Soroban!get_spent_on_day /\ Soroban!get_spent_on_day \in Nat
      /\ Soroban!get_spent_on_day + a \in Uint
    BY <1>1, <1>2, BucketRead DEF Soroban!settle, Uint
<1>6. Soroban!get_spent_on_day + a <= InForce(instance.dailyCap)
    BY <1>4, <1>5, WithinForce DEF Soroban!pay, Soroban!UnderCap
<1>7. a <= InForce(instance.autoApproveMax)
    BY <1>1, <1>4, WithinForce DEF Soroban!pay
<1>8. InForce(instance.dailyCap) \in Nat /\ InForce(instance.autoApproveMax) \in Nat
    BY <1>4, InForceType DEF Uint
<1>9. /\ moved <= moved' /\ moved' <= moved + InForce(instance.autoApproveMax)
      /\ moved' <= InForce(instance.dailyCap)
    BY <1>1, <1>2, <1>5, <1>6, <1>7, <1>8
<1>10. s = instance.operator /\ instance.operator # NoAddress /\ ~instance.frozen /\ Soroban!KeyLives
    BY Signers DEF Soroban!pay
<1>11. UNCHANGED <<InForce(instance.dailyCap), InForce(instance.autoApproveMax), Soroban!KeyLives>>
    BY <1>3 DEF InForce, Soroban!KeyLives, Soroban!timestamp
<1>12. QED
    BY <1>3, <1>9, <1>10, <1>11 DEF StellarPolicy!AgentPays, SignedOn

LEMMA StellarOwner ==
    ASSUME StellarInv, NEW s \in Address, Soroban!Call(s),
           ~(\E to \in Soroban!Accounts, a \in Amount \cup {0} : Soroban!pay(s, to, a)),
           chain = "stellar", chain' = "stellar", signer' = s
    PROVE  StellarPolicy!OwnerRules
<1>1. s = Owner /\ UNCHANGED <<ledger, moved>>
    BY DEF Soroban!Call, Soroban!owner_pay, Soroban!settle, Soroban!withdraw, Soroban!Configure,
           Soroban!set_policy, Soroban!set_operator, Soroban!set_session_key_expiry,
           Soroban!set_frozen, Soroban!set_allowed
<1>2. QED
    BY <1>1 DEF StellarPolicy!OwnerRules, SignedOn

(* A later ledger has a later timestamp.                                     *)
LEMMA TimestampGrows ==
    ASSUME StellarInv, Soroban!World
    PROVE  /\ ledger.day \in Nat /\ ledger'.day \in Nat /\ ledger.day <= ledger'.day
           /\ moved' = IF ledger'.day = ledger.day THEN moved ELSE 0
           /\ Soroban!timestamp \in Nat /\ Soroban!timestamp' \in Nat
           /\ Soroban!timestamp <= Soroban!timestamp'
<1> DEFINE D == SorobanDay
           d == ledger.day
           u == ledger.unit
<1>1. D \in Nat \ {0} /\ d \in Nat /\ u \in Nat /\ u <= D - 1
    BY VaultsAssumption DEF StellarInv, Soroban!TypeOK
<1>2. d * D \in Nat /\ (d + 1) * D = d * D + D
    BY <1>1
<1>3. Soroban!timestamp = d * D + u
    BY DEF Soroban!timestamp
<1>4. CASE ledger' = ledger
    BY <1>1, <1>2, <1>3, <1>4
    DEF Soroban!timestamp, Soroban!World, Soroban!Deposit, Soroban!ExtendBucket,
        Soroban!CloseWithinDay, Soroban!CloseAfterMidnight
<1>5. ASSUME NEW units \in 1..(D - 1), Soroban!CloseWithinDay(units)
      PROVE  /\ ledger'.day = d /\ ledger'.unit = u + units /\ moved' = moved
    BY <1>5 DEF Soroban!CloseWithinDay, StellarInv, Soroban!TypeOK
<1>6. ASSUME NEW unit \in 0..(D - 1), Soroban!CloseAfterMidnight(unit)
      PROVE  ledger'.day = d + 1 /\ ledger'.unit = unit /\ moved' = 0
    BY <1>6 DEF Soroban!CloseAfterMidnight
<1>7. Soroban!timestamp' = ledger'.day * D + ledger'.unit
    BY DEF Soroban!timestamp
<1>8. CASE \E units \in 1..(D - 1) : Soroban!CloseWithinDay(units)
    <2>1. PICK units \in 1..(D - 1) : Soroban!CloseWithinDay(units)
        BY <1>8
    <2>2. ledger'.day = d /\ ledger'.unit = u + units /\ moved' = moved
        BY <1>5, <2>1
    <2>3. Soroban!timestamp' = d * D + (u + units)
        BY <1>7, <2>2
    <2>4. QED
        BY <1>1, <1>2, <1>3, <2>2, <2>3
<1>9. CASE \E unit \in 0..(D - 1) : Soroban!CloseAfterMidnight(unit)
    <2>1. PICK unit \in 0..(D - 1) : Soroban!CloseAfterMidnight(unit)
        BY <1>9
    <2>2. ledger'.day = d + 1 /\ ledger'.unit = unit /\ moved' = 0
        BY <1>6, <2>1
    <2>3. Soroban!timestamp' = (d * D + D) + unit
        BY <1>2, <1>7, <2>2
    <2>4. QED
        BY <1>1, <1>2, <1>3, <2>2, <2>3
<1>10. QED
    BY <1>4, <1>8, <1>9 DEF Soroban!World, Soroban!Deposit, Soroban!ExtendBucket

LEMMA StellarTime ==
    ASSUME StellarInv, Soroban!World, chain = "stellar", chain' = "stellar", signer' = NoAddress
    PROVE  StellarPolicy!TimePasses
<1>1. instance' = instance
    BY DEF Soroban!World, Soroban!Deposit, Soroban!ExtendBucket, Soroban!CloseWithinDay,
           Soroban!CloseAfterMidnight
<1>2. instance.sessionKeyExpiry \in Nat
    BY DEF StellarInv, Soroban!TypeOK
<1>3. Soroban!KeyLives' => Soroban!KeyLives
    BY <1>1, <1>2, TimestampGrows DEF Soroban!KeyLives
<1>4. QED
    BY <1>1, <1>3, TimestampGrows DEF StellarPolicy!TimePasses, SignedOn, InForce

LEMMA StellarKeeps ==
    StellarInv /\ [VaultsNext]_vaultsVars => [StellarPolicy!Next]_(StellarPolicy!vars)
<1> SUFFICES ASSUME StellarInv, [VaultsNext]_vaultsVars
             PROVE  [StellarPolicy!Next]_(StellarPolicy!vars)
    OBVIOUS
<1>1. CASE chain = "stellar" /\ chain' = "stellar" /\ StellarStep
    <2>1. ASSUME NEW s \in Address, Soroban!Call(s), signer' = s PROVE StellarPolicy!Next
        <3>1. CASE \E to \in Soroban!Accounts, a \in Amount \cup {0} : Soroban!pay(s, to, a)
            BY <1>1, <2>1, <3>1, StellarPay DEF StellarPolicy!Next
        <3>2. CASE ~(\E to \in Soroban!Accounts, a \in Amount \cup {0} : Soroban!pay(s, to, a))
            BY <1>1, <2>1, <3>2, StellarOwner DEF StellarPolicy!Next
        <3>3. QED
            BY <3>1, <3>2
    <2>2. ASSUME Soroban!World, signer' = NoAddress PROVE StellarPolicy!Next
        BY <1>1, <2>2, StellarTime DEF StellarPolicy!Next
    <2>3. QED
        BY <1>1, <2>1, <2>2 DEF StellarStep
<1>2. CASE UNCHANGED <<sorobanVars, chain>> /\ (chain = "stellar" => UNCHANGED signer)
    BY <1>2
    DEF StellarPolicy!vars, sorobanVars, InForce, Soroban!KeyLives, Soroban!timestamp, SignedOn
<1>3. QED
    BY <1>1, <1>2 DEF VaultsNext, vaultsVars, EvmStep, AlgorandStep

-----------------------------------------------------------------------------
(* The Algorand vault. The count is of the day it names, and what the agent  *)
(* moved today is part of it.                                                *)
AlgorandInv ==
    /\ Algorand!TypeOK
    /\ global.day <= latest
    /\ sent <= IF global.day = latest THEN global.spent_today ELSE 0

LEMMA AlgorandInit == VaultsInit => AlgorandInv /\ AlgorandPolicy!Init
<1> SUFFICES ASSUME VaultsInit PROVE AlgorandInv /\ AlgorandPolicy!Init
    OBVIOUS
<1>1. \A cap \in Limit : cap \in Uint
    BY PolicyAssumption
<1>2. 0 \in 0..MaxUint /\ 0 \in 0..MaxDay /\ 0 \in 0..MaxSupply /\ 0 \in Nat
    BY PolicyAssumption, VaultsAssumption
<1>3. PICK op \in Address \cup {NoAddress}, cap \in Limit, ceiling \in Limit :
        global = [operator |-> op, daily_cap |-> cap, auto_approve_max |-> ceiling,
                  spent_today |-> 0, day |-> 0, frozen |-> FALSE, allowlist_enabled |-> FALSE]
    BY DEF VaultsInit, Algorand!Init
<1>4. cap \in 0..MaxUint /\ ceiling \in 0..MaxUint
    BY <1>1 DEF Uint
<1>5. global \in [operator : Address \cup {NoAddress}, daily_cap : 0..MaxUint,
                  auto_approve_max : 0..MaxUint, spent_today : 0..MaxUint, day : 0..MaxDay,
                  frozen : BOOLEAN, allowlist_enabled : BOOLEAN]
    BY <1>2, <1>3, <1>4
<1>6. boxes = {} /\ optedIn = FALSE /\ latest = 0 /\ holding = 0 /\ sent = 0
    BY DEF VaultsInit, Algorand!Init
<1>7. Algorand!TypeOK
    BY <1>2, <1>5, <1>6 DEF Algorand!TypeOK, Algorand!Uint
<1>8. QED
    BY <1>7 DEF VaultsInit, Algorand!Init, AlgorandInv, AlgorandPolicy!Init, SignedOn

LEMMA CountRead ==
    ASSUME AlgorandInv
    PROVE  sent <= Algorand!SpentToday /\ Algorand!SpentToday \in Nat /\ sent \in Nat
    BY PolicyAssumption DEF AlgorandInv, Algorand!TypeOK, Algorand!Uint, Algorand!SpentToday

LEMMA SendType ==
    ASSUME AlgorandInv, NEW to, NEW a \in Amount \cup {0}, Algorand!_send(to, a)
    PROVE  holding' \in 0..MaxSupply
    BY AmountType, PolicyAssumption DEF Algorand!_send, AlgorandInv, Algorand!TypeOK

LEMMA AlgorandSpend ==
    ASSUME AlgorandInv, NEW to, NEW a \in Amount \cup {0}, Algorand!Spend(to, a),
           sent' \in {sent, sent + a}
    PROVE  AlgorandInv'
<1>1. a \in Nat /\ latest \in 0..MaxDay
    BY AmountType DEF AlgorandInv, Algorand!TypeOK
<1>2. holding' \in 0..MaxSupply
    BY SendType DEF Algorand!Spend
<1>3. Algorand!SpentToday + a \in Algorand!Uint
    BY <1>1, CountRead, PolicyAssumption DEF Algorand!Spend, Algorand!Uint
<1>4. /\ global'.day = latest /\ global'.spent_today = Algorand!SpentToday + a
      /\ global' \in [operator : Address \cup {NoAddress}, daily_cap : Algorand!Uint,
                      auto_approve_max : Algorand!Uint, spent_today : Algorand!Uint,
                      day : 0..MaxDay, frozen : BOOLEAN, allowlist_enabled : BOOLEAN]
    BY <1>1, <1>3 DEF Algorand!Spend, AlgorandInv, Algorand!TypeOK
<1>5. sent' <= Algorand!SpentToday + a /\ sent' \in Nat
    BY <1>1, CountRead
<1>6. QED
    BY <1>1, <1>2, <1>4, <1>5 DEF Algorand!Spend, AlgorandInv, Algorand!TypeOK

LEMMA AlgorandConfigure ==
    ASSUME AlgorandInv, NEW s, NEW state, Algorand!Configure(s, state),
           state \in [operator : Address \cup {NoAddress}, daily_cap : Algorand!Uint,
                      auto_approve_max : Algorand!Uint, spent_today : Algorand!Uint,
                      day : 0..MaxDay, frozen : BOOLEAN, allowlist_enabled : BOOLEAN],
           state.day = global.day, state.spent_today = global.spent_today
    PROVE  AlgorandInv'
    BY DEF AlgorandInv, Algorand!TypeOK, Algorand!Configure

LEMMA AlgorandCallKept ==
    ASSUME AlgorandInv, NEW s \in Address, Algorand!Call(s)
    PROVE  AlgorandInv'
<1>1. \A cap \in Limit : cap \in Algorand!Uint
    BY PolicyAssumption DEF Algorand!Uint, Uint
<1>2. ASSUME NEW to, NEW a \in Amount \cup {0}, Algorand!pay(s, to, a) \/ Algorand!owner_pay(s, to, a)
      PROVE  AlgorandInv'
    BY <1>2, AlgorandSpend DEF Algorand!pay, Algorand!owner_pay
<1>3. ASSUME NEW to, NEW a \in Amount \cup {0}, Algorand!withdraw(s, to, a) PROVE AlgorandInv'
    BY <1>3, SendType DEF Algorand!withdraw, AlgorandInv, Algorand!TypeOK
<1>4. ASSUME Algorand!opt_in_asset(s) PROVE AlgorandInv'
    BY <1>4 DEF Algorand!opt_in_asset, AlgorandInv, Algorand!TypeOK
<1>5. ASSUME NEW cap \in Limit, NEW ceiling \in Limit, NEW listed \in BOOLEAN,
             Algorand!set_policy(s, cap, ceiling, listed)
      PROVE  AlgorandInv'
    BY <1>1, <1>5, AlgorandConfigure DEF Algorand!set_policy, AlgorandInv, Algorand!TypeOK
<1>6. ASSUME NEW on \in BOOLEAN, Algorand!set_frozen(s, on) PROVE AlgorandInv'
    BY <1>6, AlgorandConfigure DEF Algorand!set_frozen, AlgorandInv, Algorand!TypeOK
<1>7. ASSUME NEW account \in Address \cup {NoAddress}, Algorand!set_operator(s, account)
      PROVE  AlgorandInv'
    BY <1>7, AlgorandConfigure DEF Algorand!set_operator, AlgorandInv, Algorand!TypeOK
<1>8. ASSUME NEW payee \in Payees, NEW ok \in BOOLEAN, Algorand!set_allowed(s, payee, ok)
      PROVE  AlgorandInv'
    BY <1>8 DEF Algorand!set_allowed, AlgorandInv, Algorand!TypeOK
<1>9. QED
    BY <1>2, <1>3, <1>4, <1>5, <1>6, <1>7, <1>8 DEF Algorand!Call

LEMMA AlgorandWorldKept ==
    ASSUME AlgorandInv, Algorand!World
    PROVE  AlgorandInv'
<1>1. latest \in 0..MaxDay /\ global.day \in Nat
    BY DEF AlgorandInv, Algorand!TypeOK
<1>2. ASSUME NEW a \in Amount, Algorand!Deposit(a) PROVE AlgorandInv'
    <2>1. holding' \in 0..MaxSupply
        BY <1>2, AmountType, PolicyAssumption DEF Algorand!Deposit, AlgorandInv, Algorand!TypeOK
    <2>2. QED
        BY <1>2, <2>1 DEF Algorand!Deposit, AlgorandInv, Algorand!TypeOK
<1>3. CASE Algorand!Midnight
    BY <1>1, <1>3, VaultsAssumption DEF Algorand!Midnight, AlgorandInv, Algorand!TypeOK
<1>4. QED
    BY <1>2, <1>3 DEF Algorand!World

LEMMA AlgorandInvKept == AlgorandInv /\ [VaultsNext]_vaultsVars => AlgorandInv'
<1> SUFFICES ASSUME AlgorandInv, [VaultsNext]_vaultsVars PROVE AlgorandInv'
    OBVIOUS
<1>1. CASE AlgorandStep
    BY <1>1, AlgorandCallKept, AlgorandWorldKept DEF AlgorandStep
<1>2. CASE UNCHANGED algorandVars
    BY <1>2 DEF algorandVars, AlgorandInv, Algorand!TypeOK
<1>3. QED
    BY <1>1, <1>2 DEF VaultsNext, vaultsVars, EvmStep, StellarStep

LEMMA AlgorandPay ==
    ASSUME AlgorandInv, NEW s \in Address, NEW to, NEW a \in Amount \cup {0},
           Algorand!pay(s, to, a), chain = "algorand", chain' = "algorand", signer' = s
    PROVE  AlgorandPolicy!AgentPays
<1>1. a \in Nat /\ sent' = sent + a
    BY AmountType DEF Algorand!pay
<1>2. sent' <= global.daily_cap /\ a <= global.auto_approve_max
    BY <1>1, CountRead, PolicyAssumption DEF Algorand!pay, AlgorandInv, Algorand!TypeOK, Algorand!Uint
<1>3. global.auto_approve_max \in Nat
    BY DEF AlgorandInv, Algorand!TypeOK, Algorand!Uint
<1>4. sent <= sent' /\ sent' <= sent + global.auto_approve_max
    BY <1>1, <1>2, <1>3, CountRead
<1>5. /\ s = global.operator /\ global.operator # NoAddress /\ ~global.frozen
      /\ latest' = latest
    BY Signers DEF Algorand!pay, Algorand!Spend
<1>6. /\ global'.daily_cap = global.daily_cap
      /\ global'.auto_approve_max = global.auto_approve_max
      /\ global'.frozen = global.frozen /\ global'.operator = global.operator
    BY DEF Algorand!pay, Algorand!Spend, AlgorandInv, Algorand!TypeOK
<1>7. QED
    BY <1>2, <1>4, <1>5, <1>6 DEF AlgorandPolicy!AgentPays, SignedOn

LEMMA AlgorandKeeps ==
    AlgorandInv /\ [VaultsNext]_vaultsVars => [AlgorandPolicy!Next]_(AlgorandPolicy!vars)
<1> SUFFICES ASSUME AlgorandInv, [VaultsNext]_vaultsVars
             PROVE  [AlgorandPolicy!Next]_(AlgorandPolicy!vars)
    OBVIOUS
<1>1. CASE chain = "algorand" /\ chain' = "algorand" /\ AlgorandStep
    <2>1. ASSUME NEW s \in Address, Algorand!Call(s), signer' = s PROVE AlgorandPolicy!Next
        <3>1. CASE \E to \in Address \cup {Vault}, a \in Amount \cup {0} : Algorand!pay(s, to, a)
            BY <1>1, <2>1, <3>1, AlgorandPay DEF AlgorandPolicy!Next
        <3>2. CASE ~(\E to \in Address \cup {Vault}, a \in Amount \cup {0} : Algorand!pay(s, to, a))
            <4>1. s = Owner /\ UNCHANGED <<latest, sent>>
                BY <2>1, <3>2
                DEF Algorand!Call, Algorand!owner_pay, Algorand!Spend, Algorand!withdraw,
                    Algorand!opt_in_asset, Algorand!Configure, Algorand!set_policy,
                    Algorand!set_frozen, Algorand!set_operator, Algorand!set_allowed
            <4>2. QED
                BY <1>1, <2>1, <4>1 DEF AlgorandPolicy!Next, AlgorandPolicy!OwnerRules, SignedOn
        <3>3. QED
            BY <3>1, <3>2
    <2>2. ASSUME Algorand!World, signer' = NoAddress PROVE AlgorandPolicy!Next
        <3>1. latest \in Nat
            BY DEF AlgorandInv, Algorand!TypeOK
        <3>2. /\ latest <= latest' /\ global' = global
              /\ sent' = IF latest' = latest THEN sent ELSE 0
            BY <2>2, <3>1 DEF Algorand!World, Algorand!Deposit, Algorand!Midnight
        <3>3. QED
            BY <1>1, <2>2, <3>2 DEF AlgorandPolicy!Next, AlgorandPolicy!TimePasses, SignedOn
    <2>3. QED
        BY <1>1, <2>1, <2>2 DEF AlgorandStep
<1>2. CASE UNCHANGED <<algorandVars, chain>> /\ (chain = "algorand" => UNCHANGED signer)
    BY <1>2 DEF AlgorandPolicy!vars, algorandVars, SignedOn
<1>3. QED
    BY <1>1, <1>2 DEF VaultsNext, vaultsVars, EvmStep, StellarStep

-----------------------------------------------------------------------------
(* On every chain the agent moves money only with an armed key, within the   *)
(* cap and the ceiling in force, and only the owner changes the rules: what  *)
(* pay and the owner's calls of the three contracts promise.                 *)
THEOREM PolicyKept == VaultsSpec => KeepsPolicy
<1>1. VaultsSpec => EvmPolicy!Spec
    BY EvmInit, EvmInvKept, EvmKeeps, PTL DEF VaultsSpec, EvmPolicy!Spec
<1>2. VaultsSpec => StellarPolicy!Spec
    BY StellarInit, StellarInvKept, StellarKeeps, PTL DEF VaultsSpec, StellarPolicy!Spec
<1>3. VaultsSpec => AlgorandPolicy!Spec
    BY AlgorandInit, AlgorandInvKept, AlgorandKeeps, PTL DEF VaultsSpec, AlgorandPolicy!Spec
<1>4. QED
    BY <1>1, <1>2, <1>3 DEF KeepsPolicy
=============================================================================
