-------------------------- MODULE AgentSpendPolicy --------------------------
(* The policy vault on an EVM chain: the agent's session key (operator)    *)
(* pays within the policy, the human (owner) pays over it, changes it and  *)
(* withdraws. Every transaction is one action; one that reverts changes    *)
(* nothing and is left out. Source: mcp/contracts/AgentSpendPolicy.sol.    *)
EXTENDS Integers

CONSTANTS Address,      \* accounts that may call or be paid
          Owner,        \* the immutable owner
          Payees,       \* accounts the owner may list
          Vault, Usdc,  \* the vault itself and the token contract
          NoAddress,    \* address(0)
          Amount,       \* amounts a caller may pay
          Limit,        \* caps and ceilings the owner may set
          MaxUint,      \* the largest uint256
          DayLength,    \* seconds in a day
          MaxTime,      \* bound: block.timestamp
          MaxSupply     \* bound: USDC in the vault

Day(t) == t \div DayLength
Time   == 0..MaxTime
Days   == {Day(t) : t \in Time}
Uint   == 0..MaxUint

ASSUME PolicyAssumption ==
    /\ Owner \in Address /\ Payees \subseteq Address
    /\ NoAddress \notin Address      \* nobody signs as address(0)
    /\ Vault \notin Address /\ Usdc \notin Address
    /\ MaxUint \in Nat
    /\ Amount \subseteq Uint
    /\ Limit \subseteq Uint
    /\ DayLength \in Nat \ {0}
    /\ MaxTime \in Nat
    /\ MaxSupply \in Nat
    /\ MaxTime <= MaxUint

VARIABLES
    operator, dailyCap, autoApproveMax, frozen, allowlistEnabled,
    sessionKeyExpiry, spentOnDay, allowed,
    now,         \* block.timestamp
    balance,     \* usdc.balanceOf(vault)
    agentPaid,   \* history: what the agent moved, by day
    capSeen      \* history: the largest cap in force, by day

policy  == <<operator, dailyCap, autoApproveMax, frozen, allowlistEnabled,
             sessionKeyExpiry, allowed>>
history == <<agentPaid, capSeen>>
vars    == <<policy, spentOnDay, now, balance, history>>

(* Every account may be a payee, and so may the vault and the token.       *)
Accounts == Address \cup {NoAddress, Vault, Usdc}

TypeOK ==
    /\ operator \in Address \cup {NoAddress}
    /\ dailyCap \in Uint /\ autoApproveMax \in Uint
    /\ frozen \in BOOLEAN /\ allowlistEnabled \in BOOLEAN
    /\ sessionKeyExpiry \in Uint
    /\ spentOnDay \in [Days -> Uint]
    /\ allowed \in SUBSET Payees
    /\ now \in Time
    /\ balance \in 0..MaxSupply
    /\ agentPaid \in [Days -> Nat]
    /\ capSeen \in [Days -> Uint]

(* A cap of zero is no cap.                                                *)
InForce(cap) == IF cap = 0 THEN MaxUint ELSE cap

SeeCap(d, cap) ==
    [capSeen EXCEPT ![d] = IF InForce(cap) > @ THEN InForce(cap) ELSE @]

Init ==
    /\ operator \in Address \cup {NoAddress}
    /\ dailyCap \in Limit
    /\ autoApproveMax \in Limit
    /\ frozen = FALSE
    /\ allowlistEnabled = FALSE
    /\ sessionKeyExpiry = 0
    /\ spentOnDay = [d \in Days |-> 0]
    /\ allowed = {}
    /\ now = 0
    /\ balance = 0
    /\ agentPaid = [d \in Days |-> 0]
    /\ capSeen = [d \in Days |-> IF d = 0 THEN InForce(dailyCap) ELSE 0]

today == Day(now)

-----------------------------------------------------------------------------
(* Mutant: the key's expiry is never looked at.                            *)
KeyLives_Always == TRUE

KeyLives == sessionKeyExpiry = 0 \/ now <= sessionKeyExpiry

(* Mutant: the cap looks at the payment alone.                             *)
UnderCap_ThisPaymentOnly(amount) == dailyCap = 0 \/ amount <= dailyCap

UnderCap(amount) == dailyCap = 0 \/ spentOnDay[today] + amount <= dailyCap

Payable(to) == to \notin {NoAddress, Vault, Usdc}

(* The token moves the balance, and a transfer to the vault itself nothing.*)
Transfer(to, amount) ==
    /\ amount <= balance
    /\ balance' = IF to = Vault THEN balance ELSE balance - amount

(* Mutants: a count that may pass the largest uint; a payment counted for  *)
(* the day after a rounded-up division.                                    *)
Count_Unchecked(amount) == spentOnDay' = [spentOnDay EXCEPT ![today] = @ + amount]

Count_RoundedDay(amount) ==
    LET d == Day(now + DayLength - 1) IN
    /\ d \in Days
    /\ spentOnDay[d] + amount <= MaxUint
    /\ spentOnDay' = [spentOnDay EXCEPT ![d] = @ + amount]

(* Checked arithmetic: a count past the largest uint reverts.              *)
Count(amount) ==
    /\ spentOnDay[today] + amount <= MaxUint
    /\ spentOnDay' = [spentOnDay EXCEPT ![today] = @ + amount]

Pay(sender, to, amount) ==
    /\ sender = operator
    /\ Payable(to)
    /\ ~frozen
    /\ KeyLives
    /\ allowlistEnabled => to \in allowed
    /\ autoApproveMax # 0 => amount <= autoApproveMax
    /\ UnderCap(amount)
    /\ Count(amount)
    /\ Transfer(to, amount)
    /\ agentPaid' = [agentPaid EXCEPT ![today] = @ + amount]
    /\ UNCHANGED <<policy, now, capSeen>>

OwnerPay(sender, to, amount) ==
    /\ sender = Owner
    /\ Payable(to)
    /\ Count(amount)
    /\ Transfer(to, amount)
    /\ UNCHANGED <<policy, now, history>>

SetPolicy(sender, cap, ceiling, listed) ==
    /\ sender = Owner
    /\ dailyCap' = cap
    /\ autoApproveMax' = ceiling
    /\ allowlistEnabled' = listed
    /\ capSeen' = SeeCap(today, cap)
    /\ UNCHANGED <<operator, frozen, sessionKeyExpiry, allowed, spentOnDay, now,
                   balance, agentPaid>>

SetAllowed(sender, payee, ok) ==
    /\ sender = Owner
    /\ allowed' = IF ok THEN allowed \cup {payee} ELSE allowed \ {payee}
    /\ UNCHANGED <<operator, dailyCap, autoApproveMax, frozen, allowlistEnabled,
                   sessionKeyExpiry, spentOnDay, now, balance, history>>

SetOperator(sender, account) ==
    /\ sender = Owner
    /\ operator' = account
    /\ UNCHANGED <<dailyCap, autoApproveMax, frozen, allowlistEnabled,
                   sessionKeyExpiry, allowed, spentOnDay, now, balance, history>>

SetSessionKeyExpiry(sender, expiry) ==
    /\ sender = Owner
    /\ sessionKeyExpiry' = expiry
    /\ UNCHANGED <<operator, dailyCap, autoApproveMax, frozen, allowlistEnabled,
                   allowed, spentOnDay, now, balance, history>>

SetFrozen(sender, on) ==
    /\ sender = Owner
    /\ frozen' = on
    /\ UNCHANGED <<operator, dailyCap, autoApproveMax, allowlistEnabled,
                   sessionKeyExpiry, allowed, spentOnDay, now, balance, history>>

Withdraw(sender, to, amount) ==
    /\ sender = Owner
    /\ Payable(to)
    /\ Transfer(to, amount)
    /\ UNCHANGED <<policy, spentOnDay, now, history>>

-----------------------------------------------------------------------------
(* The chain: anyone may send the vault USDC, and blocks are mined.        *)
Deposit(amount) ==
    /\ balance + amount <= MaxSupply
    /\ balance' = balance + amount
    /\ UNCHANGED <<policy, spentOnDay, now, history>>

Block ==
    /\ now < MaxTime
    /\ now' = now + 1
    /\ capSeen' = SeeCap(Day(now + 1), dailyCap)
    /\ UNCHANGED <<policy, spentOnDay, balance, agentPaid>>

Call(s) ==
    \/ \E to \in Accounts, a \in Amount :
         Pay(s, to, a) \/ OwnerPay(s, to, a) \/ Withdraw(s, to, a)
    \/ \E cap, ceiling \in Limit, listed \in BOOLEAN : SetPolicy(s, cap, ceiling, listed)
    \/ \E payee \in Payees, ok \in BOOLEAN : SetAllowed(s, payee, ok)
    \/ \E account \in Address \cup {NoAddress} : SetOperator(s, account)
    \/ \E expiry \in Time : SetSessionKeyExpiry(s, expiry)
    \/ \E on \in BOOLEAN : SetFrozen(s, on)

Next ==
    \/ \E s \in Address : Call(s)
    \/ \E a \in Amount : Deposit(a)
    \/ Block

Spec == Init /\ [][Next]_vars

-----------------------------------------------------------------------------
(* On any UTC day the agent moves at most the largest cap that was in      *)
(* force that day, whatever the owner pays, raises, lowers or rotates.     *)
AgentWithinCap == \A d \in Days : agentPaid[d] <= capSeen[d]

(* What the agent moved is part of what the day counts, and it is never    *)
(* counted on a day that has not come.                                     *)
AgentIsCounted ==
    \A d \in Days : agentPaid[d] <= spentOnDay[d] /\ (spentOnDay[d] # 0 => d <= today)

Revoked == frozen \/ operator = NoAddress \/ (sessionKeyExpiry # 0 /\ now > sessionKeyExpiry)

(* A revoked key stays revoked and moves nothing until the owner changes   *)
(* one of the three controls again: neither time nor another control       *)
(* brings it back.                                                         *)
RevocationHolds ==
    [][Revoked /\ UNCHANGED <<frozen, operator, sessionKeyExpiry>>
         => Revoked' /\ agentPaid' = agentPaid]_vars
=============================================================================
