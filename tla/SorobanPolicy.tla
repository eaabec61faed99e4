---------------------------- MODULE SorobanPolicy ----------------------------
(* The policy vault on Stellar. It keeps its settings for good but the count *)
(* of a day in a temporary entry, which the network drops when its lifetime  *)
(* in ledgers runs out. An invocation is one action; one that fails is       *)
(* rolled back and left out. Source: soroban/contracts/agent-spend-policy.   *)
EXTENDS Integers

CONSTANTS Address, Owner, Payees, Vault, Token, Amount, Limit,
          MaxInt,         \* the largest i128
          DayLength,      \* ledgers that may close in a day: its length in
                          \* units of the shortest time between two
          MinLife,        \* what the network gives a new temporary entry
          LifeThreshold,  \* DAY_BUCKET_TTL_THRESHOLD
          LifeExtend,     \* DAY_BUCKET_TTL_EXTEND
          MaxDay,         \* bound: days
          MaxSupply       \* bound: tokens in the vault

VARIABLES
    instance,    \* the instance storage
    allowlist,   \* the payees with an entry Allowed(payee)
    bucket,      \* SpentOnDay of the last day written: count and lifetime
    ledger,      \* the ledger's timestamp: day and units of the day
    funds,       \* the vault's balance of the token
    moved        \* history: what the agent moved today

vars == <<instance, allowlist, bucket, ledger, funds, moved>>

Accounts == Address \cup {Vault, Token}
Int128   == 0..MaxInt
Time     == 0..((MaxDay + 1) * DayLength - 1)

TypeOK ==
    /\ instance \in [operator : Accounts \ {Owner}, dailyCap : Int128, autoApproveMax : Int128,
                     frozen : BOOLEAN, allowlistEnabled : BOOLEAN, sessionKeyExpiry : Nat]
    /\ allowlist \in SUBSET Payees
    /\ bucket \in [day : 0..MaxDay, spent : Int128, life : Int]
    /\ ledger \in [day : 0..MaxDay, unit : 0..(DayLength - 1)]
    /\ funds \in 0..MaxSupply
    /\ moved \in Nat

Init ==
    /\ \E operator \in Accounts \ {Owner}, cap, ceiling \in Limit :
         instance = [operator |-> operator, dailyCap |-> cap, autoApproveMax |-> ceiling,
                     frozen |-> FALSE, allowlistEnabled |-> FALSE, sessionKeyExpiry |-> 0]
    /\ allowlist = {}
    /\ bucket = [day |-> 0, spent |-> 0, life |-> -1]
    /\ ledger = [day |-> 0, unit |-> 0]
    /\ funds = 0 /\ moved = 0

timestamp == ledger.day * DayLength + ledger.unit

-----------------------------------------------------------------------------
(* A bucket the network dropped reads as zero.                              *)
Kept == bucket.day = ledger.day /\ bucket.life >= 0
get_spent_on_day == IF Kept THEN bucket.spent ELSE 0

(* Mutant: the write leaves the entry the lifetime the network gave it.      *)
set_spent_on_day_Unextended(total) ==
    bucket' = [day |-> ledger.day, spent |-> total, life |-> IF Kept THEN bucket.life ELSE MinLife]

(* The write keeps the lifetime of an entry that is there, and extends it   *)
(* when no more than the threshold is left.                                 *)
set_spent_on_day(total) ==
    LET life == IF Kept THEN bucket.life ELSE MinLife IN
    bucket' = [day |-> ledger.day, spent |-> total,
               life |-> IF life <= LifeThreshold THEN LifeExtend ELSE life]

KeyLives == instance.sessionKeyExpiry = 0 \/ timestamp <= instance.sessionKeyExpiry

UnderCap(amount) ==
    instance.dailyCap = 0 \/ get_spent_on_day + amount <= instance.dailyCap

Transfer(to, amount) ==
    /\ amount > 0
    /\ to \notin {Vault, Token}
    /\ amount <= funds
    /\ funds' = funds - amount

settle(to, amount) ==
    /\ Transfer(to, amount)
    /\ get_spent_on_day + amount <= MaxInt
    /\ set_spent_on_day(get_spent_on_day + amount)
    /\ UNCHANGED <<instance, allowlist, ledger>>

pay(sender, to, amount) ==
    /\ sender = instance.operator
    /\ ~instance.frozen
    /\ KeyLives
    /\ instance.allowlistEnabled => to \in allowlist
    /\ instance.autoApproveMax # 0 => amount <= instance.autoApproveMax
    /\ UnderCap(amount)
    /\ settle(to, amount)
    /\ moved' = moved + amount

owner_pay(sender, to, amount) ==
    sender = Owner /\ settle(to, amount) /\ UNCHANGED moved

withdraw(sender, to, amount) ==
    /\ sender = Owner
    /\ Transfer(to, amount)
    /\ UNCHANGED <<instance, allowlist, bucket, ledger, moved>>

Configure(sender, settings) ==
    /\ sender = Owner
    /\ instance' = settings
    /\ UNCHANGED <<allowlist, bucket, ledger, funds, moved>>

set_policy(sender, cap, ceiling, listed) ==
    Configure(sender, [instance EXCEPT !.dailyCap = cap, !.autoApproveMax = ceiling,
                                       !.allowlistEnabled = listed])

set_operator(sender, account) ==
    account # Owner /\ Configure(sender, [instance EXCEPT !.operator = account])

set_session_key_expiry(sender, expiry) ==
    Configure(sender, [instance EXCEPT !.sessionKeyExpiry = expiry])

set_frozen(sender, on) == Configure(sender, [instance EXCEPT !.frozen = on])

set_allowed(sender, payee, ok) ==
    /\ sender = Owner
    /\ allowlist' = IF ok THEN allowlist \cup {payee} ELSE allowlist \ {payee}
    /\ UNCHANGED <<instance, bucket, ledger, funds, moved>>

Call(s) ==
    \/ \E to \in Accounts, a \in Amount \cup {0} : pay(s, to, a) \/ owner_pay(s, to, a) \/ withdraw(s, to, a)
    \/ \E cap, ceiling \in Limit, listed \in BOOLEAN : set_policy(s, cap, ceiling, listed)
    \/ \E account \in Accounts : set_operator(s, account)
    \/ \E expiry \in Time : set_session_key_expiry(s, expiry)
    \/ \E on \in BOOLEAN : set_frozen(s, on)
    \/ \E payee \in Payees, ok \in BOOLEAN : set_allowed(s, payee, ok)

-----------------------------------------------------------------------------
(* The network: anyone may send the vault tokens or prolong an entry that   *)
(* is there, and ledgers close, each at least one unit after the last.      *)
Deposit(amount) ==
    /\ funds + amount <= MaxSupply
    /\ funds' = funds + amount
    /\ UNCHANGED <<instance, allowlist, bucket, ledger, moved>>

ExtendBucket ==
    /\ bucket.life \in 0..(LifeExtend - 1)
    /\ bucket' = [bucket EXCEPT !.life = LifeExtend]
    /\ UNCHANGED <<instance, allowlist, ledger, funds, moved>>

Ages == bucket' = [bucket EXCEPT !.life = IF @ >= 0 THEN @ - 1 ELSE @]

CloseWithinDay(units) ==
    /\ ledger.unit + units < DayLength
    /\ ledger' = [ledger EXCEPT !.unit = @ + units]
    /\ Ages
    /\ UNCHANGED <<instance, allowlist, funds, moved>>

CloseAfterMidnight(unit) ==
    /\ ledger.day < MaxDay
    /\ ledger' = [day |-> ledger.day + 1, unit |-> unit]
    /\ Ages
    /\ moved' = 0
    /\ UNCHANGED <<instance, allowlist, funds>>

World ==
    \/ \E a \in Amount : Deposit(a)
    \/ ExtendBucket
    \/ \E units \in 1..(DayLength - 1) : CloseWithinDay(units)
    \/ \E unit \in 0..(DayLength - 1) : CloseAfterMidnight(unit)
=============================================================================
