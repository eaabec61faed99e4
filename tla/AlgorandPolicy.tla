--------------------------- MODULE AlgorandPolicy ---------------------------
(* The policy vault on Algorand: one count, reset by the first payment of a  *)
(* new day. An application call is one action; one an assert refuses is left *)
(* out. Source: algorand/contracts/agent-spend-policy/contract.py.           *)
EXTENDS Integers

CONSTANTS Address, Owner, Payees, Vault, Nobody, Amount, Limit,
          MaxUint,      \* the largest uint64
          MaxDay,       \* bound: days
          MaxSupply     \* bound: USDC in the application

VARIABLES
    global,      \* the application's global state
    boxes,       \* the payees whose box holds b"1"
    optedIn,     \* the application account holds the asset
    latest,      \* latest_timestamp, in days
    holding,     \* the application's USDC
    sent         \* history: what the agent moved today

vars == <<global, boxes, optedIn, latest, holding, sent>>

Uint == 0..MaxUint

TypeOK ==
    /\ global \in [operator : Address \cup {Nobody}, daily_cap : Uint, auto_approve_max : Uint,
                   spent_today : Uint, day : 0..MaxDay, frozen : BOOLEAN,
                   allowlist_enabled : BOOLEAN]
    /\ boxes \in SUBSET Payees
    /\ optedIn \in BOOLEAN
    /\ latest \in 0..MaxDay
    /\ holding \in 0..MaxSupply
    /\ sent \in Nat

Init ==
    /\ \E operator \in Address \cup {Nobody}, cap, ceiling \in Limit :
         /\ ceiling <= cap
         /\ global = [operator |-> operator, daily_cap |-> cap, auto_approve_max |-> ceiling,
                      spent_today |-> 0, day |-> 0, frozen |-> FALSE, allowlist_enabled |-> FALSE]
    /\ boxes = {}
    /\ optedIn = FALSE
    /\ latest = 0
    /\ holding = 0 /\ sent = 0

-----------------------------------------------------------------------------
(* What _roll_day leaves: the count of today, nothing on a new day.          *)
SpentToday == IF global.day = latest THEN global.spent_today ELSE 0

(* An inner transfer of the asset; one to the application moves nothing.     *)
_send(to, amount) ==
    /\ optedIn
    /\ amount <= holding
    /\ holding' = IF to = Vault THEN holding ELSE holding - amount

Spend(to, amount) ==
    /\ amount > 0
    /\ SpentToday + amount <= MaxUint
    /\ global' = [global EXCEPT !.day = latest, !.spent_today = SpentToday + amount]
    /\ _send(to, amount)
    /\ UNCHANGED <<boxes, optedIn, latest>>

pay(sender, to, amount) ==
    /\ sender = global.operator
    /\ ~global.frozen
    /\ amount <= global.auto_approve_max
    /\ SpentToday + amount <= global.daily_cap
    /\ global.allowlist_enabled => to \in boxes
    /\ Spend(to, amount)
    /\ sent' = sent + amount

owner_pay(sender, to, amount) == sender = Owner /\ Spend(to, amount) /\ UNCHANGED sent

withdraw(sender, to, amount) ==
    /\ sender = Owner
    /\ _send(to, amount)
    /\ UNCHANGED <<global, boxes, optedIn, latest, sent>>

opt_in_asset(sender) ==
    /\ sender = Owner
    /\ optedIn' = TRUE
    /\ UNCHANGED <<global, boxes, latest, holding, sent>>

Configure(sender, state) ==
    /\ sender = Owner
    /\ global' = state
    /\ UNCHANGED <<boxes, optedIn, latest, holding, sent>>

set_policy(sender, cap, ceiling, listed) ==
    /\ ceiling <= cap
    /\ Configure(sender, [global EXCEPT !.daily_cap = cap, !.auto_approve_max = ceiling,
                                        !.allowlist_enabled = listed])

set_frozen(sender, on) == Configure(sender, [global EXCEPT !.frozen = on])

set_operator(sender, account) == Configure(sender, [global EXCEPT !.operator = account])

set_allowed(sender, payee, ok) ==
    /\ sender = Owner
    /\ boxes' = IF ok THEN boxes \cup {payee} ELSE boxes \ {payee}
    /\ UNCHANGED <<global, optedIn, latest, holding, sent>>

Call(s) ==
    \/ \E to \in Address \cup {Vault}, a \in Amount \cup {0} :
         pay(s, to, a) \/ owner_pay(s, to, a) \/ withdraw(s, to, a)
    \/ opt_in_asset(s)
    \/ \E cap, ceiling \in Limit, listed \in BOOLEAN : set_policy(s, cap, ceiling, listed)
    \/ \E on \in BOOLEAN : set_frozen(s, on)
    \/ \E account \in Address \cup {Nobody} : set_operator(s, account)
    \/ \E payee \in Payees, ok \in BOOLEAN : set_allowed(s, payee, ok)

-----------------------------------------------------------------------------
(* The chain: anyone may send USDC once the application takes it, and the    *)
(* day of the latest block changes.                                          *)
Deposit(amount) ==
    /\ optedIn
    /\ holding + amount <= MaxSupply
    /\ holding' = holding + amount
    /\ UNCHANGED <<global, boxes, optedIn, latest, sent>>

Midnight ==
    /\ latest < MaxDay
    /\ latest' = latest + 1
    /\ sent' = 0
    /\ UNCHANGED <<global, boxes, optedIn, holding>>

World == (\E a \in Amount : Deposit(a)) \/ Midnight
=============================================================================
