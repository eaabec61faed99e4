----------------------------- MODULE SpendPolicy -----------------------------
(* What the policy vault of every chain promises its owner: the agent's key *)
(* moves money only while it is armed, never past the cap in force on what  *)
(* it moves in a day or past the ceiling on one payment, and nobody but the *)
(* owner changes the rules or arms the key again.                           *)
EXTENDS Naturals

CONSTANTS Owner, Nobody

VARIABLES
    day,            \* the UTC day of the chain's clock
    paid,           \* what the agent moved that day
    cap, ceiling, armed, operator,
    signer          \* who signed the last transaction, Nobody for the world

vars == <<day, paid, cap, ceiling, armed, operator, signer>>

Init == paid = 0 /\ signer = Nobody

AgentPays ==
    /\ armed
    /\ operator # Nobody /\ signer' = operator
    /\ paid <= paid' /\ paid' <= paid + ceiling
    /\ paid' <= cap
    /\ UNCHANGED <<day, cap, ceiling, armed, operator>>

OwnerRules == signer' = Owner /\ UNCHANGED <<day, paid>>

TimePasses ==
    /\ signer' = Nobody
    /\ day <= day'
    /\ paid' = IF day' = day THEN paid ELSE 0
    /\ armed' => armed
    /\ UNCHANGED <<cap, ceiling, operator>>

Next == AgentPays \/ OwnerRules \/ TimePasses

Spec == Init /\ [][Next]_vars
=============================================================================
