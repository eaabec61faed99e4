------------------------------ MODULE PaidOnce ------------------------------
(* What a seller promises for one payment authorization, whatever happens  *)
(* between the buyer, the server and the chain: it is paid at most once,   *)
(* nothing is served before it is paid, and it buys one call. Every lapse  *)
(* of the server's memory may cost one call more.                          *)
EXTENDS Naturals

VARIABLES paid, calls, lapses

vars == <<paid, calls, lapses>>

Init == ~paid /\ calls = 0 /\ lapses = 0

Pay   == ~paid /\ paid' /\ UNCHANGED <<calls, lapses>>
Serve == paid /\ calls <= lapses /\ calls' = calls + 1 /\ UNCHANGED <<paid, lapses>>
Lapse == lapses' = lapses + 1 /\ UNCHANGED <<paid, calls>>

Next == Pay \/ Serve \/ Lapse

Spec == Init /\ [][Next]_vars
=============================================================================
