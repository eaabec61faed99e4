---------------------------- MODULE SpendPromise ----------------------------
(* What one spend instruction promises, whatever rail it takes and however  *)
(* often it is approved, rejected, executed and forgotten: one payment of   *)
(* it moves money at most; its record says settled only of money that moved *)
(* and closed only of money that did not and never will; and what the       *)
(* record says in the end it keeps saying, unless a restart forgets it. A   *)
(* record that was given up says that money may still move.                 *)
EXTENDS Naturals

CONSTANT Payments

VARIABLES moved,      \* the payments that moved money
          record,     \* "open", "settled", "closed" or "unresolved"
          restarts    \* how often the record was read back from storage

vars == <<moved, record, restarts>>

Init == moved = {} /\ record = "open" /\ restarts = 0

Move == /\ moved = {}
        /\ record \in {"open", "unresolved"}
        /\ \E p \in Payments : moved' = {p}
        /\ UNCHANGED <<record, restarts>>

End(say) == record = "open" /\ record' = say /\ UNCHANGED <<moved, restarts>>

Settle == moved # {} /\ End("settled")
Close  == moved = {} /\ End("closed")
GiveUp == End("unresolved")

Restart == /\ restarts' = restarts + 1
           /\ record' \in {record, "open"}
           /\ UNCHANGED moved

Next == Move \/ Settle \/ Close \/ GiveUp \/ Restart

Spec == Init /\ [][Next]_vars
=============================================================================
