------------------------------ MODULE LossyStore ------------------------------
(* What the platform may count on of its storage: a document that grows in *)
(* memory and comes back after a restart as storage has it, where storage  *)
(* is behind but never loses what a caller was told is there, unless a     *)
(* write that was given up on strayed in.                                  *)
EXTENDS Naturals

CONSTANT Changes

VARIABLES doc, disk, acked, strayed

vars == <<doc, disk, acked, strayed>>

Init == doc = {} /\ disk = {} /\ acked = {} /\ strayed = FALSE

Change ==
    /\ \E e \in Changes \ doc : doc' = doc \cup {e}
    /\ UNCHANGED <<disk, acked, strayed>>

Write ==
    /\ disk' \in SUBSET doc
    /\ strayed \/ disk \subseteq disk'
    /\ UNCHANGED <<doc, acked, strayed>>

Acknowledge ==
    /\ acked' \in SUBSET Changes
    /\ acked \subseteq acked'
    /\ strayed \/ acked' \subseteq acked \cup disk
    /\ UNCHANGED <<doc, disk, strayed>>

Stray ==
    /\ disk' \in SUBSET Changes
    /\ strayed' = TRUE
    /\ UNCHANGED <<doc, acked>>

Reload == doc' = disk /\ UNCHANGED <<disk, acked, strayed>>

Next == Change \/ Write \/ Acknowledge \/ Stray \/ Reload

Spec == Init /\ [][Next]_vars
=============================================================================
