--------------------------- MODULE MCDocumentStore ---------------------------
(* Values for model checking DocumentStore.                                *)
EXTENDS DocumentStore

CONSTANTS c1, c2, e1, e2

MCCallers == {c1, c2}
MCChanges == {e1, e2}
=============================================================================
