----------------------------- MODULE Marketplace -----------------------------
(* The marketplace around one agent: its record, the vault that enforces    *)
(* its permissions and one task it works on. The task's calls look at the   *)
(* standing the record keeps; the rest is each component's own.             *)
EXTENDS TaskEscrow, VaultMirror

CONSTANT Scenes  \* bound: which components are used in one behaviour

VARIABLE scene

vars == <<scene, recordVars, mirrorVars, taskVars>>

(* The values every component's variables stay in.                          *)
TypeOK == RecordTypeOK /\ MirrorTypeOK /\ TaskTypeOK /\ scene \in Scenes

(* What a component not in use starts from does not matter.                 *)
Init ==
    /\ scene \in Scenes
    /\ RecordInit /\ MirrorInit /\ TaskInit
    /\ "record" \in scene \/ (kya = "verified" /\ tokenOwner = wallet)
    /\ "mirror" \in scene \/ (serverIsOwner /\ permissions.cap = 1)
    /\ "task" \in scene \/ keyed

Next ==
    /\ UNCHANGED scene
    /\ \/ "record" \in scene /\ RecordNext /\ UNCHANGED <<mirrorVars, taskVars>>
       \/ "mirror" \in scene /\ MirrorNext /\ UNCHANGED <<recordVars, taskVars>>
       \/ "task" \in scene /\ TaskNext /\ UNCHANGED <<recordVars, mirrorVars>>
       \/ "task" \in scene /\ RevokeAgentKya /\ UNCHANGED <<mirrorVars, taskVars>>

Spec == Init /\ [][Next]_vars
=============================================================================
