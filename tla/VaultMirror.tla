----------------------------- MODULE VaultMirror -----------------------------
(* An agent's permissions off chain and the policy of its vault on chain:   *)
(* every edit is pushed by a sync that reads the vault, writes what differs *)
(* and mirrors the allowlist payee by payee, while further edits start      *)
(* syncs of their own.                                                      *)
(* Source: mcp/src/platform/permissions.ts, vault.ts, vault-adapter.ts.     *)
EXTENDS FiniteSets, Naturals

CONSTANTS Payees,  \* addresses a vault can allow
          Caps,    \* daily caps; 0 stops the agent off chain
          Edits,   \* calls of updateAgentPermissions
          MaxEdit, \* bound: edits
          MaxMiss, \* bound: reads and writes that fail or go unanswered
          MaxReboot \* bound: restarts

ASSUME MirrorAssumption ==
    /\ IsFiniteSet(Payees) /\ Caps \subseteq Nat /\ MaxEdit \in Nat /\ MaxMiss \in Nat
    /\ MaxReboot \in Nat

VARIABLES
    permissions,   \* permissions: the agent's, off chain
    mirrored,      \* vaultMirroredPayees: what was written to the vault
    vault,         \* the policy on chain
    serverIsOwner, \* whether the server may sign for the vault's owner
    sync,          \* the syncs in flight
    document,      \* the permissions and the record of payees as storage has them
    leaked,        \* history: payees allowed by a write whose answer was lost or
                   \* that a restart forgot, until a write of theirs is answered
    unsaved,       \* history: payees allowed, not in a saved record yet
    skipped,       \* history: the last sync left the payees alone
    crossed,       \* history: two syncs ran at the same time
    edits,         \* edits so far
    misses,        \* reads and writes that failed so far
    reboots        \* restarts so far

books      == <<document, leaked, unsaved, reboots>>
mirrorVars == <<permissions, mirrored, vault, serverIsOwner, sync, books,
                skipped, crossed, edits, misses>>

Permissions == [cap : Caps, list : SUBSET Payees, frozen : BOOLEAN]
Policy == [cap : Caps, flag : BOOLEAN, frozen : BOOLEAN, allowed : SUBSET Payees]
Done == [step |-> "done"]

(* kept: stillMirrored. revoke, allow: the payees still to be written.      *)
SyncStates ==
    {Done} \cup
    [step : {"read"}, p : Permissions, changed : BOOLEAN] \cup
    [step : {"policy", "frozen"}, p : Permissions, flag : BOOLEAN, frozen : BOOLEAN] \cup
    [step : {"payees"}, kept : SUBSET Payees, revoke : SUBSET Payees, allow : SUBSET Payees]

MirrorTypeOK ==
    /\ permissions \in Permissions
    /\ mirrored \in SUBSET Payees
    /\ vault \in Policy
    /\ serverIsOwner \in BOOLEAN
    /\ DOMAIN sync = Edits /\ \A e \in Edits : sync[e] \in SyncStates
    /\ document \in [permissions : Permissions, mirrored : SUBSET Payees]
    /\ leaked \in SUBSET Payees /\ unsaved \in SUBSET Payees
    /\ skipped \in BOOLEAN /\ crossed \in BOOLEAN
    /\ edits \in 0..MaxEdit
    /\ misses \in 0..MaxMiss
    /\ reboots \in 0..MaxReboot

(* A vault deployed with the agent's limits and an empty list.              *)
MirrorInit ==
    /\ permissions \in [cap : Caps \ {0}, list : {{}}, frozen : {FALSE}]
    /\ vault = [cap |-> permissions.cap, flag |-> FALSE, frozen |-> FALSE, allowed |-> {}]
    /\ mirrored = {}
    /\ serverIsOwner \in BOOLEAN
    /\ sync = [e \in Edits |-> Done]
    /\ document = [permissions |-> permissions, mirrored |-> mirrored]
    /\ leaked = {} /\ unsaved = {} /\ skipped = FALSE /\ crossed = FALSE
    /\ edits = 0 /\ misses = 0 /\ reboots = 0

-----------------------------------------------------------------------------
Go(e, state) == sync' = [sync EXCEPT ![e] = state]
InFlight == {e \in Edits : sync[e] # Done}

(* The sync with its reads and policy writes behind it turns to the payees, *)
(* from the record of what is mirrored as it is at this moment.             *)
PayeesOf(p) ==
    [step   |-> "payees",
     kept   |-> mirrored \cap p.list,
     revoke |-> mirrored \ p.list,
     allow  |-> p.list \ mirrored]

Answered == UNCHANGED misses
Missed == misses < MaxMiss /\ misses' = misses + 1

(* The edit takes effect off chain at once; its sync has these permissions. *)
UpdateAgentPermissions(e, p) ==
    /\ sync[e] = Done
    /\ edits < MaxEdit
    /\ p # permissions
    /\ edits' = edits + 1
    /\ permissions' = p
    /\ Go(e, [step |-> "read", p |-> p, changed |-> p.list # permissions.list])
    /\ crossed' = (crossed \/ InFlight # {})
    /\ UNCHANGED <<mirrored, vault, serverIsOwner, books, skipped, misses>>

(* vaultPolicyPlan, and what syncVaultPolicy does with it. A policy that    *)
(* could not be read is not written, except a freeze; a cap of 0 is not     *)
(* written, since on chain it would lift the limit.                         *)
Plan(e, read) ==
    LET p    == sync[e].p
        flag == p.list # {} \/ (~sync[e].changed /\ read /\ vault.flag)
        policyDrift == read /\ p.cap # 0 /\ (vault.cap # p.cap \/ vault.flag # flag)
        frozenDrift == IF read THEN vault.frozen # p.frozen ELSE p.frozen
    IN
    \/ /\ ~policyDrift /\ ~frozenDrift
       /\ Go(e, Done)
       /\ skipped' = TRUE
    \/ /\ policyDrift \/ frozenDrift
       /\ ~serverIsOwner
       /\ Go(e, Done)
       /\ skipped' = TRUE
    \/ /\ policyDrift \/ frozenDrift
       /\ serverIsOwner
       /\ Go(e, [step |-> IF policyDrift THEN "policy" ELSE "frozen",
                 p |-> p, flag |-> flag, frozen |-> frozenDrift])
       /\ skipped' = FALSE

ReadVaultPolicy(e) ==
    /\ sync[e].step = "read"
    /\ \/ Plan(e, TRUE) /\ Answered
       \/ Plan(e, FALSE) /\ Missed
    /\ UNCHANGED <<permissions, mirrored, vault, serverIsOwner, books, crossed, edits>>

(* A failed setPolicy ends the sync.                                        *)
WriteVaultPolicy(e) ==
    LET s == sync[e]
        written == [vault EXCEPT !.cap = s.p.cap, !.flag = s.flag]
    IN
    /\ s.step = "policy"
    /\ \/ /\ vault' = written
          /\ Go(e, IF s.frozen THEN [s EXCEPT !.step = "frozen"] ELSE PayeesOf(s.p))
          /\ Answered /\ UNCHANGED skipped
       \/ /\ vault' \in {vault, written}
          /\ Go(e, Done)
          /\ Missed /\ skipped' = TRUE
    /\ UNCHANGED <<permissions, mirrored, serverIsOwner, books, crossed, edits>>

(* Mutant: a freeze is written, a thaw is not.                              *)
WriteVaultFrozen_OneWay(e) ==
    LET s == sync[e] IN
    /\ s.step = "frozen"
    /\ vault' = [vault EXCEPT !.frozen = vault.frozen \/ s.p.frozen]
    /\ Go(e, PayeesOf(s.p))
    /\ UNCHANGED <<permissions, mirrored, serverIsOwner, books, skipped,
                   crossed, edits, misses>>

(* A failed setFrozen does not.                                             *)
WriteVaultFrozen(e) ==
    LET s == sync[e]
        written == [vault EXCEPT !.frozen = s.p.frozen]
    IN
    /\ s.step = "frozen"
    /\ \/ vault' = written /\ Answered
       \/ vault' \in {vault, written} /\ Missed
    /\ Go(e, PayeesOf(s.p))
    /\ UNCHANGED <<permissions, mirrored, serverIsOwner, books, skipped, crossed, edits>>

(* Mutant: a payee whose revoke failed is dropped from the books.           *)
Revoke_Forgets(e, a) ==
    LET s == sync[e] IN
    /\ s.step = "payees" /\ a \in s.revoke
    /\ \/ vault' = [vault EXCEPT !.allowed = @ \ {a}] /\ Answered
       \/ UNCHANGED vault /\ Missed
    /\ Go(e, [s EXCEPT !.revoke = @ \ {a}])
    /\ UNCHANGED <<permissions, mirrored, serverIsOwner, books, skipped, crossed, edits>>

(* A dropped payee is revoked; one that could not be stays on the books.    *)
Revoke(e, a) ==
    LET s == sync[e]
        written == [vault EXCEPT !.allowed = @ \ {a}]
    IN
    /\ s.step = "payees" /\ a \in s.revoke
    /\ \/ /\ vault' = written /\ Answered
          /\ Go(e, [s EXCEPT !.revoke = @ \ {a}])
          /\ leaked' = leaked \ {a} /\ unsaved' = unsaved \ {a}
       \/ /\ vault' \in {vault, written} /\ Missed
          /\ Go(e, [s EXCEPT !.revoke = @ \ {a}, !.kept = @ \cup {a}])
          /\ UNCHANGED <<leaked, unsaved>>
    /\ UNCHANGED <<permissions, mirrored, serverIsOwner, document, reboots,
                   skipped, crossed, edits>>

(* A payee is taken on the books when the write that allows it is answered. *)
Allow(e, a) ==
    LET s == sync[e]
        written == [vault EXCEPT !.allowed = @ \cup {a}]
        next == [s EXCEPT !.allow = @ \ {a}]
    IN
    /\ s.step = "payees" /\ s.revoke = {} /\ a \in s.allow
    /\ \/ /\ vault' = written /\ Answered
          /\ Go(e, [next EXCEPT !.kept = @ \cup {a}])
          /\ leaked' = leaked \ {a} /\ unsaved' = unsaved \cup {a}
       \/ /\ Missed
          /\ Go(e, next)
          /\ \/ UNCHANGED <<vault, leaked>>
             \/ vault' = written /\ leaked' = leaked \cup {a}
          /\ UNCHANGED unsaved
    /\ UNCHANGED <<permissions, mirrored, serverIsOwner, document, reboots,
                   skipped, crossed, edits>>

RecordMirrored(e) ==
    LET s == sync[e] IN
    /\ s.step = "payees" /\ s.revoke = {} /\ s.allow = {}
    /\ mirrored' = s.kept
    /\ Go(e, Done)
    /\ UNCHANGED <<permissions, vault, serverIsOwner, books, skipped, crossed, edits, misses>>

(* save(state) at the end of an edit, and of any other handler, in between. *)
MirrorSave ==
    /\ document' = [permissions |-> permissions, mirrored |-> mirrored]
    /\ unsaved' = unsaved \ mirrored
    /\ UNCHANGED <<permissions, mirrored, vault, serverIsOwner, sync, leaked, reboots,
                   skipped, crossed, edits, misses>>

(* The syncs in flight are gone, what they wrote to the vault is not.       *)
MirrorRestart ==
    /\ reboots < MaxReboot
    /\ reboots' = reboots + 1
    /\ permissions' = document.permissions /\ mirrored' = document.mirrored
    /\ sync' = [e \in Edits |-> Done]
    /\ leaked' = leaked \cup unsaved /\ unsaved' = {}
    /\ UNCHANGED <<vault, serverIsOwner, document, skipped, crossed, edits, misses>>

MirrorNext ==
    \/ \E e \in Edits :
          \/ \E p \in Permissions : UpdateAgentPermissions(e, p)
          \/ ReadVaultPolicy(e) \/ WriteVaultPolicy(e) \/ WriteVaultFrozen(e)
          \/ \E a \in Payees : Revoke(e, a) \/ Allow(e, a)
          \/ RecordMirrored(e)
    \/ MirrorSave \/ MirrorRestart

-----------------------------------------------------------------------------
OnTheBooks(e) ==
    IF sync[e].step = "payees" THEN sync[e].kept \cup sync[e].revoke ELSE {}
Booked == mirrored \cup UNION {OnTheBooks(e) : e \in Edits}

(* Every payee the vault allows is on the books, or a sync is about to put  *)
(* it there, so it is revoked when it is dropped, although revokes fail,    *)
(* go unanswered and are cut off by a restart. Only two writes may leave    *)
(* one that is not: an allow that landed and whose answer was lost, and one *)
(* that a restart forgot before the record of it was saved, until a later   *)
(* write of that payee is answered. And two syncs at a time, which may each *)
(* overwrite the other's books.                                             *)
AllowedIsKnown == ~crossed => vault.allowed \subseteq Booked \cup leaked

(* "a payee dropped from the off-chain list is revoked on-chain rather than *)
(* left allowed forever" (vault.ts:586), which takes that it is known: with *)
(* syncs that cross, with an answer lost, with a restart.                   *)
AllowedIsKnownAlways == misses = 0 /\ reboots = 0 => vault.allowed \subseteq Booked
AnsweredIsNotNeededAlways == ~crossed /\ reboots = 0 => vault.allowed \subseteq Booked
RecordSurvivesAlways == ~crossed /\ misses = 0 => vault.allowed \subseteq Booked

AtRest == InFlight = {} /\ serverIsOwner /\ misses = 0 /\ reboots = 0

(* After an edit the vault follows the permissions: frozen as the human     *)
(* left it, the cap unless it is 0, and the payees unless the sync found    *)
(* nothing else to write. The server signs, nothing failed or restarted,    *)
(* one at a time.                                                           *)
VaultFollows ==
    AtRest /\ ~crossed =>
        /\ vault.frozen = permissions.frozen
        /\ permissions.cap # 0 => vault.cap = permissions.cap
        /\ ~skipped => vault.allowed = permissions.list

(* The vault is frozen as the human left it also when syncs cross: it is    *)
(* not, an older one may lift a newer freeze.                               *)
FreezeHoldsAlways == AtRest => vault.frozen = permissions.frozen

(* vault.ts: a payee dropped from the list is revoked on chain rather than  *)
(* left allowed for ever, and a failed revoke is retried on the next sync.  *)
DroppedIsRevokedAlways == AtRest /\ ~crossed => vault.allowed \subseteq permissions.list
=============================================================================
