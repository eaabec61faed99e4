------------------------- MODULE Marketplace_proofs -------------------------
(* What the record of an agent, its vault and its task keep true, proved    *)
(* for any number of wallets, calls, edits, failures and restarts.          *)
EXTENDS Marketplace, FiniteSetTheorems, TLAPS

-----------------------------------------------------------------------------
(* The record of the agent.                                                 *)

RecordTyped ==
    /\ wallet \in Wallets /\ proof \in Wallets /\ claimed \in Wallets
    /\ former \in SUBSET Addresses
    /\ proved \in SUBSET Addresses
    /\ imported \in BOOLEAN
    /\ moved \in BOOLEAN /\ overtaken \in BOOLEAN
    /\ proving \in [Proofs -> [op : {"none", "kya", "claim"}, address : Wallets]]

(* What the flag says of the proof on file.                                 *)
FlagMatchesProof ==
    /\ kya = "verified" => proof = wallet /\ wallet # Nobody
    /\ kya \in {"unverified", "unclaimed"} => proof = Nobody
    /\ kya = "unclaimed" => claimed = Nobody
    /\ claimed # Nobody => imported
    /\ kya \in {"unverified", "verified", "revoked", "unclaimed"}

(* A proof in flight is of the wallet the record names, or of one that a    *)
(* claim has since replaced by a proven one. A claim is of an import.       *)
FlightsKnown ==
    /\ \A k \in Proofs : proving[k].op = "kya" =>
          /\ wallet # Nobody
          /\ moved \/ proving[k].address = wallet \/ wallet \in signed
    /\ \A k \in Proofs : proving[k].op = "claim" => imported

RecordInv ==
    /\ RecordTyped
    /\ FlagMatchesProof
    /\ overtaken \/ \A a \in proved : EverProved(a)
    /\ FlightsKnown
    /\ VerifiedIsProven

LEMMA RecordStarts == Init => RecordInv
<1> SUFFICES ASSUME Init PROVE RecordInv
  OBVIOUS
<1> USE RecordAssumption DEF Init, RecordInit, Wallets, Idle
<1>1. RecordTyped
  BY DEF RecordTyped
<1>2. FlagMatchesProof
  BY DEF FlagMatchesProof
<1>3. \A a \in proved : EverProved(a)
  BY DEF EverProved
<1>4. FlightsKnown
  BY DEF FlightsKnown
<1>5. VerifiedIsProven
  BY DEF VerifiedIsProven
<1> QED
  BY <1>1, <1>2, <1>3, <1>4, <1>5 DEF RecordInv

(* The signature of a KYA proof is good.                                    *)
LEMMA KyaVerdictKeeps ==
    ASSUME RecordInv, NEW k \in Proofs, KyaVerdict(k)
    PROVE  RecordInv'
<1> USE RecordAssumption
        DEF RecordInv, KyaVerdict, Finish, Idle, Wallets
<1>1. RecordTyped'
  BY DEF RecordTyped, FlightsKnown
<1>2. FlagMatchesProof'
  BY DEF FlagMatchesProof, FlightsKnown
<1>3. (overtaken \/ \A a \in proved : EverProved(a))'
  BY DEF EverProved, RecordTyped
<1>4. FlightsKnown'
  BY DEF FlightsKnown, RecordTyped
<1>5. VerifiedIsProven'
  BY DEF VerifiedIsProven, FlightsKnown
<1> QED
  BY <1>1, <1>2, <1>3, <1>4, <1>5

(* The record is pointed at another wallet, or at the same one again.       *)
LEMMA AssignWalletKeeps ==
    ASSUME RecordInv, NEW b \in Addresses, AssignWallet(b)
    PROVE  RecordInv'
<1> USE RecordAssumption DEF RecordInv, AssignWallet, Wallets
<1>1. RecordTyped'
  BY DEF RecordTyped
<1>2. FlagMatchesProof'
  BY DEF FlagMatchesProof
<1>3. (overtaken \/ \A a \in proved : EverProved(a))'
  BY DEF EverProved, RecordTyped, FlagMatchesProof
<1>4. FlightsKnown'
  BY DEF FlightsKnown, RecordTyped
<1>5. VerifiedIsProven'
  BY DEF VerifiedIsProven
<1> QED
  BY <1>1, <1>2, <1>3, <1>4, <1>5

(* A claim is settled.                                                      *)
LEMMA ClaimVerdictKeeps ==
    ASSUME RecordInv, NEW k \in Proofs, ClaimVerdict(k)
    PROVE  RecordInv'
<1> USE RecordAssumption DEF RecordInv, ClaimVerdict, Finish, Idle, Wallets
<1>1. RecordTyped'
  BY DEF RecordTyped
<1>2. FlagMatchesProof'
  BY DEF FlagMatchesProof, RecordTyped, FlightsKnown
<1>3. (overtaken \/ \A a \in proved : EverProved(a))'
  BY DEF EverProved, RecordTyped, FlagMatchesProof
<1>4. FlightsKnown'
  BY DEF FlightsKnown, RecordTyped
<1>5. VerifiedIsProven'
  BY DEF VerifiedIsProven
<1> QED
  BY <1>1, <1>2, <1>3, <1>4, <1>5

(* The other calls: nothing is proven by them.                              *)
LEMMA RecordStep ==
    ASSUME RecordInv, RecordNext
    PROVE  RecordInv'
<1> USE RecordAssumption
        DEF RecordInv, RecordTyped, FlagMatchesProof, EverProved, FlightsKnown,
            VerifiedIsProven, Wallets, Idle
<1>1. CASE StartKyaChallenge
  BY <1>1 DEF StartKyaChallenge, subject
<1>2. CASE Expire
  BY <1>2 DEF Expire, subject
<1>3. CASE MarkImportedAgent
  BY <1>3 DEF MarkImportedAgent
<1>4. CASE StartClaimChallenge
  BY <1>4 DEF StartClaimChallenge, subject
<1>5. CASE Transfer
  BY <1>5 DEF Transfer, subject
<1>6. CASE RevokeAgentKya
  BY <1>6 DEF RevokeAgentKya
<1>7. ASSUME NEW k \in Proofs, VerifyKya(k) PROVE RecordInv'
  BY <1>7 DEF VerifyKya, Ask, subject
<1>8. ASSUME NEW k \in Proofs, NoVerdict(k) PROVE RecordInv'
  BY <1>8 DEF NoVerdict, Finish, subject
<1>9. ASSUME NEW k \in Proofs, NEW a \in Addresses, VerifyAgentClaim(k, a)
      PROVE  RecordInv'
  BY <1>9 DEF VerifyAgentClaim, Ask, subject
<1> QED
  BY <1>1, <1>2, <1>3, <1>4, <1>5, <1>6, <1>7, <1>8, <1>9,
     KyaVerdictKeeps, AssignWalletKeeps, ClaimVerdictKeeps DEF RecordNext

LEMMA RecordHolds == Spec => []RecordInv
<1>1. Init => RecordInv
  BY RecordStarts
<1>2. RecordInv /\ [Next]_vars => RecordInv'
  <2> SUFFICES ASSUME RecordInv, [Next]_vars PROVE RecordInv'
    OBVIOUS
  <2>1. CASE RecordNext
    BY <2>1, RecordStep
  <2>2. CASE RevokeAgentKya
    BY <2>2, RecordStep DEF RecordNext
  <2>3. CASE UNCHANGED recordVars
    BY <2>3 DEF recordVars, subject, RecordInv, RecordTyped, FlagMatchesProof,
                EverProved, FlightsKnown, VerifiedIsProven, Wallets
  <2> QED
    BY <2>1, <2>2, <2>3 DEF Next, vars
<1> QED
  BY <1>1, <1>2, PTL DEF Spec

(* `verified` means that somebody signed with the key of the wallet the     *)
(* record names, for every interleaving of proofs, claims and moves, unless *)
(* the wallet moved while a signature by the earlier one was checked        *)
(* (kya.ts, agents.ts).                                                     *)
THEOREM VerifiedProven == Spec => []VerifiedIsProven
<1>1. RecordInv => VerifiedIsProven
  BY DEF RecordInv
<1> QED
  BY <1>1, RecordHolds, PTL

(* No wallet a record ever proved is forgotten, whatever its bound on the   *)
(* history and however often it moves, is revoked or claimed (core.ts).     *)
THEOREM ProvenKept == Spec => []ProvenIsKept
<1>1. RecordInv => ProvenIsKept
  BY DEF RecordInv, ProvenIsKept
<1> QED
  BY <1>1, RecordHolds, PTL

-----------------------------------------------------------------------------
(* The vault and the permissions it mirrors.                                *)

MirrorTyped ==
    /\ permissions \in Permissions
    /\ mirrored \in SUBSET Payees
    /\ vault \in Policy
    /\ serverIsOwner \in BOOLEAN
    /\ sync \in [Edits -> SyncStates]
    /\ document \in [permissions : Permissions, mirrored : SUBSET Payees]
    /\ leaked \in SUBSET Payees /\ unsaved \in SUBSET Payees
    /\ skipped \in BOOLEAN /\ crossed \in BOOLEAN
    /\ misses \in Nat /\ reboots \in Nat

OneSync == \A e, f \in Edits : sync[e] # Done /\ sync[f] # Done => e = f

(* Where the payees the vault allows are written down, in memory and in     *)
(* storage.                                                                 *)
OnBooks ==
    /\ (\A e \in Edits : sync[e].step # "payees") =>
          vault.allowed \subseteq mirrored \cup leaked
    /\ \A e \in Edits : sync[e].step = "payees" =>
          /\ vault.allowed \subseteq sync[e].kept \cup sync[e].revoke \cup leaked
          /\ vault.allowed \cap (sync[e].kept \cup sync[e].revoke)
                \subseteq mirrored \cup unsaved \cup leaked
    /\ vault.allowed \subseteq document.mirrored \cup unsaved \cup leaked

CapFollows == permissions.cap # 0 => vault.cap = permissions.cap
PayeesExact(s) ==
    /\ vault.allowed = s.kept \cup s.revoke
    /\ permissions.list = s.kept \cup s.allow
    /\ (s.kept \cup s.allow) \cap s.revoke = {}

(* How far a sync has come, when the server signs and every call answers.   *)
Progress(s) ==
    /\ s.step = "read" => s.p = permissions
    /\ s.step = "policy" =>
          /\ s.p = permissions /\ ~skipped
          /\ s.frozen <=> vault.frozen # permissions.frozen
    /\ s.step = "frozen" => s.p = permissions /\ ~skipped /\ CapFollows
    /\ s.step \in {"read", "policy", "frozen"} => vault.allowed = mirrored
    /\ s.step = "payees" =>
          /\ vault.frozen = permissions.frozen /\ CapFollows /\ ~skipped
          /\ PayeesExact(s)

Rested ==
    /\ vault.frozen = permissions.frozen /\ CapFollows
    /\ vault.allowed = mirrored
    /\ ~skipped => vault.allowed = permissions.list

InStep ==
    serverIsOwner /\ misses = 0 /\ reboots = 0 =>
        /\ (\A e \in Edits : sync[e] = Done) => Rested
        /\ \A e \in Edits : Progress(sync[e])

MirrorInv ==
    /\ MirrorTyped
    /\ ~crossed => OneSync /\ OnBooks /\ InStep

(* Of syncs that do not cross one moves and all others are done.            *)
LEMMA OneMoves ==
    ASSUME MirrorTyped, OneSync, NEW e \in Edits, sync[e] # Done,
           NEW s, sync' = [sync EXCEPT ![e] = s]
    PROVE  /\ sync'[e] = s
           /\ \A f \in Edits \ {e} : sync[f] = Done /\ sync'[f] = Done
           /\ OneSync'
  BY DEF MirrorTyped, OneSync

LEMMA SyncShape ==
    ASSUME NEW s \in SyncStates
    PROVE  /\ s.step \in {"done", "read", "policy", "frozen", "payees"}
           /\ s.step = "done" <=> s = Done
           /\ s.step = "read" =>
                 s \in [step : {"read"}, p : Permissions, changed : BOOLEAN]
           /\ s.step \in {"policy", "frozen"} =>
                 s \in [step : {"policy", "frozen"}, p : Permissions,
                        flag : BOOLEAN, frozen : BOOLEAN]
           /\ s.step = "payees" =>
                 s \in [step : {"payees"}, kept : SUBSET Payees,
                        revoke : SUBSET Payees, allow : SUBSET Payees]
  BY DEF SyncStates, Done

LEMMA MirrorStarts == Init => MirrorInv
<1> SUFFICES ASSUME Init PROVE MirrorInv
  OBVIOUS
<1> USE MirrorAssumption DEF Init, MirrorInit
<1>1. MirrorTyped
  <2>1. sync \in [Edits -> SyncStates]
    BY DEF SyncStates
  <2>2. permissions \in Permissions /\ vault \in Policy
    BY DEF Permissions, Policy
  <2> QED
    BY <2>1, <2>2 DEF MirrorTyped
<1>2. OneSync /\ OnBooks
  BY DEF OneSync, OnBooks, Done
<1>3. InStep
  BY DEF InStep, Rested, Progress, CapFollows, Done
<1> QED
  BY <1>1, <1>2, <1>3 DEF MirrorInv

LEMMA EditKeeps ==
    ASSUME MirrorInv, NEW e \in Edits, NEW p \in Permissions,
           UpdateAgentPermissions(e, p)
    PROVE  MirrorInv'
<1> USE DEF UpdateAgentPermissions, Go, books
<1>1. MirrorTyped'
  BY DEF MirrorInv, MirrorTyped, SyncStates, Permissions
<1>2. ASSUME ~crossed' PROVE (OneSync /\ OnBooks /\ InStep)'
  <2>1. \A f \in Edits : sync[f] = Done
    BY <1>2 DEF InFlight
  <2>2. OnBooks /\ InStep /\ MirrorTyped
    BY <1>2 DEF MirrorInv
  <2>3. sync'[e].step = "read" /\ sync'[e].p = permissions'
    BY <2>2 DEF MirrorTyped
  <2>4. \A f \in Edits \ {e} : sync'[f] = Done
    BY <2>1, <2>2 DEF MirrorTyped
  <2>5. OneSync'
    BY <2>4 DEF OneSync
  <2>6. OnBooks'
    BY <2>1, <2>2, <2>3, <2>4 DEF OnBooks, Done
  <2>7. InStep'
    BY <2>1, <2>2, <2>3, <2>4 DEF InStep, Progress, Rested, Done
  <2> QED
    BY <2>5, <2>6, <2>7
<1> QED
  BY <1>1, <1>2 DEF MirrorInv

LEMMA ReadKeeps ==
    ASSUME MirrorInv, NEW e \in Edits, ReadVaultPolicy(e)
    PROVE  MirrorInv'
<1> USE MirrorAssumption DEF ReadVaultPolicy, Answered, Missed, books
<1> DEFINE s == sync[e]
           t == sync'[e]
<1>1. MirrorTyped /\ s \in SyncStates
  BY DEF MirrorInv, MirrorTyped
<1>2. s \in [step : {"read"}, p : Permissions, changed : BOOLEAN] /\ s # Done
  BY <1>1, SyncShape DEF Done
<1>3. PICK read \in BOOLEAN : 
        /\ Plan(e, read)
        /\ misses' \in Nat
        /\ misses' = 0 => read /\ misses = 0
  <2>1. misses \in Nat
    BY <1>1 DEF MirrorTyped
  <2>2. CASE Plan(e, TRUE) /\ Answered
    BY <2>1, <2>2
  <2>3. CASE Plan(e, FALSE) /\ Missed
    <3>1. misses' # 0 /\ misses' \in Nat
      BY <2>1, <2>3
    <3> QED
      BY <2>3, <3>1
  <2> QED
    BY <2>2, <2>3
<1>4. PICK n \in SyncStates :
        /\ Go(e, n)
        /\ n = Done \/ (n.step \in {"policy", "frozen"} /\ n.p = s.p)
        /\ skipped' \in BOOLEAN
        /\ serverIsOwner /\ misses' = 0 =>
             /\ n = Done => /\ skipped'
                            /\ s.p.cap = 0 \/ vault.cap = s.p.cap
                            /\ vault.frozen = s.p.frozen
             /\ n # Done => /\ ~skipped'
                            /\ n.frozen <=> vault.frozen # s.p.frozen
             /\ n.step = "frozen" => s.p.cap = 0 \/ vault.cap = s.p.cap
  <2> DEFINE p    == s.p
             flag == p.list # {} \/ (~s.changed /\ read /\ vault.flag)
             policyDrift == read /\ p.cap # 0 /\ (vault.cap # p.cap \/ vault.flag # flag)
             frozenDrift == IF read THEN vault.frozen # p.frozen ELSE p.frozen
             m == [step |-> IF policyDrift THEN "policy" ELSE "frozen",
                   p |-> p, flag |-> flag, frozen |-> frozenDrift]
  <2>1. Done \in SyncStates /\ m \in SyncStates
    <3>1. p \in Permissions /\ vault \in Policy /\ s.changed \in BOOLEAN
      BY <1>1, <1>2 DEF MirrorTyped
    <3>2. flag \in BOOLEAN /\ frozenDrift \in BOOLEAN
      BY <1>3, <3>1 DEF Permissions, Policy
    <3> QED
      BY <3>1, <3>2 DEF SyncStates
  <2>2. CASE ~policyDrift /\ ~frozenDrift
    <3>1. Go(e, Done) /\ skipped' = TRUE
      BY <1>3, <2>2 DEF Plan
    <3> QED
      BY <1>3, <2>1, <2>2, <3>1 DEF Done
  <2>3. CASE (policyDrift \/ frozenDrift) /\ ~serverIsOwner
    <3>1. Go(e, Done) /\ skipped' = TRUE
      BY <1>3, <2>3 DEF Plan
    <3> QED
      BY <2>1, <2>3, <3>1 DEF Done
  <2>4. CASE (policyDrift \/ frozenDrift) /\ serverIsOwner
    <3>1. Go(e, m) /\ skipped' = FALSE
      BY <1>3, <2>4 DEF Plan
    <3>2. m.step \in {"policy", "frozen"} /\ m # Done /\ m.p = s.p
      BY DEF Done
    <3>3. misses' = 0 => (m.frozen <=> vault.frozen # s.p.frozen)
      BY <1>3
    <3>4. m.step = "frozen" => ~policyDrift
      OBVIOUS
    <3>5. misses' = 0 /\ m.step = "frozen"
             => s.p.cap = 0 \/ vault.cap = s.p.cap
      BY <1>3, <3>4
    <3> QED
      BY <2>1, <3>1, <3>2, <3>3, <3>5
  <2> QED
    BY <2>2, <2>3, <2>4
<1>5. MirrorTyped'
  <2>2. sync' \in [Edits -> SyncStates]
    BY <1>1, <1>4 DEF MirrorTyped, Go
  <2> QED
    BY <1>1, <1>3, <1>4, <2>2 DEF MirrorTyped
<1>6. ASSUME ~crossed' PROVE (OneSync /\ OnBooks /\ InStep)'
  <2>1. OneSync /\ OnBooks /\ InStep
    BY <1>6 DEF MirrorInv
  <2>2. /\ t = n
        /\ \A f \in Edits \ {e} : sync[f] = Done /\ sync'[f] = Done
        /\ OneSync'
    BY <1>1, <1>2, <1>4, <2>1, OneMoves DEF Go, Done
  <2>3. OnBooks'
    BY <1>2, <1>4, <2>1, <2>2 DEF OnBooks, Done
  <2>4. ASSUME serverIsOwner, misses' = 0, reboots = 0
        PROVE  /\ (\A f \in Edits : sync'[f] = Done) => Rested'
               /\ \A f \in Edits : Progress(sync[f])'
    <3>1. misses = 0
      BY <1>3, <2>4
    <3>2. s.p = permissions /\ vault.allowed = mirrored
      BY <1>2, <2>1, <2>4, <3>1 DEF InStep, Progress
    <3>3. n = Done => Rested'
      BY <1>4, <2>4, <3>2 DEF Rested, CapFollows
    <3>4. Progress(sync[e])'
      BY <1>4, <2>2, <2>4, <3>2 DEF Progress, CapFollows, Done
    <3>5. \A f \in Edits \ {e} : Progress(sync[f])'
      BY <2>2 DEF Progress, Done
    <3> QED
      BY <2>2, <3>3, <3>4, <3>5
  <2> QED
    BY <2>2, <2>3, <2>4 DEF InStep
<1> QED
  BY <1>5, <1>6 DEF MirrorInv

(* The sync turns to the payees: what is mirrored is on its own books.      *)
LEMMA PayeesShape ==
    ASSUME MirrorTyped, NEW p \in Permissions
    PROVE  /\ PayeesOf(p) \in SyncStates
           /\ PayeesOf(p) # Done
           /\ PayeesOf(p).step = "payees"
           /\ PayeesOf(p).kept = mirrored \cap p.list
           /\ PayeesOf(p).revoke = mirrored \ p.list
           /\ PayeesOf(p).allow = p.list \ mirrored
  BY DEF PayeesOf, MirrorTyped, SyncStates, Permissions, Done

LEMMA PolicyKeeps ==
    ASSUME MirrorInv, NEW e \in Edits, WriteVaultPolicy(e)
    PROVE  MirrorInv'
<1> DEFINE s == sync[e]
           written == [vault EXCEPT !.cap = s.p.cap, !.flag = s.flag]
           n == IF s.frozen THEN [s EXCEPT !.step = "frozen"] ELSE PayeesOf(s.p)
<1>1. MirrorTyped /\ s \in SyncStates
  BY DEF MirrorInv, MirrorTyped
<1>2. /\ s.step = "policy" /\ s # Done
      /\ s \in [step : {"policy", "frozen"}, p : Permissions,
                flag : BOOLEAN, frozen : BOOLEAN]
  BY <1>1, SyncShape DEF WriteVaultPolicy, Done
<1>3. /\ written \in Policy
      /\ written.cap = s.p.cap
      /\ written.frozen = vault.frozen /\ written.allowed = vault.allowed
  BY <1>1, <1>2 DEF MirrorTyped, Policy, Permissions
<1>4. /\ n \in SyncStates /\ n # Done
      /\ s.frozen => n.step = "frozen" /\ n.p = s.p
      /\ ~s.frozen => n = PayeesOf(s.p)
  <2>1. CASE s.frozen
    BY <1>2, <2>1 DEF SyncStates, Done
  <2>2. CASE ~s.frozen
    BY <1>1, <1>2, <2>2, PayeesShape
  <2> QED
    BY <2>1, <2>2
<1>5. \/ /\ Go(e, n) /\ vault' = written
         /\ misses' = misses /\ skipped' = skipped
      \/ /\ Go(e, Done) /\ vault' \in {vault, written}
         /\ misses' = misses + 1 /\ skipped' = TRUE
  BY DEF WriteVaultPolicy, Answered, Missed
<1>6. UNCHANGED <<permissions, mirrored, serverIsOwner, document, leaked,
                  unsaved, reboots, crossed>>
  BY DEF WriteVaultPolicy, books
<1> HIDE DEF written, n
<1>7. MirrorTyped'
  <2>1. Done \in SyncStates
    BY DEF SyncStates
  <2>2. sync' \in [Edits -> SyncStates]
    BY <1>1, <1>4, <1>5, <2>1 DEF MirrorTyped, Go
  <2>3. vault' \in Policy /\ misses' \in Nat
    BY <1>1, <1>3, <1>5 DEF MirrorTyped
  <2>4. skipped' \in BOOLEAN
    BY <1>1, <1>5 DEF MirrorTyped
  <2> QED
    BY <1>1, <1>6, <2>2, <2>3, <2>4 DEF MirrorTyped
<1>8. ASSUME ~crossed' PROVE (OneSync /\ OnBooks /\ InStep)'
  <2>1. OneSync /\ OnBooks /\ InStep
    BY <1>6, <1>8 DEF MirrorInv
  <2>2. PICK m : m \in {n, Done} /\ Go(e, m)
    BY <1>5
  <2>3. /\ sync'[e] = m
        /\ \A f \in Edits \ {e} : sync[f] = Done /\ sync'[f] = Done
        /\ OneSync'
    BY <1>1, <1>2, <2>1, <2>2, OneMoves DEF Go
  <2>4. vault'.allowed = vault.allowed /\ vault.allowed \subseteq mirrored \cup leaked
    <3>1. \A f \in Edits : sync[f].step # "payees"
      BY <1>2, <2>3 DEF Done
    <3> QED
      BY <1>3, <1>5, <2>1, <3>1 DEF OnBooks
  <2>5. s.p \in Permissions
    BY <1>2
  <2>6. OnBooks'
    <3>1. \A f \in Edits \ {e} : sync'[f].step # "payees"
      BY <2>3 DEF Done
    <3>2. m.step = "payees" => m = PayeesOf(s.p)
      BY <1>4, <2>2 DEF Done
    <3>3. m.step = "payees" =>
             /\ vault.allowed \subseteq m.kept \cup m.revoke \cup leaked
             /\ m.kept \cup m.revoke \subseteq mirrored
      BY <1>1, <2>4, <2>5, <3>2, PayeesShape
    <3> QED
      BY <1>6, <2>1, <2>3, <2>4, <3>1, <3>3 DEF OnBooks
  <2>7. ASSUME serverIsOwner, misses' = 0, reboots = 0
        PROVE  /\ (\A f \in Edits : sync'[f] = Done) => Rested'
               /\ \A f \in Edits : Progress(sync[f])'
    <3>1. /\ misses = 0 /\ Go(e, n) /\ vault' = written /\ skipped' = skipped
      BY <1>1, <1>5, <2>7 DEF MirrorTyped
    <3>2. sync'[e] = n
      BY <1>1, <3>1 DEF MirrorTyped, Go
    <3>3. /\ s.p = permissions /\ ~skipped /\ vault.allowed = mirrored
          /\ s.frozen <=> vault.frozen # permissions.frozen
      BY <1>2, <2>1, <2>7, <3>1 DEF InStep, Progress
    <3>4. Progress(sync[e])'
      <4>1. CASE s.frozen
        BY <1>3, <1>4, <1>6, <3>1, <3>2, <3>3, <4>1 DEF Progress, CapFollows
      <4>2. CASE ~s.frozen
        BY <1>1, <1>3, <1>4, <1>6, <2>5, <3>1, <3>2, <3>3, <4>2, PayeesShape
           DEF Progress, CapFollows, PayeesExact
      <4> QED
        BY <4>1, <4>2
    <3>5. \A f \in Edits \ {e} : Progress(sync[f])'
      BY <2>3 DEF Progress, Done
    <3> QED
      BY <1>4, <3>2, <3>4, <3>5
  <2> QED
    BY <1>6, <2>3, <2>6, <2>7 DEF InStep
<1> QED
  BY <1>7, <1>8 DEF MirrorInv

LEMMA FrozenKeeps ==
    ASSUME MirrorInv, NEW e \in Edits, WriteVaultFrozen(e)
    PROVE  MirrorInv'
<1> DEFINE s == sync[e]
           written == [vault EXCEPT !.frozen = s.p.frozen]
           n == PayeesOf(s.p)
<1>1. MirrorTyped /\ s \in SyncStates
  BY DEF MirrorInv, MirrorTyped
<1>2. /\ s.step = "frozen" /\ s # Done
      /\ s \in [step : {"policy", "frozen"}, p : Permissions,
                flag : BOOLEAN, frozen : BOOLEAN]
  BY <1>1, SyncShape DEF WriteVaultFrozen, Done
<1>3. /\ written \in Policy
      /\ written.frozen = s.p.frozen
      /\ written.cap = vault.cap /\ written.allowed = vault.allowed
  BY <1>1, <1>2 DEF MirrorTyped, Policy, Permissions
<1>4. s.p \in Permissions /\ n \in SyncStates /\ n # Done
  BY <1>1, <1>2, PayeesShape
<1>5. /\ Go(e, n)
      /\ \/ vault' = written /\ misses' = misses
         \/ vault' \in {vault, written} /\ misses' = misses + 1
  BY DEF WriteVaultFrozen, Answered, Missed
<1>6. UNCHANGED <<permissions, mirrored, serverIsOwner, document, leaked,
                  unsaved, reboots, skipped, crossed>>
  BY DEF WriteVaultFrozen, books
<1> HIDE DEF written
<1>7. MirrorTyped'
  <2>1. sync' \in [Edits -> SyncStates]
    BY <1>1, <1>4, <1>5 DEF MirrorTyped, Go
  <2> QED
    BY <1>1, <1>3, <1>5, <1>6, <2>1 DEF MirrorTyped
<1>8. ASSUME ~crossed' PROVE (OneSync /\ OnBooks /\ InStep)'
  <2>1. OneSync /\ OnBooks /\ InStep
    BY <1>6, <1>8 DEF MirrorInv
  <2>2. /\ sync'[e] = n
        /\ \A f \in Edits \ {e} : sync[f] = Done /\ sync'[f] = Done
        /\ OneSync'
    BY <1>1, <1>2, <1>5, <2>1, OneMoves DEF Go
  <2>3. vault'.allowed = vault.allowed /\ vault.allowed \subseteq mirrored \cup leaked
    <3>1. \A f \in Edits : sync[f].step # "payees"
      BY <1>2, <2>2 DEF Done
    <3> QED
      BY <1>3, <1>5, <2>1, <3>1 DEF OnBooks
  <2>4. OnBooks'
    BY <1>1, <1>4, <1>6, <2>1, <2>2, <2>3, PayeesShape DEF OnBooks, Done
  <2>5. ASSUME serverIsOwner, misses' = 0, reboots = 0
        PROVE  \A f \in Edits : Progress(sync[f])'
    <3>1. misses = 0 /\ vault' = written
      BY <1>1, <1>5, <2>5 DEF MirrorTyped
    <3>2. s.p = permissions /\ ~skipped /\ CapFollows /\ vault.allowed = mirrored
      BY <1>2, <2>1, <2>5, <3>1 DEF InStep, Progress
    <3>3. Progress(sync[e])'
      BY <1>1, <1>3, <1>4, <1>6, <2>2, <3>1, <3>2, PayeesShape
         DEF Progress, CapFollows, PayeesExact
    <3>4. \A f \in Edits \ {e} : Progress(sync[f])'
      BY <2>2 DEF Progress, Done
    <3> QED
      BY <3>3, <3>4
  <2> QED
    BY <1>4, <1>6, <2>2, <2>4, <2>5 DEF InStep
<1> QED
  BY <1>7, <1>8 DEF MirrorInv

LEMMA RevokeKeeps ==
    ASSUME MirrorInv, NEW e \in Edits, NEW a \in Payees, Revoke(e, a)
    PROVE  MirrorInv'
<1> DEFINE s == sync[e]
           written == [vault EXCEPT !.allowed = @ \ {a}]
           gone == [s EXCEPT !.revoke = @ \ {a}]
           stays == [s EXCEPT !.revoke = @ \ {a}, !.kept = @ \cup {a}]
<1>1. MirrorTyped /\ s \in SyncStates
  BY DEF MirrorInv, MirrorTyped
<1>2. /\ s.step = "payees" /\ s # Done /\ a \in s.revoke
      /\ s \in [step : {"payees"}, kept : SUBSET Payees,
                revoke : SUBSET Payees, allow : SUBSET Payees]
  BY <1>1, SyncShape DEF Revoke, Done
<1>3. /\ written \in Policy
      /\ written.allowed = vault.allowed \ {a}
      /\ written.cap = vault.cap /\ written.frozen = vault.frozen
  BY <1>1 DEF MirrorTyped, Policy
<1>4. /\ gone \in SyncStates /\ gone # Done /\ gone.step = "payees"
      /\ gone.kept = s.kept /\ gone.revoke = s.revoke \ {a} /\ gone.allow = s.allow
  BY <1>2 DEF SyncStates, Done
<1>5. /\ stays \in SyncStates /\ stays # Done /\ stays.step = "payees"
      /\ stays.kept = s.kept \cup {a} /\ stays.revoke = s.revoke \ {a}
  BY <1>2 DEF SyncStates, Done
<1>6. \/ /\ vault' = written /\ misses' = misses /\ Go(e, gone)
         /\ leaked' = leaked \ {a} /\ unsaved' = unsaved \ {a}
      \/ /\ vault' \in {vault, written} /\ misses' = misses + 1 /\ Go(e, stays)
         /\ leaked' = leaked /\ unsaved' = unsaved
  BY DEF Revoke, Answered, Missed
<1>7. UNCHANGED <<permissions, mirrored, serverIsOwner, document, reboots, skipped, crossed>>
  BY DEF Revoke
<1> HIDE DEF written, gone, stays
<1>8. MirrorTyped'
  <2>1. sync' \in [Edits -> SyncStates]
    BY <1>1, <1>4, <1>5, <1>6 DEF MirrorTyped, Go
  <2>2. /\ vault' \in Policy /\ misses' \in Nat
        /\ leaked' \in SUBSET Payees /\ unsaved' \in SUBSET Payees
    BY <1>1, <1>3, <1>6 DEF MirrorTyped
  <2> QED
    BY <1>1, <1>7, <2>1, <2>2 DEF MirrorTyped
<1>9. ASSUME ~crossed' PROVE (OneSync /\ OnBooks /\ InStep)'
  <2>1. OneSync /\ OnBooks /\ InStep
    BY <1>7, <1>9 DEF MirrorInv
  <2>2. PICK m \in {gone, stays} : Go(e, m)
    BY <1>6
  <2>3. /\ sync'[e] = m
        /\ \A f \in Edits \ {e} : sync[f] = Done /\ sync'[f] = Done
        /\ OneSync'
    BY <1>1, <1>2, <2>1, <2>2, OneMoves DEF Go
  <2>4. /\ vault.allowed \subseteq s.kept \cup s.revoke \cup leaked
        /\ vault.allowed \cap (s.kept \cup s.revoke) \subseteq mirrored \cup unsaved \cup leaked
        /\ vault.allowed \subseteq document.mirrored \cup unsaved \cup leaked
    BY <1>2, <2>1 DEF OnBooks
  <2>5. /\ vault'.allowed \subseteq sync'[e].kept \cup sync'[e].revoke \cup leaked'
        /\ vault'.allowed \cap (sync'[e].kept \cup sync'[e].revoke)
              \subseteq mirrored \cup unsaved' \cup leaked'
        /\ vault'.allowed \subseteq document.mirrored \cup unsaved' \cup leaked'
    <3>1. CASE /\ vault' = written /\ Go(e, gone)
               /\ leaked' = leaked \ {a} /\ unsaved' = unsaved \ {a}
      BY <1>1, <1>3, <1>4, <2>4, <3>1 DEF MirrorTyped, Go
    <3>2. CASE /\ vault' \in {vault, written} /\ Go(e, stays)
               /\ leaked' = leaked /\ unsaved' = unsaved
      BY <1>1, <1>2, <1>3, <1>5, <2>4, <3>2 DEF MirrorTyped, Go
    <3> QED
      BY <1>6, <3>1, <3>2
  <2>6. OnBooks'
    BY <1>4, <1>5, <1>7, <2>2, <2>3, <2>5 DEF OnBooks, Done
  <2>7. ASSUME serverIsOwner, misses' = 0, reboots = 0
        PROVE  \A f \in Edits : Progress(sync[f])'
    <3>1. misses = 0 /\ vault' = written /\ Go(e, gone)
      BY <1>1, <1>6, <2>7 DEF MirrorTyped
    <3>2. sync'[e] = gone
      BY <1>1, <3>1 DEF MirrorTyped, Go
    <3>3. /\ vault.frozen = permissions.frozen /\ CapFollows /\ ~skipped
          /\ PayeesExact(s)
      BY <1>2, <2>1, <2>7, <3>1 DEF InStep, Progress
    <3>4. vault'.frozen = permissions.frozen /\ CapFollows'
      BY <1>3, <1>7, <3>1, <3>3 DEF CapFollows
    <3>5. PayeesExact(sync[e])'
      BY <1>2, <1>3, <1>4, <1>7, <3>1, <3>2, <3>3 DEF PayeesExact
    <3>6. Progress(sync[e])'
      BY <1>4, <1>7, <3>2, <3>3, <3>4, <3>5 DEF Progress
    <3>7. \A f \in Edits \ {e} : Progress(sync[f])'
      BY <2>3 DEF Progress, Done
    <3> QED
      BY <3>6, <3>7
  <2> QED
    BY <1>4, <1>5, <1>7, <2>2, <2>3, <2>6, <2>7 DEF InStep
<1> QED
  BY <1>8, <1>9 DEF MirrorInv

LEMMA AllowKeeps ==
    ASSUME MirrorInv, NEW e \in Edits, NEW a \in Payees, Allow(e, a)
    PROVE  MirrorInv'
<1> DEFINE s == sync[e]
           written == [vault EXCEPT !.allowed = @ \cup {a}]
           next == [s EXCEPT !.allow = @ \ {a}]
           taken == [next EXCEPT !.kept = @ \cup {a}]
<1>1. MirrorTyped /\ s \in SyncStates
  BY DEF MirrorInv, MirrorTyped
<1>2. /\ s.step = "payees" /\ s # Done /\ a \in s.allow
      /\ s \in [step : {"payees"}, kept : SUBSET Payees,
                revoke : SUBSET Payees, allow : SUBSET Payees]
  BY <1>1, SyncShape DEF Allow, Done
<1>3. /\ written \in Policy
      /\ written.allowed = vault.allowed \cup {a}
      /\ written.cap = vault.cap /\ written.frozen = vault.frozen
  BY <1>1 DEF MirrorTyped, Policy
<1>4. /\ next \in SyncStates /\ next # Done /\ next.step = "payees"
      /\ next.kept = s.kept /\ next.revoke = s.revoke /\ next.allow = s.allow \ {a}
  BY <1>2 DEF SyncStates, Done
<1>5. /\ taken \in SyncStates /\ taken # Done /\ taken.step = "payees"
      /\ taken.kept = s.kept \cup {a} /\ taken.revoke = s.revoke
      /\ taken.allow = s.allow \ {a}
  BY <1>2 DEF SyncStates, Done
<1>6. \/ /\ vault' = written /\ misses' = misses /\ Go(e, taken)
         /\ leaked' = leaked \ {a} /\ unsaved' = unsaved \cup {a}
      \/ /\ misses' = misses + 1 /\ Go(e, next) /\ unsaved' = unsaved
         /\ \/ vault' = vault /\ leaked' = leaked
            \/ vault' = written /\ leaked' = leaked \cup {a}
  BY DEF Allow, Answered, Missed
<1>7. UNCHANGED <<permissions, mirrored, serverIsOwner, document, reboots, skipped, crossed>>
  BY DEF Allow
<1> HIDE DEF written, next, taken
<1>8. MirrorTyped'
  <2>1. sync' \in [Edits -> SyncStates]
    BY <1>1, <1>4, <1>5, <1>6 DEF MirrorTyped, Go
  <2>2. /\ vault' \in Policy /\ misses' \in Nat
        /\ leaked' \in SUBSET Payees /\ unsaved' \in SUBSET Payees
    BY <1>1, <1>3, <1>6 DEF MirrorTyped
  <2> QED
    BY <1>1, <1>7, <2>1, <2>2 DEF MirrorTyped
<1>9. ASSUME ~crossed' PROVE (OneSync /\ OnBooks /\ InStep)'
  <2>1. OneSync /\ OnBooks /\ InStep
    BY <1>7, <1>9 DEF MirrorInv
  <2>2. PICK m \in {next, taken} : Go(e, m)
    BY <1>6
  <2>3. /\ sync'[e] = m
        /\ \A f \in Edits \ {e} : sync[f] = Done /\ sync'[f] = Done
        /\ OneSync'
    BY <1>1, <1>2, <2>1, <2>2, OneMoves DEF Go
  <2>4. /\ vault.allowed \subseteq s.kept \cup s.revoke \cup leaked
        /\ vault.allowed \cap (s.kept \cup s.revoke) \subseteq mirrored \cup unsaved \cup leaked
        /\ vault.allowed \subseteq document.mirrored \cup unsaved \cup leaked
    BY <1>2, <2>1 DEF OnBooks
  <2>5. /\ vault'.allowed \subseteq sync'[e].kept \cup sync'[e].revoke \cup leaked'
        /\ vault'.allowed \cap (sync'[e].kept \cup sync'[e].revoke)
              \subseteq mirrored \cup unsaved' \cup leaked'
        /\ vault'.allowed \subseteq document.mirrored \cup unsaved' \cup leaked'
    <3>1. CASE /\ vault' = written /\ Go(e, taken)
               /\ leaked' = leaked \ {a} /\ unsaved' = unsaved \cup {a}
      BY <1>1, <1>3, <1>5, <2>4, <3>1 DEF MirrorTyped, Go
    <3>2. CASE /\ Go(e, next) /\ unsaved' = unsaved
               /\ \/ vault' = vault /\ leaked' = leaked
                  \/ vault' = written /\ leaked' = leaked \cup {a}
      BY <1>1, <1>3, <1>4, <2>4, <3>2 DEF MirrorTyped, Go
    <3> QED
      BY <1>6, <3>1, <3>2
  <2>6. OnBooks'
    BY <1>4, <1>5, <1>7, <2>2, <2>3, <2>5 DEF OnBooks, Done
  <2>7. ASSUME serverIsOwner, misses' = 0, reboots = 0
        PROVE  \A f \in Edits : Progress(sync[f])'
    <3>1. misses = 0 /\ vault' = written /\ Go(e, taken)
      BY <1>1, <1>6, <2>7 DEF MirrorTyped
    <3>2. sync'[e] = taken
      BY <1>1, <3>1 DEF MirrorTyped, Go
    <3>3. /\ vault.frozen = permissions.frozen /\ CapFollows /\ ~skipped
          /\ PayeesExact(s)
      BY <1>2, <2>1, <2>7, <3>1 DEF InStep, Progress
    <3>4. vault'.frozen = permissions.frozen /\ CapFollows'
      BY <1>3, <1>7, <3>1, <3>3 DEF CapFollows
    <3>5. PayeesExact(sync[e])'
      BY <1>2, <1>3, <1>5, <1>7, <3>1, <3>2, <3>3 DEF PayeesExact
    <3>6. Progress(sync[e])'
      BY <1>5, <1>7, <3>2, <3>3, <3>4, <3>5 DEF Progress
    <3>7. \A f \in Edits \ {e} : Progress(sync[f])'
      BY <2>3 DEF Progress, Done
    <3> QED
      BY <3>6, <3>7
  <2> QED
    BY <1>4, <1>5, <1>7, <2>2, <2>3, <2>6, <2>7 DEF InStep
<1> QED
  BY <1>8, <1>9 DEF MirrorInv

LEMMA RecordMirroredKeeps ==
    ASSUME MirrorInv, NEW e \in Edits, RecordMirrored(e)
    PROVE  MirrorInv'
<1> DEFINE s == sync[e]
<1>1. MirrorTyped /\ s \in SyncStates
  BY DEF MirrorInv, MirrorTyped
<1>2. /\ s.step = "payees" /\ s # Done /\ s.revoke = {} /\ s.allow = {}
      /\ s.kept \in SUBSET Payees
  BY <1>1, SyncShape DEF RecordMirrored, Done
<1>3. mirrored' = s.kept /\ Go(e, Done)
  BY DEF RecordMirrored
<1>4. UNCHANGED <<permissions, vault, serverIsOwner, document, leaked, unsaved,
                  reboots, skipped, crossed, misses>>
  BY DEF RecordMirrored, books
<1>5. MirrorTyped'
  <2>1. sync' \in [Edits -> SyncStates]
    BY <1>1, <1>3 DEF MirrorTyped, Go, SyncStates
  <2> QED
    BY <1>1, <1>2, <1>3, <1>4, <2>1 DEF MirrorTyped
<1>6. ASSUME ~crossed' PROVE (OneSync /\ OnBooks /\ InStep)'
  <2>1. OneSync /\ OnBooks /\ InStep
    BY <1>4, <1>6 DEF MirrorInv
  <2>2. /\ \A f \in Edits : sync'[f] = Done
        /\ OneSync'
    BY <1>1, <1>2, <1>3, <2>1, OneMoves DEF Go
  <2>3. OnBooks'
    BY <1>2, <1>3, <1>4, <2>1, <2>2 DEF OnBooks, Done
  <2>4. ASSUME serverIsOwner, misses = 0, reboots = 0 PROVE Rested'
    <3>1. /\ vault.frozen = permissions.frozen /\ CapFollows /\ ~skipped
          /\ PayeesExact(s)
      BY <1>2, <2>1, <2>4 DEF InStep, Progress
    <3> QED
      BY <1>2, <1>3, <1>4, <3>1 DEF Rested, CapFollows, PayeesExact
  <2>5. \A f \in Edits : Progress(sync[f])'
    BY <2>2 DEF Progress, Done
  <2> QED
    BY <1>4, <2>2, <2>3, <2>4, <2>5 DEF InStep
<1> QED
  BY <1>5, <1>6 DEF MirrorInv

LEMMA MirrorSaveKeeps == MirrorInv /\ MirrorSave => MirrorInv'
<1> SUFFICES ASSUME MirrorInv, MirrorSave PROVE MirrorInv'
  OBVIOUS
<1> USE DEF MirrorSave
<1>1. MirrorTyped
  BY DEF MirrorInv
<1>2. MirrorTyped'
  BY <1>1 DEF MirrorTyped
<1>3. ASSUME ~crossed' PROVE (OneSync /\ OnBooks /\ InStep)'
  <2>1. OneSync /\ OnBooks /\ InStep
    BY <1>3 DEF MirrorInv
  <2>2. vault.allowed \subseteq mirrored \cup unsaved \cup leaked
    BY <2>1 DEF OnBooks
  <2>3. document'.mirrored = mirrored
    OBVIOUS
  <2>4. OnBooks'
    BY <2>1, <2>2, <2>3 DEF OnBooks
  <2>5. OneSync' /\ InStep'
    BY <2>1 DEF OneSync, InStep, Rested, Progress, CapFollows, PayeesExact
  <2> QED
    BY <2>4, <2>5
<1> QED
  BY <1>2, <1>3 DEF MirrorInv

LEMMA MirrorRestartKeeps == MirrorInv /\ MirrorRestart => MirrorInv'
<1> SUFFICES ASSUME MirrorInv, MirrorRestart PROVE MirrorInv'
  OBVIOUS
<1> USE DEF MirrorRestart
<1>1. MirrorTyped
  BY DEF MirrorInv
<1>2. /\ \A e \in Edits : sync'[e] = Done
      /\ reboots' \in Nat /\ reboots' # 0
  BY <1>1 DEF MirrorTyped
<1>3. MirrorTyped'
  <2>1. sync' \in [Edits -> SyncStates]
    BY DEF SyncStates
  <2> QED
    BY <1>1, <1>2, <2>1 DEF MirrorTyped
<1>4. ASSUME ~crossed' PROVE (OneSync /\ OnBooks /\ InStep)'
  <2>1. OnBooks
    BY <1>4 DEF MirrorInv
  <2>2. OneSync' /\ InStep'
    BY <1>2 DEF OneSync, InStep
  <2>3. OnBooks'
    BY <1>2, <2>1 DEF OnBooks, Done
  <2> QED
    BY <2>2, <2>3
<1> QED
  BY <1>3, <1>4 DEF MirrorInv

LEMMA MirrorHolds == Spec => []MirrorInv
<1>1. Init => MirrorInv
  BY MirrorStarts
<1>2. MirrorInv /\ [Next]_vars => MirrorInv'
  <2> SUFFICES ASSUME MirrorInv, [Next]_vars PROVE MirrorInv'
    OBVIOUS
  <2>1. CASE MirrorNext
    BY <2>1, EditKeeps, ReadKeeps, PolicyKeeps, FrozenKeeps, RevokeKeeps,
       AllowKeeps, RecordMirroredKeeps, MirrorSaveKeeps, MirrorRestartKeeps
       DEF MirrorNext
  <2>2. CASE UNCHANGED mirrorVars
    BY <2>2 DEF mirrorVars, books, MirrorInv, MirrorTyped, OneSync, OnBooks, InStep,
                Rested, Progress, CapFollows, PayeesExact
  <2> QED
    BY <2>1, <2>2 DEF Next, vars
<1> QED
  BY <1>1, <1>2, PTL DEF Spec

(* Every payee the vault allows is on the books, or a sync is about to put  *)
(* it there, although revokes fail, go unanswered and are cut off by a      *)
(* restart (vault.ts, syncVaultPolicy), for any payees, caps, edits, misses *)
(* and restarts, while no two syncs cross. Two writes may leave one off the *)
(* books, and it is `leaked' until a later write of it is answered: an      *)
(* allow that landed with its answer lost, and one the platform restarted   *)
(* after, before the record of it was saved.                                *)
THEOREM AllowedKnown == Spec => []AllowedIsKnown
<1>1. MirrorInv => AllowedIsKnown
  <2> SUFFICES ASSUME MirrorInv, ~crossed
               PROVE  vault.allowed \subseteq Booked \cup leaked
    BY DEF AllowedIsKnown
  <2>1. OnBooks
    BY DEF MirrorInv
  <2>2. CASE \A e \in Edits : sync[e].step # "payees"
    BY <2>1, <2>2 DEF OnBooks, Booked
  <2>3. ASSUME NEW e \in Edits, sync[e].step = "payees"
        PROVE  vault.allowed \subseteq Booked \cup leaked
    <3>1. vault.allowed \subseteq OnTheBooks(e) \cup leaked
      BY <2>1, <2>3 DEF OnBooks, OnTheBooks
    <3> QED
      BY <3>1 DEF Booked
  <2> QED
    BY <2>2, <2>3
<1> QED
  BY <1>1, MirrorHolds, PTL

(* Once its syncs are over the vault is as the human left the permissions:  *)
(* frozen or not, the cap unless it is 0, and the payees unless the sync    *)
(* wrote nothing else (vault.ts, vault-adapter.ts), for any number of edits *)
(* that do not cross, the server signing and every call answered.           *)
THEOREM VaultFollowed == Spec => []VaultFollows
<1>1. MirrorInv => VaultFollows
  BY DEF MirrorInv, VaultFollows, AtRest, InFlight, InStep, Rested, CapFollows
<1> QED
  BY <1>1, MirrorHolds, PTL

-----------------------------------------------------------------------------
(* The task and its escrow.                                                 *)

JobStates == {"open", "funded", "submitted", "completed", "rejected"}
Final == {"completed", "rejected"}
Reached == {"none", "open", "funded", "delivered", "released", "refunded"}
OrderStates ==
    [op : {"none", "hire", "release", "dispute"},
     step : {"none", "create", "fund", "submit", "complete", "reject", "read"},
     job : Nat, made : BOOLEAN]

TaskTyped ==
    /\ keyed \in BOOLEAN
    /\ status \in Reached
    /\ jobs \in Seq(JobStates)
    /\ jobId \in 0..Len(jobs)
    /\ order \in [Orders -> OrderStates]
    /\ lost \in Nat /\ stops \in Nat
    /\ anew \in BOOLEAN /\ blind \in BOOLEAN
    /\ stored[1] \in Reached /\ stored[3] \in 0..Len(jobs)

(* What the step of a call says of the job J has for it.                    *)
OrderOk(r, J) ==
    /\ r.step = "none" <=> r = NoOrder
    /\ r.op = "none" <=> r = NoOrder
    /\ r.step \notin {"none", "create"} => r.job \in 1..Len(J)
    /\ r.op = "hire" => r.step \in {"create", "fund"}
    /\ r.step = "complete" => r.op = "release"
    /\ r.step = "reject" => r.op = "dispute"
    /\ r.step = "read" =>
          \/ r.op = "release" /\ J[r.job] = "completed"
          \/ r.op = "dispute" /\ J[r.job] = "rejected"

(* A task that ended st ended so in J; without a signer nothing is on chain.*)
EndTrue(st, how, J) ==
    /\ keyed /\ st = "released" => \E j \in 1..Len(J) : J[j] = "completed"
    /\ keyed /\ st = "refunded" => \E j \in 1..Len(J) : J[j] = "rejected"
    /\ keyed /\ st \in Terminal => how = "onchain"
    /\ ~keyed => how # "onchain"

BookInv ==
    /\ TaskTyped
    /\ \A o \in Orders : OrderOk(order[o], jobs)
    /\ EndTrue(status, settled, jobs)
    /\ EndTrue(stored[1], stored[4], jobs)
    /\ ~keyed => jobs = <<>> /\ \A o \in Orders : Free(o)

(* While no restart came, and no job was made at a settlement that another  *)
(* call or a failure may have caused, the one job is that of the hire.      *)
Plain == stops = 0 /\ ~(anew /\ (blind \/ lost > 0))
HireInv ==
    Plain =>
        /\ ~anew
        /\ Len(jobs) <= 1
        /\ status \in {"none", "open"} => jobs = <<>> /\ \A o \in Orders : Free(o)
        /\ \A o \in Orders : order[o].step = "create" =>
              order[o].op = "hire" /\ jobs = <<>>
        /\ \A o \in Orders : order[o].op = "hire" =>
              /\ jobId = 0 /\ keyed
              /\ \A n \in Orders \ {o} : Free(n)
              /\ order[o].step = "fund" => jobs[order[o].job] = "open"
        /\ keyed /\ lost = 0 /\ status \notin {"none", "open"} =>
              jobId # 0 \/ \E o \in Orders : order[o].op = "hire"

TaskInv == BookInv /\ HireInv

LEMMA TaskStarts == Init => TaskInv
<1> SUFFICES ASSUME Init PROVE TaskInv
  OBVIOUS
<1> USE DEF Init, TaskInit, task, NoOrder
<1>1. TaskTyped
  <2>1. stored[1] = "none" /\ stored[3] = 0
    OBVIOUS
  <2>2. jobs \in Seq(JobStates) /\ Len(jobs) = 0
    OBVIOUS
  <2>3. order \in [Orders -> OrderStates]
    BY DEF OrderStates
  <2>4. jobId \in 0..Len(jobs) /\ stored[3] \in 0..Len(jobs)
    BY <2>1, <2>2
  <2>5. status \in Reached /\ stored[1] \in Reached
    BY <2>1 DEF Reached
  <2>6. anew \in BOOLEAN /\ blind \in BOOLEAN /\ keyed \in BOOLEAN
    OBVIOUS
  <2>7. lost \in Nat /\ stops \in Nat
    OBVIOUS
  <2> QED
    BY <2>2, <2>3, <2>4, <2>5, <2>6, <2>7 DEF TaskTyped
<1>2. BookInv
  <2>1. \A o \in Orders : OrderOk(order[o], jobs) /\ Free(o)
    BY DEF OrderOk, Free
  <2>2. EndTrue(status, settled, jobs) /\ EndTrue(stored[1], stored[4], jobs)
    BY DEF EndTrue, Terminal
  <2> QED
    BY <1>1, <2>1, <2>2 DEF BookInv
<1>3. HireInv
  BY DEF HireInv, Free
<1> QED
  BY <1>2, <1>3 DEF TaskInv

(* Jobs are added and move on, and an end is an end.                        *)
Grows(J, K) ==
    /\ J \in Seq(JobStates) /\ K \in Seq(JobStates)
    /\ Len(J) <= Len(K)
    /\ \A j \in 1..Len(J) : J[j] \in Final => K[j] = J[j]

LEMMA GrowKeeps ==
    ASSUME NEW J, NEW K, Grows(J, K)
    PROVE  /\ \A r \in OrderStates : OrderOk(r, J) => OrderOk(r, K)
           /\ \A st, how : EndTrue(st, how, J) => EndTrue(st, how, K)
<1> USE DEF Grows, Final
<1>1. \A r \in OrderStates : OrderOk(r, J) => OrderOk(r, K)
  BY DEF OrderOk, OrderStates
<1>2. \A st, how : EndTrue(st, how, J) => EndTrue(st, how, K)
  BY DEF EndTrue
<1> QED
  BY <1>1, <1>2

LEMMA SeqExcept ==
    ASSUME NEW J \in Seq(JobStates), NEW j \in 1..Len(J), NEW x \in JobStates,
           J[j] \notin Final
    PROVE  /\ [J EXCEPT ![j] = x] \in Seq(JobStates)
           /\ Len([J EXCEPT ![j] = x]) = Len(J)
           /\ [J EXCEPT ![j] = x][j] = x
           /\ Grows(J, [J EXCEPT ![j] = x])
<1> DEFINE K == [J EXCEPT ![j] = x]
<1>1. K \in Seq(JobStates) /\ Len(K) = Len(J)
  OBVIOUS
<1>2. K[j] = x /\ \A i \in 1..Len(J) \ {j} : K[i] = J[i]
  OBVIOUS
<1> QED
  BY <1>1, <1>2 DEF Grows

(* The contract, step by step.                                              *)
LEMMA Contract ==
    ASSUME NEW step \in DOMAIN From
    PROVE  /\ step \in {"fund", "submit", "complete", "reject"}
           /\ From[step] \cap Final = {}
           /\ To[step] \in JobStates
           /\ step = "fund" => From[step] = {"open"}
           /\ step = "complete" => To[step] = "completed"
           /\ step = "reject" => To[step] = "rejected"
<1>1. step \in {"fund", "submit", "complete", "reject"}
  BY DEF From
<1> QED
  BY <1>1 DEF From, To, Final, JobStates

LEMMA NextStep ==
    ASSUME NEW o \in Orders, order[o].step \in {"fund", "submit", "complete", "reject"}
    PROVE  /\ order[o].step = "fund" =>
                 Following(o) = IF order[o].op = "hire" THEN "done" ELSE "submit"
           /\ order[o].step = "submit" =>
                 Following(o) = IF order[o].op = "release" THEN "complete" ELSE "reject"
           /\ order[o].step = "complete" => Following(o) = "read"
           /\ order[o].step = "reject" =>
                 Following(o) = IF order[o].made THEN "read" ELSE "done"
  BY DEF Following

(* A settlement on chain ends the task as the contract ended the escrow.    *)
LEMMA SettlementTrue ==
    ASSUME NEW J, NEW op \in {"release", "dispute"}, keyed,
           status \in Reached, EndTrue(status, settled, J),
           \E j \in 1..Len(J) :
              J[j] = IF op = "release" THEN "completed" ELSE "rejected",
           Transition(Outcome(op))
    PROVE  /\ status' \in Reached
           /\ status \notin {"none", "open"} => status' \notin {"none", "open"}
           /\ status \in {"none", "open"} => status' = status
           /\ EndTrue(status', "onchain", J)
<1>1. Outcome(op) = IF op = "release" THEN "released" ELSE "refunded"
  BY DEF Outcome
<1>2. status' = status \/ (status' = Outcome(op) /\ status \notin {"none", "open"})
  <2>1. status = "open" => ~CanTransition(Outcome(op))
    BY <1>1 DEF CanTransition, Transitions
  <2> QED
    BY <2>1 DEF Transition, CanTransition
<1> QED
  BY <1>1, <1>2 DEF EndTrue, Reached, Terminal

(* A call begins: the job it works on is on the books, or it makes one.     *)
LEMMA StartKeeps ==
    ASSUME NEW o \in Orders, Free(o), order \in [Orders -> OrderStates],
           NEW J \in Seq(JobStates), \A n \in Orders : OrderOk(order[n], J),
           NEW op \in {"hire", "release", "dispute"},
           NEW step \in {"create", "submit", "reject"}, NEW job \in 0..Len(J),
           step # "create" => job # 0 /\ op # "hire",
           step = "reject" => op = "dispute",
           Start(o, op, step, job)
    PROVE  /\ order' \in [Orders -> OrderStates]
           /\ \A n \in Orders : OrderOk(order'[n], J)
           /\ order'[o] = [op |-> op, step |-> step, job |-> job, made |-> step = "create"]
           /\ \A n \in Orders \ {o} : order'[n] = order[n]
<1> DEFINE r == [op |-> op, step |-> step, job |-> job, made |-> step = "create"]
<1>1. r \in OrderStates
  BY DEF OrderStates
<1>2. OrderOk(r, J)
  BY DEF OrderOk, NoOrder
<1>3. order' = [order EXCEPT ![o] = r]
  BY DEF Start
<1> QED
  BY <1>1, <1>2, <1>3

LEMMA EndKeeps ==
    ASSUME NEW o \in Orders, order \in [Orders -> OrderStates],
           NEW J, \A n \in Orders : OrderOk(order[n], J), End(o)
    PROVE  /\ order' \in [Orders -> OrderStates]
           /\ \A n \in Orders : OrderOk(order'[n], J)
           /\ order'[o] = NoOrder
           /\ \A n \in Orders \ {o} : order'[n] = order[n]
<1>1. NoOrder \in OrderStates /\ OrderOk(NoOrder, J)
  BY DEF NoOrder, OrderStates, OrderOk
<1> QED
  BY <1>1 DEF End

(* A step of a call that ends it with nothing done leaves what was true.    *)
LEMMA FailKeeps ==
    ASSUME TaskInv, NEW o \in Orders, ~Free(o), Fail(o),
           NEW K \in Seq(JobStates), Grows(jobs, K), jobs' = K,
           Len(K) = Len(jobs),
           lost' = lost + 1 \/ (lost' = lost /\ order[o].op # "hire"),
           UNCHANGED <<keyed, stored, stops, anew, blind>>
    PROVE  TaskInv'
<1>1. BookInv /\ HireInv /\ TaskTyped
  BY DEF TaskInv, BookInv
<1>2. UNCHANGED <<status, bid, jobId, settled>> /\ End(o)
  BY DEF Fail, task
<1>3. \A n \in Orders : OrderOk(order[n], K)
  BY <1>1, GrowKeeps DEF BookInv, TaskTyped
<1>4. /\ order' \in [Orders -> OrderStates]
      /\ \A n \in Orders : OrderOk(order'[n], K)
      /\ order'[o] = NoOrder
      /\ \A n \in Orders \ {o} : order'[n] = order[n]
  BY <1>1, <1>2, <1>3, EndKeeps DEF TaskTyped
<1>5. lost' \in Nat /\ lost' >= lost
  BY <1>1 DEF TaskTyped
<1>6. TaskTyped'
  BY <1>1, <1>2, <1>4, <1>5 DEF TaskTyped
<1>7. BookInv'
  <2>1. EndTrue(status, settled, K) /\ EndTrue(stored[1], stored[4], K)
    BY <1>1, GrowKeeps DEF BookInv
  <2>2. keyed
    BY <1>1 DEF BookInv
  <2> QED
    BY <1>2, <1>4, <1>6, <2>1, <2>2 DEF BookInv, EndTrue
<1>8. HireInv'
  <2> SUFFICES ASSUME Plain' PROVE HireInv'
    BY DEF HireInv
  <2>1. Plain
    BY <1>1, <1>5 DEF Plain, TaskTyped
  <2>2. \A n \in Orders : order'[n] = NoOrder \/ (n # o /\ order'[n] = order[n])
    BY <1>4
  <2>3. NoOrder.op = "none" /\ NoOrder.step = "none"
    BY DEF NoOrder
  <2>4. ~anew' /\ Len(jobs') <= 1
    BY <1>1, <2>1 DEF HireInv
  <2>5. status' \notin {"none", "open"}
    BY <1>1, <1>2, <2>1 DEF HireInv
  <2>6. \A n \in Orders : order'[n].step = "create" =>
           order'[n].op = "hire" /\ jobs' = <<>>
    <3>1. K # jobs => jobs # <<>>
      BY DEF Grows
    <3> QED
      BY <1>1, <2>1, <2>2, <2>3, <3>1 DEF HireInv
  <2>7. \A n \in Orders : order'[n].op # "hire"
    BY <1>1, <2>1, <2>2, <2>3 DEF HireInv
  <2>8. keyed /\ lost' = 0 => jobId' # 0
    BY <1>1, <1>2, <1>5, <2>1, <2>2, <2>5, <2>7 DEF HireInv, TaskTyped
  <2> QED
    BY <2>4, <2>5, <2>6, <2>7, <2>8 DEF HireInv
<1> QED
  BY <1>7, <1>8 DEF TaskInv

(* A hire, at once or through a bid, locks the price in escrow.             *)
LEMMA HireKeeps ==
    ASSUME TaskInv, NEW o \in Orders, HireAgent(o) \/ AcceptBid(o)
    PROVE  TaskInv'
<1>1. BookInv /\ HireInv /\ TaskTyped
  BY DEF TaskInv, BookInv
<1>2. /\ Free(o) /\ status \in {"none", "open"} /\ status' = "funded" /\ LockEscrow(o)
      /\ UNCHANGED <<keyed, bid, jobId, settled, jobs, lost, stored, stops, anew, blind>>
  BY DEF HireAgent, AcceptBid, kept
<1>3. ASSUME keyed
      PROVE  /\ order' \in [Orders -> OrderStates]
             /\ \A n \in Orders : OrderOk(order'[n], jobs)
             /\ order'[o] = [op |-> "hire", step |-> "create", job |-> 0, made |-> TRUE]
             /\ \A n \in Orders \ {o} : order'[n] = order[n]
  <2>1. Start(o, "hire", "create", 0)
    BY <1>2, <1>3 DEF LockEscrow
  <2>2. jobs \in Seq(JobStates) /\ 0 \in 0..Len(jobs)
    BY <1>1 DEF TaskTyped
  <2>3. order \in [Orders -> OrderStates] /\ \A n \in Orders : OrderOk(order[n], jobs)
    BY <1>1 DEF BookInv, TaskTyped
  <2> QED
    BY <1>2, <2>1, <2>2, <2>3, StartKeeps
<1>4. ASSUME ~keyed PROVE order' = order
  BY <1>2, <1>4 DEF LockEscrow
<1>5. TaskTyped'
  BY <1>1, <1>2, <1>3, <1>4 DEF TaskTyped, Reached
<1>6. BookInv'
  <2>1. EndTrue(status', settled, jobs)
    BY <1>1, <1>2 DEF BookInv, EndTrue, Terminal
  <2>2. \A n \in Orders : OrderOk(order'[n], jobs)
    BY <1>1, <1>3, <1>4 DEF BookInv
  <2>3. ~keyed => jobs = <<>> /\ \A n \in Orders : Free(n)'
    BY <1>1, <1>4 DEF BookInv, Free
  <2> QED
    BY <1>1, <1>2, <1>5, <2>1, <2>2, <2>3 DEF BookInv, EndTrue
<1>7. HireInv'
  <2> SUFFICES ASSUME Plain' PROVE HireInv'
    BY DEF HireInv
  <2>1. Plain
    BY <1>2 DEF Plain
  <2>2. ~anew /\ jobs = <<>> /\ \A n \in Orders : order[n] = NoOrder
    BY <1>1, <1>2, <2>1 DEF HireInv, Free
  <2>3. jobId = 0
    BY <1>1, <2>2 DEF TaskTyped
  <2>4. NoOrder.op = "none" /\ NoOrder.step = "none"
    BY DEF NoOrder
  <2>5. CASE keyed
    BY <1>2, <1>3, <2>2, <2>3, <2>4, <2>5 DEF HireInv, Free
  <2>6. CASE ~keyed
    BY <1>2, <1>4, <2>2, <2>3, <2>4, <2>6 DEF HireInv, Free
  <2> QED
    BY <1>1, <2>5, <2>6 DEF TaskTyped
<1> QED
  BY <1>6, <1>7 DEF TaskInv

(* A release or dispute begins, or ends at once without a signer.           *)
LEMMA SettleKeeps ==
    ASSUME TaskInv, NEW o \in Orders, NEW op \in {"release", "dispute"},
           SettleTask(o, op)
    PROVE  TaskInv'
<1>1. BookInv /\ HireInv /\ TaskTyped
  BY DEF TaskInv, BookInv
<1>2. /\ Free(o) /\ CanTransition(Outcome(op))
      /\ UNCHANGED <<keyed, jobs, lost, stored, stops>>
      /\ anew' = (anew \/ (jobId = 0 /\ keyed))
      /\ blind' = (blind \/ AtWork # {})
  BY DEF SettleTask, kept
<1>3. status \in {"funded", "delivered"}
  <2>1. Outcome(op) \in {"released", "refunded"}
    BY DEF Outcome
  <2>2. status \in {"none", "open", "funded", "delivered", "released", "refunded"}
    BY <1>1 DEF TaskTyped, Reached
  <2> QED
    BY <1>2, <2>1, <2>2 DEF CanTransition, Transitions
<1>4. anew' \in BOOLEAN /\ blind' \in BOOLEAN
  BY <1>2
<1>5. CASE jobId # 0
  <2> DEFINE step == IF op = "release" THEN "submit" ELSE "reject"
  <2>1. Start(o, op, step, jobId) /\ UNCHANGED <<status, bid, jobId, settled>>
    BY <1>5 DEF SettleTask, task
  <2>2. /\ order' \in [Orders -> OrderStates]
        /\ \A n \in Orders : OrderOk(order'[n], jobs)
        /\ order'[o] = [op |-> op, step |-> step, job |-> jobId, made |-> step = "create"]
        /\ \A n \in Orders \ {o} : order'[n] = order[n]
    BY <1>1, <1>2, <1>5, <2>1, StartKeeps DEF BookInv, TaskTyped
  <2>3. keyed
    BY <1>1, <1>5 DEF BookInv, TaskTyped
  <2>4. BookInv'
    BY <1>1, <1>2, <1>4, <2>1, <2>2, <2>3 DEF BookInv, TaskTyped, EndTrue
  <2>5. HireInv'
    <3> SUFFICES ASSUME Plain' PROVE HireInv'
      BY DEF HireInv
    <3>1. anew' = anew
      BY <1>1, <1>2, <1>5 DEF TaskTyped
    <3>2. Plain
      BY <1>2, <3>1 DEF Plain
    <3>3. \A n \in Orders : order[n].op # "hire" /\ order[n].step # "create"
      BY <1>1, <1>5, <3>2 DEF HireInv
    <3>4. \A n \in Orders : order'[n].op # "hire" /\ order'[n].step # "create"
      BY <2>2, <3>3
    <3> QED
      BY <1>1, <1>2, <1>3, <1>5, <2>1, <3>1, <3>2, <3>4 DEF HireInv
  <2> QED
    BY <2>4, <2>5 DEF TaskInv
<1>6. CASE jobId = 0 /\ keyed
  <2>1. Start(o, op, "create", 0) /\ UNCHANGED <<status, bid, jobId, settled>>
    BY <1>6 DEF SettleTask, task
  <2>2. /\ order' \in [Orders -> OrderStates]
        /\ \A n \in Orders : OrderOk(order'[n], jobs)
    <3>1. jobs \in Seq(JobStates) /\ 0 \in 0..Len(jobs)
      BY <1>1 DEF TaskTyped
    <3>2. order \in [Orders -> OrderStates] /\ \A n \in Orders : OrderOk(order[n], jobs)
      BY <1>1 DEF BookInv, TaskTyped
    <3> QED
      BY <1>2, <2>1, <3>1, <3>2, StartKeeps
  <2>3. BookInv'
    BY <1>1, <1>2, <1>4, <1>6, <2>1, <2>2 DEF BookInv, TaskTyped, EndTrue
  <2>4. ~Plain'
    <3> SUFFICES ASSUME Plain' PROVE FALSE
      OBVIOUS
    <3>1. anew'
      BY <1>2, <1>6
    <3>2. ~blind' /\ ~(lost > 0) /\ stops = 0
      BY <1>2, <3>1 DEF Plain
    <3>3. ~blind /\ AtWork = {}
      BY <1>2, <3>2
    <3>4. lost = 0 /\ Plain
      BY <1>1, <3>2, <3>3 DEF Plain, TaskTyped
    <3>5. PICK n \in Orders : order[n].op = "hire"
      BY <1>1, <1>3, <1>6, <3>4 DEF HireInv
    <3>6. ~Free(n)
      BY <3>5 DEF Free, NoOrder
    <3> QED
      BY <3>3, <3>6 DEF AtWork
  <2> QED
    BY <2>3, <2>4 DEF TaskInv, HireInv
<1>7. CASE jobId = 0 /\ ~keyed
  <2>1. Settle(o, op, "simulated") /\ bid' = bid
    BY <1>7 DEF SettleTask
  <2>2. settled' = "simulated" /\ jobId' = jobId /\ End(o) /\ Transition(Outcome(op))
    BY <2>1 DEF Settle
  <2>3. /\ order' \in [Orders -> OrderStates]
        /\ \A n \in Orders : OrderOk(order'[n], jobs)
        /\ \A n \in Orders : order'[n] = NoOrder
    BY <1>1, <1>7, <2>2, EndKeeps DEF BookInv, TaskTyped, Free
  <2>4. status' \in {"released", "refunded"}
    BY <1>2, <2>2 DEF Transition, Outcome
  <2>5. BookInv'
    BY <1>1, <1>2, <1>4, <1>7, <2>2, <2>3, <2>4
       DEF BookInv, TaskTyped, EndTrue, Reached, Free
  <2>6. HireInv'
    BY <1>1, <1>2, <1>7, <2>2, <2>3, <2>4 DEF HireInv, Plain, BookInv, Free, NoOrder
  <2> QED
    BY <2>5, <2>6 DEF TaskInv
<1> QED
  BY <1>1, <1>5, <1>6, <1>7 DEF TaskTyped

(* A job is created, or the call ends.                                      *)
LEMMA CreateKeeps ==
    ASSUME TaskInv, NEW o \in Orders, CreateJob(o)
    PROVE  TaskInv'
<1>1. BookInv /\ HireInv /\ TaskTyped
  BY DEF TaskInv, BookInv
<1>2. /\ order[o].step = "create" /\ ~Free(o)
      /\ UNCHANGED <<keyed, stored, stops, anew, blind>>
  BY DEF CreateJob, Free, NoOrder, kept
<1>3. CASE Lost /\ Fail(o) /\ UNCHANGED jobs
  <2>1. Grows(jobs, jobs)
    BY <1>1 DEF Grows, TaskTyped
  <2> QED
    BY <1>1, <1>2, <1>3, <2>1, FailKeeps DEF Lost, TaskTyped
<1>4. CASE /\ jobs' = Append(jobs, "open")
           /\ order' = [order EXCEPT ![o].step = "fund", ![o].job = Len(jobs) + 1]
           /\ UNCHANGED <<task, lost>>
  <2> DEFINE K == Append(jobs, "open")
             r == [order[o] EXCEPT !.step = "fund", !.job = Len(jobs) + 1]
  <2>1. /\ K \in Seq(JobStates) /\ Len(K) = Len(jobs) + 1
        /\ K[Len(jobs) + 1] = "open" /\ Grows(jobs, K)
    BY <1>1 DEF Grows, TaskTyped, JobStates
  <2>2. UNCHANGED <<status, bid, jobId, settled, lost>>
    BY <1>4 DEF task
  <2>3. /\ r \in OrderStates /\ r.step = "fund" /\ r.job = Len(jobs) + 1
        /\ r.op = order[o].op
    <3>1. order[o] \in OrderStates /\ Len(jobs) + 1 \in Nat
      BY <1>1 DEF TaskTyped
    <3> QED
      BY <3>1 DEF OrderStates
  <2>4. /\ order' = [order EXCEPT ![o] = r]
        /\ order' \in [Orders -> OrderStates]
    BY <1>1, <1>4, <2>3 DEF TaskTyped
  <2>5. \A n \in Orders : OrderOk(order'[n], K)
    <3>1. \A n \in Orders : OrderOk(order[n], K)
      BY <1>1, <2>1, GrowKeeps DEF BookInv, TaskTyped
    <3>2. OrderOk(r, K)
      <4>1. order[o].op \in {"hire", "release", "dispute"}
        BY <1>1, <1>2, <3>1 DEF OrderOk, TaskTyped, OrderStates, Free
      <4>2. r.op # "none" /\ r # NoOrder
        BY <2>3, <4>1 DEF NoOrder
      <4>3. r.job \in 1..Len(K)
        BY <1>1, <2>1, <2>3 DEF TaskTyped
      <4> QED
        BY <2>3, <4>2, <4>3 DEF OrderOk
    <3> QED
      BY <1>1, <2>4, <3>1, <3>2 DEF TaskTyped
  <2>6. TaskTyped'
    BY <1>1, <1>2, <1>4, <2>1, <2>2, <2>4 DEF TaskTyped
  <2>7. BookInv'
    <3>1. EndTrue(status, settled, K) /\ EndTrue(stored[1], stored[4], K)
      BY <1>1, <2>1, GrowKeeps DEF BookInv
    <3>2. keyed
      BY <1>1, <1>2 DEF BookInv
    <3> QED
      BY <1>2, <1>4, <2>2, <2>5, <2>6, <3>1, <3>2 DEF BookInv, EndTrue
  <2>8. HireInv'
    <3> SUFFICES ASSUME Plain' PROVE HireInv'
      BY DEF HireInv
    <3>1. Plain
      BY <1>2, <2>2 DEF Plain
    <3>2. order[o].op = "hire" /\ jobs = <<>>
      BY <1>1, <1>2, <3>1 DEF HireInv
    <3>3. jobId = 0 /\ keyed /\ \A n \in Orders \ {o} : order[n] = NoOrder
      BY <1>1, <3>1, <3>2 DEF HireInv, Free
    <3>4. order'[o] = r /\ \A n \in Orders \ {o} : order'[n] = NoOrder
      BY <1>1, <2>4, <3>3 DEF TaskTyped
    <3>5. ~anew /\ status \notin {"none", "open"}
      BY <1>1, <1>2, <3>1 DEF HireInv
    <3>6. Len(K) = 1 /\ K[r.job] = "open" /\ r.step = "fund" /\ r.op = "hire"
      BY <2>1, <2>3, <3>2
    <3>7. NoOrder.op = "none" /\ NoOrder.step = "none"
      BY DEF NoOrder
    <3>8. \A n \in Orders : order'[n].step # "create"
      BY <3>4, <3>6, <3>7
    <3>9. \A n \in Orders : order'[n].op = "hire" =>
             /\ \A m \in Orders \ {n} : Free(m)'
             /\ order'[n].step = "fund" => K[order'[n].job] = "open"
      BY <3>4, <3>6, <3>7 DEF Free
    <3>10. order'[o].op = "hire"
      BY <3>4, <3>6
    <3>11. jobs' = K
      BY <1>4
    <3> HIDE DEF K
    <3>12. ~anew' /\ Len(jobs') <= 1 /\ status' \notin {"none", "open"}
      BY <1>2, <2>2, <3>5, <3>6, <3>11
    <3>13. \A n \in Orders : order'[n].op = "hire" =>
              /\ jobId' = 0 /\ keyed'
              /\ \A m \in Orders \ {n} : Free(m)'
              /\ order'[n].step = "fund" => jobs'[order'[n].job] = "open"
      BY <1>2, <2>2, <3>3, <3>9, <3>11
    <3> QED
      BY <3>8, <3>10, <3>12, <3>13 DEF HireInv
  <2> QED
    BY <2>7, <2>8 DEF TaskInv
<1> QED
  BY <1>3, <1>4 DEF CreateJob

(* A call whose chain work is over puts what it did on the task.            *)
LEMMA ConcludeKeeps ==
    ASSUME TaskInv, NEW o \in Orders, ~Free(o), Conclude(o), UNCHANGED bid,
           NEW K \in Seq(JobStates), Grows(jobs, K), jobs' = K, Len(K) = Len(jobs),
           order[o].step # "create",
           order[o].op = "release" => K[order[o].job] = "completed",
           order[o].op = "dispute" => K[order[o].job] = "rejected",
           UNCHANGED <<keyed, lost, stored, stops, anew, blind>>
    PROVE  TaskInv'
<1>1. BookInv /\ HireInv /\ TaskTyped
  BY DEF TaskInv, BookInv
<1>2. keyed
  BY <1>1 DEF BookInv
<1>3. /\ order[o].op \in {"hire", "release", "dispute"}
      /\ order[o].job \in 1..Len(jobs)
  BY <1>1 DEF BookInv, OrderOk, TaskTyped, OrderStates, Free
<1>4. \A n \in Orders : OrderOk(order[n], K)
  BY <1>1, GrowKeeps DEF BookInv, TaskTyped
<1>5. EndTrue(status, settled, K) /\ EndTrue(stored[1], stored[4], K)
  BY <1>1, GrowKeeps DEF BookInv
<1>6. /\ End(o)
      /\ jobId' \in {jobId, order[o].job}
      /\ order[o].op = "hire" => jobId' = order[o].job
      /\ status' \in Reached
      /\ status' \in {"none", "open"} => status' = status
      /\ EndTrue(status', settled', K)
  <2>1. CASE order[o].op = "hire"
    BY <1>1, <1>5, <2>1 DEF Conclude, TaskTyped
  <2>2. CASE order[o].op \in {"release", "dispute"}
    <3>1. Settle(o, order[o].op, "onchain")
      BY <2>2 DEF Conclude
    <3>2. /\ settled' = "onchain" /\ Transition(Outcome(order[o].op)) /\ End(o)
          /\ jobId' \in {jobId, order[o].job}
      BY <3>1 DEF Settle
    <3>3. \E j \in 1..Len(K) :
             K[j] = IF order[o].op = "release" THEN "completed" ELSE "rejected"
      BY <1>3, <2>2
    <3>4. status \in Reached
      BY <1>1 DEF TaskTyped
    <3>5. /\ status' \in Reached /\ EndTrue(status', "onchain", K)
          /\ status \notin {"none", "open"} => status' \notin {"none", "open"}
          /\ status \in {"none", "open"} => status' = status
      BY <1>2, <1>5, <2>2, <3>2, <3>3, <3>4, SettlementTrue
    <3> QED
      BY <2>2, <3>2, <3>5
  <2> QED
    BY <1>3, <2>1, <2>2
<1>7. /\ order' \in [Orders -> OrderStates]
      /\ \A n \in Orders : OrderOk(order'[n], K)
      /\ order'[o] = NoOrder
      /\ \A n \in Orders \ {o} : order'[n] = order[n]
  BY <1>1, <1>4, <1>6, EndKeeps DEF TaskTyped
<1>8. TaskTyped'
  BY <1>1, <1>3, <1>6, <1>7 DEF TaskTyped
<1>9. BookInv'
  BY <1>2, <1>5, <1>6, <1>7, <1>8 DEF BookInv, EndTrue
<1>10. HireInv'
  <2> SUFFICES ASSUME Plain' PROVE HireInv'
    BY DEF HireInv
  <2>1. Plain
    BY DEF Plain
  <2>2. ~anew /\ Len(K) <= 1 /\ status \notin {"none", "open"}
    BY <1>1, <2>1 DEF HireInv
  <2>3. NoOrder.op = "none" /\ NoOrder.step = "none"
    BY DEF NoOrder
  <2>4. \A n \in Orders : order'[n].step # "create"
    <3>1. jobs # <<>>
      BY <1>3
    <3> QED
      BY <1>1, <1>7, <2>1, <2>3, <3>1 DEF HireInv
  <2>5. \A n \in Orders : order'[n].op # "hire"
    BY <1>1, <1>7, <2>1, <2>3 DEF HireInv
  <2>6. lost = 0 => jobId' # 0
    BY <1>1, <1>2, <1>3, <1>6, <1>7, <2>1, <2>2, <2>5 DEF HireInv, TaskTyped
  <2> QED
    BY <1>6, <2>2, <2>4, <2>5, <2>6 DEF HireInv
<1> QED
  BY <1>9, <1>10 DEF TaskInv

(* A transaction of a call: refused, landed, or without an answer.          *)
LEMMA TransactKeeps ==
    ASSUME TaskInv, NEW o \in Orders, Transact(o)
    PROVE  TaskInv'
<1> DEFINE step == order[o].step
           j    == order[o].job
           landed == [jobs EXCEPT ![j] = To[step]]
<1>1. BookInv /\ HireInv /\ TaskTyped
  BY DEF TaskInv, BookInv
<1>2. /\ step \in DOMAIN From
      /\ UNCHANGED <<keyed, stored, stops, anew, blind>>
  BY DEF Transact, kept
<1>3. /\ step \in {"fund", "submit", "complete", "reject"}
      /\ From[step] \cap Final = {} /\ To[step] \in JobStates
      /\ step = "fund" => From[step] = {"open"}
      /\ step = "complete" => To[step] = "completed"
      /\ step = "reject" => To[step] = "rejected"
  BY <1>2, Contract
<1>4. /\ order[o] \in OrderStates /\ OrderOk(order[o], jobs)
      /\ jobs \in Seq(JobStates)
  BY <1>1 DEF BookInv, TaskTyped
<1>5. /\ ~Free(o) /\ j \in 1..Len(jobs)
      /\ order[o].op \in {"hire", "release", "dispute"}
  BY <1>3, <1>4 DEF OrderOk, OrderStates, Free, NoOrder
<1>6. Grows(jobs, jobs)
  BY <1>4 DEF Grows
<1>7. ASSUME jobs[j] \in From[step]
      PROVE  /\ landed \in Seq(JobStates) /\ Len(landed) = Len(jobs)
             /\ landed[j] = To[step] /\ Grows(jobs, landed)
  <2>1. jobs[j] \notin Final
    BY <1>3, <1>7
  <2> QED
    BY <1>3, <1>4, <1>5, <2>1, SeqExcept
<1> HIDE DEF landed
<1>8. CASE jobs[j] \notin From[step] /\ Fail(o) /\ UNCHANGED <<jobs, lost>>
  <2>1. CASE order[o].op # "hire"
    BY <1>2, <1>4, <1>5, <1>6, <1>8, <2>1, FailKeeps
  <2>2. CASE order[o].op = "hire"
    <3>1. step = "fund" /\ jobs[j] # "open"
      BY <1>3, <1>4, <1>8, <2>2 DEF OrderOk
    <3>2. ~Plain
      BY <1>1, <2>2, <3>1 DEF HireInv
    <3>3. UNCHANGED <<status, bid, jobId, settled>> /\ End(o)
      BY <1>8 DEF Fail, task
    <3>4. /\ order' \in [Orders -> OrderStates]
          /\ \A n \in Orders : OrderOk(order'[n], jobs)
      BY <1>1, <3>3, EndKeeps DEF BookInv, TaskTyped
    <3>5. BookInv'
      BY <1>1, <1>2, <1>5, <1>8, <3>3, <3>4 DEF BookInv, TaskTyped, EndTrue
    <3>6. ~Plain'
      BY <1>2, <1>8, <3>2 DEF Plain
    <3> QED
      BY <3>5, <3>6 DEF TaskInv, HireInv
  <2> QED
    BY <2>1, <2>2
<1>9. CASE jobs[j] \in From[step] /\ jobs' \in {jobs, landed} /\ Lost /\ Fail(o)
  <2>1. jobs' \in Seq(JobStates) /\ Len(jobs') = Len(jobs) /\ Grows(jobs, jobs')
    BY <1>4, <1>6, <1>7, <1>9
  <2> QED
    BY <1>2, <1>5, <1>9, <2>1, FailKeeps DEF Lost
<1>10. CASE jobs[j] \in From[step] /\ jobs' = landed /\ Proceed(o) /\ UNCHANGED lost
  <2>1. CASE Following(o) = "done"
    <3>1. Conclude(o) /\ UNCHANGED bid
      BY <1>10, <2>1 DEF Proceed
    <3>2. (step = "fund" /\ order[o].op = "hire") \/ step = "reject"
      BY <1>3, <2>1, NextStep
    <3>3. /\ order[o].op = "release" => landed[j] = "completed"
          /\ order[o].op = "dispute" => landed[j] = "rejected"
      BY <1>3, <1>4, <1>7, <1>10, <3>2 DEF OrderOk
    <3>4. step # "create"
      BY <1>3
    <3>5. /\ landed \in Seq(JobStates) /\ Grows(jobs, landed) /\ Len(landed) = Len(jobs)
      BY <1>7, <1>10
    <3> QED
      BY <1>2, <1>5, <1>10, <3>1, <3>3, <3>4, <3>5, ConcludeKeeps
  <2>2. CASE Following(o) # "done"
    <3> DEFINE r == [order[o] EXCEPT !.step = Following(o)]
    <3>1. order' = [order EXCEPT ![o] = r] /\ UNCHANGED <<status, bid, jobId, settled>>
      BY <1>1, <1>10, <2>2 DEF Proceed, task, TaskTyped
    <3>2. /\ Following(o) \in {"submit", "complete", "reject", "read"}
          /\ step = "fund" => order[o].op # "hire"
          /\ Following(o) = "complete" => order[o].op = "release"
          /\ Following(o) = "reject" => order[o].op # "release" /\ step = "submit"
          /\ Following(o) = "read" => step \in {"complete", "reject"}
      BY <1>3, <2>2, NextStep
    <3>3. /\ r \in OrderStates /\ r.step = Following(o) /\ r.op = order[o].op
          /\ r.job = j
      BY <1>4, <3>2 DEF OrderStates
    <3>4. order[o].op \in {"release", "dispute"}
      BY <1>3, <1>4, <1>5, <3>2 DEF OrderOk
    <3>5. OrderOk(r, landed)
      <4>1. r # NoOrder
        BY <3>3, <3>4 DEF NoOrder
      <4>2. r.job \in 1..Len(landed)
        BY <1>5, <1>7, <1>10, <3>3
      <4>3. r.step = "read" =>
               \/ r.op = "release" /\ landed[r.job] = "completed"
               \/ r.op = "dispute" /\ landed[r.job] = "rejected"
        BY <1>3, <1>4, <1>7, <1>10, <3>2, <3>3 DEF OrderOk
      <4> QED
        BY <3>2, <3>3, <3>4, <4>1, <4>2, <4>3 DEF OrderOk
    <3>6. /\ landed \in Seq(JobStates) /\ Len(landed) = Len(jobs) /\ Grows(jobs, landed)
      BY <1>7, <1>10
    <3> HIDE DEF r
    <3>7. /\ order' \in [Orders -> OrderStates]
          /\ \A n \in Orders : OrderOk(order'[n], landed)
          /\ order'[o] = r /\ \A n \in Orders \ {o} : order'[n] = order[n]
      <4>1. \A n \in Orders : OrderOk(order[n], landed)
        BY <1>1, <3>6, GrowKeeps DEF BookInv, TaskTyped
      <4> QED
        BY <1>1, <3>1, <3>3, <3>5, <4>1 DEF TaskTyped
    <3>8. BookInv'
      <4>1. EndTrue(status, settled, landed) /\ EndTrue(stored[1], stored[4], landed)
        BY <1>1, <3>6, GrowKeeps DEF BookInv
      <4>2. keyed
        BY <1>1, <1>5 DEF BookInv
      <4> QED
        BY <1>1, <1>2, <1>10, <3>1, <3>6, <3>7, <4>1, <4>2
           DEF BookInv, TaskTyped, EndTrue
    <3>9. HireInv'
      <4> SUFFICES ASSUME Plain' PROVE HireInv'
        BY DEF HireInv
      <4>1. Plain
        BY <1>2, <1>10 DEF Plain
      <4>2. \A n \in Orders : order'[n].op # "hire"
        BY <1>1, <1>5, <3>3, <3>4, <3>7, <4>1 DEF HireInv
      <4>3. \A n \in Orders : order[n].op # "hire"
        BY <1>1, <1>5, <3>4, <4>1 DEF HireInv
      <4>4. \A n \in Orders : order'[n].step # "create"
        BY <1>1, <3>2, <3>3, <3>7, <4>1, <4>3 DEF HireInv
      <4> QED
        BY <1>1, <1>2, <1>5, <1>10, <3>1, <3>6, <4>1, <4>2, <4>3, <4>4 DEF HireInv
    <3> QED
      BY <3>8, <3>9 DEF TaskInv
  <2> QED
    BY <2>1, <2>2
<1> QED
  BY <1>8, <1>9, <1>10 DEF Transact, landed

(* The job is read back.                                                    *)
LEMMA ReadJobKeeps ==
    ASSUME TaskInv, NEW o \in Orders, ReadJob(o)
    PROVE  TaskInv'
<1>1. BookInv /\ HireInv /\ TaskTyped
  BY DEF TaskInv, BookInv
<1>2. /\ order[o].step = "read"
      /\ UNCHANGED <<keyed, jobs, stored, stops, anew, blind>>
  BY DEF ReadJob, kept
<1>3. ~Free(o)
  BY <1>2 DEF Free, NoOrder
<1>4. Grows(jobs, jobs) /\ jobs \in Seq(JobStates)
  BY <1>1 DEF Grows, TaskTyped
<1>5. CASE Conclude(o) /\ UNCHANGED <<bid, lost>>
  <2>1. /\ order[o].op = "release" => jobs[order[o].job] = "completed"
        /\ order[o].op = "dispute" => jobs[order[o].job] = "rejected"
    BY <1>1, <1>2 DEF BookInv, OrderOk
  <2> QED
    BY <1>2, <1>3, <1>4, <1>5, <2>1, ConcludeKeeps
<1>6. CASE Lost /\ Fail(o)
  BY <1>2, <1>3, <1>4, <1>6, FailKeeps DEF Lost
<1> QED
  BY <1>5, <1>6 DEF ReadJob

(* The rest: the task as the parties move it, and the process that saves it *)
(* and restarts.                                                            *)
LEMMA OtherKeeps ==
    ASSUME TaskInv, PostOpenTask \/ BidOnTask \/ DeliverTask \/ Save \/ Restart
    PROVE  TaskInv'
<1>1. BookInv /\ HireInv /\ TaskTyped
  BY DEF TaskInv, BookInv
<1>2. CASE PostOpenTask \/ BidOnTask \/ DeliverTask
  <2>1. /\ status' \in Reached
        /\ UNCHANGED <<keyed, jobId, settled, jobs, order, lost, stored, stops, anew, blind>>
        /\ status' \notin Terminal \/ status' = status
        /\ status' \in {"none", "open"} <=> status \in {"none", "open"}
    BY <1>1, <1>2 DEF PostOpenTask, BidOnTask, DeliverTask, CanTransition,
                      Transitions, Terminal, TaskTyped, Reached, kept
  <2>2. BookInv'
    BY <1>1, <2>1 DEF BookInv, TaskTyped, EndTrue, Terminal, Free
  <2>3. HireInv'
    BY <1>1, <2>1 DEF HireInv, Plain, Free
  <2> QED
    BY <2>2, <2>3 DEF TaskInv
<1>3. CASE Save
  <2>1. /\ stored'[1] = status /\ stored'[3] = jobId /\ stored'[4] = settled
        /\ UNCHANGED <<status, bid, jobId, settled, keyed, jobs, order, lost, stops,
                       anew, blind>>
    BY <1>3 DEF Save, task
  <2>2. BookInv'
    BY <1>1, <2>1 DEF BookInv, TaskTyped, EndTrue, Free
  <2>3. HireInv'
    BY <1>1, <2>1 DEF HireInv, Plain, Free
  <2> QED
    BY <2>2, <2>3 DEF TaskInv
<1>4. CASE Restart
  <2>1. /\ stops' = stops + 1
        /\ status' = stored[1] /\ jobId' = stored[3] /\ settled' = stored[4]
        /\ order' = [o \in Orders |-> NoOrder]
        /\ UNCHANGED <<keyed, jobs, lost, stored, anew, blind>>
    BY <1>4 DEF Restart
  <2>2. NoOrder \in OrderStates /\ OrderOk(NoOrder, jobs)
    BY DEF NoOrder, OrderStates, OrderOk
  <2>3. TaskTyped'
    BY <1>1, <2>1, <2>2 DEF TaskTyped
  <2>4. BookInv'
    BY <1>1, <2>1, <2>2, <2>3 DEF BookInv, EndTrue, Free
  <2>5. ~Plain'
    BY <1>1, <2>1 DEF Plain, TaskTyped
  <2> QED
    BY <2>4, <2>5 DEF TaskInv, HireInv
<1> QED
  BY <1>2, <1>3, <1>4

LEMMA TaskHolds == Spec => []TaskInv
<1>1. Init => TaskInv
  BY TaskStarts
<1>2. TaskInv /\ [Next]_vars => TaskInv'
  <2> SUFFICES ASSUME TaskInv, [Next]_vars PROVE TaskInv'
    OBVIOUS
  <2>1. CASE TaskNext
    BY <2>1, HireKeeps, SettleKeeps, CreateKeeps, TransactKeeps, ReadJobKeeps,
       OtherKeeps DEF TaskNext
  <2>2. CASE UNCHANGED taskVars
    BY <2>2 DEF taskVars, task, kept, TaskInv, BookInv, HireInv, TaskTyped, EndTrue,
                Free, Plain
  <2> QED
    BY <2>1, <2>2 DEF Next, vars
<1> QED
  BY <1>1, <1>2, PTL DEF Spec

(* A task released with a signer at hand was paid on chain, and a refunded  *)
(* one refunded, whatever calls overlap, however many transactions fail or  *)
(* go unanswered, and wherever the process restarts (tasks.ts).             *)
THEOREM SettlementTold == Spec => []SettledIsTrue
<1>1. TaskInv => SettledIsTrue
  <2> SUFFICES ASSUME TaskInv PROVE SettledIsTrue
    OBVIOUS
  <2>1. EndTrue(status, settled, jobs) /\ jobs \in Seq(JobStates)
    BY DEF TaskInv, BookInv, TaskTyped
  <2>2. keyed /\ status = "released" => Ended("completed") # {}
    BY <2>1 DEF EndTrue, Ended
  <2>3. keyed /\ status = "refunded" => Ended("rejected") # {}
    BY <2>1 DEF EndTrue, Ended
  <2> QED
    BY <2>1, <2>2, <2>3 DEF SettledIsTrue, EndTrue
<1> QED
  BY <1>1, TaskHolds, PTL

(* The job a task that ended names is the one that ended so.                *)
EndsSo(st, id, J) ==
    /\ st = "released" => id \in 1..Len(J) /\ J[id] = "completed"
    /\ st = "refunded" => id \in 1..Len(J) /\ J[id] = "rejected"

Settling(o) == order[o].op \in {"release", "dispute"}
Alone(o) == \A n \in Orders \ {o} : Free(n)
Clean == keyed /\ ~(anew /\ blind)

(* A settlement works on the job on the books, unless it made its own; then *)
(* it is alone, as a hire is, and the task has not ended.                   *)
Locked ==
    /\ \A o \in Orders : order[o].step = "create" => order[o].made
    /\ \A o \in Orders : Settling(o) /\ order[o].made => anew
    /\ Clean =>
          /\ EndsSo(status, jobId, jobs) /\ EndsSo(stored[1], stored[3], jobs)
          /\ \A o \in Orders : Settling(o) /\ ~order[o].made => order[o].job = jobId
          /\ \A o \in Orders : Settling(o) /\ order[o].made => Alone(o) /\ status \notin Terminal
          /\ \A o \in Orders : order[o].op = "hire" =>
                Alone(o) /\ jobId = 0 /\ status \notin Terminal
          /\ status \in {"none", "open"} => jobId = 0 /\ \A o \in Orders : Free(o)
          /\ stored[1] \in {"none", "open"} => stored[3] = 0

LEMMA GrowEnds ==
    ASSUME NEW J, NEW K, Grows(J, K), NEW st, NEW id, EndsSo(st, id, J)
    PROVE  EndsSo(st, id, K)
<1>1. Len(J) \in Nat /\ Len(K) \in Nat /\ Len(J) <= Len(K)
  BY DEF Grows
<1>2. \A j \in 1..Len(J) : j \in 1..Len(K)
  BY <1>1
<1> QED
  BY <1>2 DEF Grows, EndsSo, Final

LEMMA Nothing ==
    NoOrder.op = "none" /\ NoOrder.step = "none" /\ NoOrder.made = FALSE
  BY DEF NoOrder

LEMMA LockedStarts == Init => Locked
<1> SUFFICES ASSUME Init PROVE Locked
  OBVIOUS
<1>1. \A o \in Orders : order[o] = NoOrder
  BY DEF Init, TaskInit
<1>2. /\ status = "none" /\ jobId = 0
      /\ stored[1] = "none" /\ stored[3] = 0
  BY DEF Init, TaskInit, task
<1> QED
  BY <1>1, <1>2, Nothing DEF Locked, EndsSo, Settling, Free

(* Calls that end with nothing done, or go on with the job they have.       *)
LEMMA QuietLocked ==
    ASSUME TaskInv, Locked, UNCHANGED <<keyed, status, jobId, stored, anew, blind>>,
           Grows(jobs, jobs'),
           \A n \in Orders :
              \/ order'[n] = NoOrder
              \/ order'[n] = order[n]
              \/ /\ order[n] # NoOrder
                 /\ order'[n].op = order[n].op /\ order'[n].made = order[n].made
                 /\ order'[n].step # "create"
                 /\ order[n].made \/ order'[n].job = order[n].job
    PROVE  Locked'
<1>1. \A n \in Orders : Free(n) => Free(n)'
  BY DEF Free
<1>2. \A n \in Orders : order'[n].op # "none" =>
         /\ order'[n].op = order[n].op /\ order'[n].made = order[n].made
         /\ order[n].made \/ order'[n].job = order[n].job
  BY Nothing
<1>3. \A n \in Orders : order'[n].step = "create" => order'[n].made
  BY Nothing DEF Locked
<1>4. \A n \in Orders : Settling(n)' =>
         /\ Settling(n) /\ (order'[n].made <=> order[n].made)
         /\ order[n].made \/ order'[n].job = order[n].job
  BY <1>2 DEF Settling
<1>5. \A n \in Orders : (order[n].op = "hire")' => order[n].op = "hire"
  BY <1>2
<1>6. \A n \in Orders : Alone(n) => Alone(n)'
  BY <1>1 DEF Alone
<1>7. ASSUME Clean
      PROVE  EndsSo(status', jobId', jobs') /\ EndsSo(stored'[1], stored'[3], jobs')
  BY <1>7, GrowEnds DEF Locked
<1>8. Clean' => Clean
  BY DEF Clean
<1> QED
  BY <1>1, <1>3, <1>4, <1>5, <1>6, <1>7, <1>8 DEF Locked

(* A call begins on its own, or with the job on the books.                  *)
LEMMA HireLocked ==
    ASSUME TaskInv, Locked, NEW o \in Orders, HireAgent(o) \/ AcceptBid(o)
    PROVE  Locked'
<1>1. BookInv /\ TaskTyped
  BY DEF TaskInv, BookInv
<1>2. /\ Free(o) /\ status \in {"none", "open"} /\ status' = "funded" /\ LockEscrow(o)
      /\ UNCHANGED <<keyed, jobId, jobs, stored, anew, blind>>
  BY DEF HireAgent, AcceptBid, kept
<1>3. CASE keyed
  <2> DEFINE r == [op |-> "hire", step |-> "create", job |-> 0, made |-> TRUE]
  <2>1. order' = [order EXCEPT ![o] = r]
    BY <1>2, <1>3 DEF LockEscrow, Start
  <2>2. order'[o] = r /\ \A n \in Orders \ {o} : order'[n] = order[n]
    BY <1>1, <2>1 DEF TaskTyped
  <2>3. r.op = "hire" /\ r.made /\ r.step = "create"
    OBVIOUS
  <2> HIDE DEF r
  <2>4. \A n \in Orders : order'[n].step = "create" => order'[n].made
    BY <2>2, <2>3 DEF Locked
  <2>5. \A n \in Orders : Settling(n)' => n # o /\ order'[n] = order[n] /\ Settling(n)
    BY <2>2, <2>3 DEF Settling
  <2>6. ASSUME Clean' PROVE \A n \in Orders : Free(n) /\ jobId = 0
    BY <1>2, <2>6 DEF Locked, Clean
  <2>7. Clean' => \A n \in Orders \ {o} : order'[n] = NoOrder
    BY <2>2, <2>6 DEF Free
  <2>8. Clean' => \A n \in Orders : ~Settling(n)'
    BY <2>5, <2>6, Nothing DEF Settling, Free
  <2>9. Clean' => \A n \in Orders : (order[n].op = "hire")' => n = o
    BY <2>7, Nothing
  <2>10. Clean' => Alone(o)'
    BY <2>7 DEF Alone, Free
  <2>11. Clean' => EndsSo(status, jobId, jobs)' /\ EndsSo(stored[1], stored[3], jobs)'
    BY <1>2 DEF Locked, Clean, EndsSo
  <2>12. \A n \in Orders : Settling(n)' /\ order'[n].made => anew'
    BY <1>2, <2>5 DEF Locked
  <2> QED
    BY <1>2, <2>4, <2>6, <2>8, <2>9, <2>10, <2>11, <2>12 DEF Locked, Terminal, Clean
<1>4. CASE ~keyed
  <2>1. order' = order
    BY <1>2, <1>4 DEF LockEscrow
  <2> QED
    BY <1>2, <1>4, <2>1 DEF Locked, Settling, Clean
<1> QED
  BY <1>1, <1>3, <1>4 DEF TaskTyped

LEMMA SettleLocked ==
    ASSUME TaskInv, Locked, NEW o \in Orders, NEW op \in {"release", "dispute"},
           SettleTask(o, op)
    PROVE  Locked'
<1>1. BookInv /\ TaskTyped
  BY DEF TaskInv, BookInv
<1>2. /\ Free(o) /\ CanTransition(Outcome(op))
      /\ UNCHANGED <<keyed, jobs, stored>>
      /\ anew' = (anew \/ (jobId = 0 /\ keyed))
      /\ blind' = (blind \/ AtWork # {})
  BY DEF SettleTask, kept
<1>3. status \in {"funded", "delivered"}
  <2>1. Outcome(op) \in {"released", "refunded"}
    BY DEF Outcome
  <2>2. status \in {"none", "open", "funded", "delivered", "released", "refunded"}
    BY <1>1 DEF TaskTyped, Reached
  <2> QED
    BY <1>2, <2>1, <2>2 DEF CanTransition, Transitions
<1>4. Clean' => Clean
  BY <1>2 DEF Clean
<1>5. CASE keyed
  <2> DEFINE step == IF jobId = 0 THEN "create"
                     ELSE IF op = "release" THEN "submit" ELSE "reject"
             r == [op |-> op, step |-> step, job |-> jobId, made |-> step = "create"]
  <2>1. order' = [order EXCEPT ![o] = r] /\ UNCHANGED <<status, jobId>>
    BY <1>5 DEF SettleTask, Start, task
  <2>2. order'[o] = r /\ \A n \in Orders \ {o} : order'[n] = order[n]
    BY <1>1, <2>1 DEF TaskTyped
  <2>3. r.op = op /\ (r.made <=> jobId = 0) /\ (r.step = "create" => r.made) /\ r.job = jobId
    OBVIOUS
  <2> HIDE DEF r, step
  <2>4. \A n \in Orders : order'[n].step = "create" => order'[n].made
    BY <2>2, <2>3 DEF Locked
  <2>5. \A n \in Orders : Settling(n)' /\ order'[n].made => anew'
    BY <1>2, <1>5, <2>2, <2>3 DEF Locked, Settling
  <2>6. ASSUME Clean'
        PROVE  /\ jobId = 0 => \A n \in Orders : Free(n)
               /\ \A n \in Orders : order[n].op # "hire"
               /\ \A n \in Orders : ~(Settling(n) /\ order[n].made)
    <3>1. jobId = 0 => AtWork = {}
      BY <1>2, <1>5, <2>6 DEF Clean
    <3>2. jobId = 0 => \A n \in Orders : Free(n)
      BY <3>1 DEF AtWork
    <3>3. ASSUME NEW n \in Orders, Settling(n), order[n].made PROVE FALSE
      <4>1. n \in AtWork /\ anew
        BY <3>3, Nothing DEF AtWork, Free, Settling, Locked
      <4> QED
        BY <1>2, <2>6, <4>1 DEF Clean
    <3>4. ASSUME NEW n \in Orders, order[n].op = "hire" PROVE FALSE
      <4>1. jobId = 0
        BY <1>4, <2>6, <3>4 DEF Locked
      <4> QED
        BY <3>2, <3>4, <4>1, Nothing DEF Free
    <3> QED
      BY <3>2, <3>3, <3>4
  <2>7. ASSUME Clean', NEW n \in Orders, Settling(n)', order'[n].made
        PROVE  Alone(n)' /\ status' \notin Terminal
    <3>1. n = o /\ jobId = 0
      BY <2>2, <2>3, <2>6, <2>7 DEF Settling
    <3>2. Alone(o)'
      BY <2>2, <2>6, <2>7, <3>1 DEF Alone, Free
    <3> QED
      BY <1>3, <2>1, <3>1, <3>2 DEF Terminal
  <2>8. ASSUME Clean', NEW n \in Orders, Settling(n)', ~order'[n].made
        PROVE  order'[n].job = jobId'
    BY <1>4, <2>1, <2>2, <2>3, <2>8 DEF Locked, Settling
  <2>9. Clean' => \A n \in Orders : order'[n].op # "hire"
    BY <2>2, <2>3, <2>6
  <2>10. Clean' => EndsSo(status, jobId, jobs)' /\ EndsSo(stored[1], stored[3], jobs)'
    BY <1>2, <1>4, <2>1 DEF Locked
  <2> QED
    BY <1>2, <1>3, <1>4, <2>1, <2>4, <2>5, <2>7, <2>8, <2>9, <2>10 DEF Locked
<1>6. CASE ~keyed
  <2>1. ~Clean' /\ \A n \in Orders : Free(n)
    BY <1>1, <1>2, <1>6 DEF Clean, BookInv
  <2>2. jobId = 0
    BY <1>1, <1>6 DEF BookInv, TaskTyped
  <2>3. End(o)
    BY <1>6, <2>2 DEF SettleTask, Settle
  <2>4. \A n \in Orders : order'[n] = NoOrder
    BY <1>1, <2>1, <2>3 DEF End, Free, TaskTyped
  <2> QED
    BY <2>1, <2>4, Nothing DEF Locked, Settling
<1> QED
  BY <1>1, <1>5, <1>6 DEF TaskTyped

(* A call whose chain work is over names the job it worked on.              *)
LEMMA ConcludeLocked ==
    ASSUME TaskInv, Locked, NEW o \in Orders, ~Free(o), Conclude(o),
           Grows(jobs, jobs'), order[o].step # "create",
           order[o].op = "release" => jobs'[order[o].job] = "completed",
           order[o].op = "dispute" => jobs'[order[o].job] = "rejected",
           UNCHANGED <<keyed, stored, anew, blind>>
    PROVE  Locked'
<1>1. BookInv /\ TaskTyped
  BY DEF TaskInv, BookInv
<1>2. keyed
  BY <1>1 DEF BookInv
<1>3. /\ order[o].op \in {"hire", "release", "dispute"}
      /\ order[o].job \in 1..Len(jobs)
  BY <1>1 DEF BookInv, OrderOk, TaskTyped, OrderStates, Free
<1>4. order[o].job \in 1..Len(jobs')
  BY <1>3 DEF Grows
<1>5. End(o)
  BY <1>3 DEF Conclude, Settle
<1>6. order'[o] = NoOrder /\ \A n \in Orders \ {o} : order'[n] = order[n]
  BY <1>1, <1>5 DEF End, TaskTyped
<1>7. \A n \in Orders : order'[n].step = "create" => order'[n].made
  BY <1>6, Nothing DEF Locked
<1>8. \A n \in Orders : Settling(n)' => n # o /\ Settling(n) /\ order'[n] = order[n]
  BY <1>6, Nothing DEF Settling
<1>9. \A n \in Orders : order'[n].op = "hire" => n # o /\ order[n].op = "hire"
  BY <1>6, Nothing
<1>10. \A n \in Orders : Free(n) => Free(n)'
  BY <1>6 DEF Free
<1>11. \A n \in Orders : Settling(n)' /\ order'[n].made => anew'
  BY <1>8 DEF Locked
<1>12. ASSUME Clean'
       PROVE  /\ EndsSo(status, jobId, jobs)' /\ EndsSo(stored[1], stored[3], jobs)'
              /\ \A n \in Orders : Settling(n)' /\ ~order'[n].made => order'[n].job = jobId'
              /\ \A n \in Orders : Settling(n)' /\ order'[n].made
                    => Alone(n)' /\ status' \notin Terminal
              /\ \A n \in Orders : order'[n].op = "hire"
                    => Alone(n)' /\ jobId' = 0 /\ status' \notin Terminal
              /\ status' \notin {"none", "open"}
              /\ stored'[1] \in {"none", "open"} => stored'[3] = 0
  <2>1. Clean
    BY <1>12 DEF Clean
  <2>2. /\ EndsSo(status, jobId, jobs') /\ EndsSo(stored[1], stored[3], jobs')
        /\ stored[1] \in {"none", "open"} => stored[3] = 0
        /\ status \notin {"none", "open"}
    BY <2>1, GrowEnds DEF Locked
  <2>3. ASSUME NEW n \in Orders, (Settling(n) /\ order[n].made) \/ order[n].op = "hire"
        PROVE  n = o
    BY <2>1, <2>3 DEF Locked, Alone
  <2>4. \A n \in Orders : (Settling(n)' => ~order'[n].made) /\ order'[n].op # "hire"
    BY <1>8, <1>9, <2>3
  <2>5. CASE order[o].op = "hire"
    <3>1. Alone(o) /\ status \notin Terminal
      BY <2>1, <2>5 DEF Locked
    <3>2. \A n \in Orders : order'[n] = NoOrder
      BY <1>6, <3>1 DEF Alone, Free
    <3>3. UNCHANGED status
      BY <2>5 DEF Conclude
    <3>4. EndsSo(status, jobId, jobs)'
      BY <3>1, <3>3 DEF EndsSo, Terminal
    <3> QED
      BY <2>2, <2>4, <3>2, <3>3, <3>4, Nothing DEF Settling
  <2>6. CASE Settling(o) /\ order[o].made
    <3>1. Alone(o) /\ status \notin Terminal
      BY <2>1, <2>6 DEF Locked
    <3>2. \A n \in Orders : order'[n] = NoOrder
      BY <1>6, <3>1 DEF Alone, Free
    <3>3. Settle(o, order[o].op, "onchain")
      BY <2>6 DEF Conclude, Settling
    <3>4. jobId' = order[o].job /\ status' \in {status, Outcome(order[o].op)}
      BY <2>6, <3>3 DEF Settle, Transition
    <3>5. EndsSo(status, jobId, jobs)'
      BY <1>4, <2>6, <3>1, <3>4 DEF EndsSo, Terminal, Outcome, Settling
    <3>6. status' \notin {"none", "open"}
      BY <2>2, <3>4 DEF Outcome
    <3> QED
      BY <2>2, <2>4, <3>2, <3>5, <3>6, Nothing DEF Settling
  <2>7. CASE Settling(o) /\ ~order[o].made
    <3>1. Settle(o, order[o].op, "onchain") /\ order[o].job = jobId
      BY <2>1, <2>7 DEF Conclude, Settling, Locked
    <3>2. jobId' = jobId /\ status' \in {status, Outcome(order[o].op)}
      BY <2>7, <3>1 DEF Settle, Transition
    <3>3. EndsSo(status, jobId, jobs)'
      BY <1>4, <2>2, <2>7, <3>1, <3>2 DEF EndsSo, Outcome, Settling
    <3>4. status' \notin {"none", "open"}
      BY <2>2, <3>2 DEF Outcome
    <3>5. \A n \in Orders : Settling(n)' /\ ~order'[n].made => order'[n].job = jobId'
      BY <1>8, <2>1, <3>2 DEF Locked
    <3> QED
      BY <2>2, <2>4, <3>3, <3>4, <3>5
  <2> QED
    BY <1>3, <2>5, <2>6, <2>7 DEF Settling
<1> QED
  BY <1>7, <1>11, <1>12 DEF Locked

LEMMA CreateLocked ==
    ASSUME TaskInv, Locked, NEW o \in Orders, CreateJob(o)
    PROVE  Locked'
<1>1. BookInv /\ TaskTyped
  BY DEF TaskInv, BookInv
<1>2. /\ order[o].step = "create" /\ order[o].made /\ order[o] # NoOrder
      /\ UNCHANGED <<keyed, status, jobId, stored, anew, blind>>
  BY Nothing DEF CreateJob, kept, Locked, Fail, task
<1>3. Grows(jobs, jobs')
  <2>1. CASE jobs' = jobs
    BY <1>1, <2>1 DEF Grows, TaskTyped
  <2>2. CASE jobs' = Append(jobs, "open")
    BY <1>1, <2>2 DEF Grows, TaskTyped, JobStates
  <2> QED
    BY <2>1, <2>2 DEF CreateJob
<1>4. /\ \A n \in Orders \ {o} : order'[n] = order[n]
      /\ \/ order'[o] = NoOrder
         \/ /\ order'[o].op = order[o].op /\ order'[o].made = order[o].made
            /\ order'[o].step # "create"
  BY <1>1 DEF CreateJob, Fail, End, TaskTyped, OrderStates
<1> QED
  BY <1>2, <1>3, <1>4, QuietLocked

LEMMA TransactLocked ==
    ASSUME TaskInv, Locked, NEW o \in Orders, Transact(o)
    PROVE  Locked'
<1> DEFINE step == order[o].step
           j    == order[o].job
           landed == [jobs EXCEPT ![j] = To[step]]
<1>1. BookInv /\ TaskTyped
  BY DEF TaskInv, BookInv
<1>2. /\ step \in DOMAIN From
      /\ UNCHANGED <<keyed, stored, anew, blind>>
  BY DEF Transact, kept
<1>3. /\ step \in {"fund", "submit", "complete", "reject"}
      /\ From[step] \cap Final = {} /\ To[step] \in JobStates
      /\ step = "complete" => To[step] = "completed"
      /\ step = "reject" => To[step] = "rejected"
  BY <1>2, Contract
<1>4. /\ order[o] \in OrderStates /\ OrderOk(order[o], jobs)
      /\ jobs \in Seq(JobStates)
  BY <1>1 DEF BookInv, TaskTyped
<1>5. ~Free(o) /\ order[o] # NoOrder /\ j \in 1..Len(jobs)
  BY <1>3, <1>4, Nothing DEF OrderOk, Free
<1>6. ASSUME jobs[j] \in From[step]
      PROVE  landed \in Seq(JobStates) /\ landed[j] = To[step] /\ Grows(jobs, landed)
  <2>1. jobs[j] \notin Final
    BY <1>3, <1>6
  <2> QED
    BY <1>3, <1>4, <1>5, <2>1, SeqExcept
<1>7. Grows(jobs, jobs)
  BY <1>4 DEF Grows
<1> HIDE DEF landed
<1>8. CASE Fail(o) /\ (jobs' = jobs \/ (jobs[j] \in From[step] /\ jobs' \in {jobs, landed}))
  <2>1. \A n \in Orders : order'[n] = NoOrder \/ order'[n] = order[n]
    BY <1>1, <1>8 DEF Fail, End, TaskTyped
  <2>2. Grows(jobs, jobs') /\ UNCHANGED <<status, jobId>>
    BY <1>6, <1>7, <1>8 DEF Fail, task
  <2> QED
    BY <1>2, <2>1, <2>2, QuietLocked
<1>9. CASE jobs[j] \in From[step] /\ jobs' = landed /\ Proceed(o)
  <2>1. CASE Following(o) = "done"
    <3>1. Conclude(o)
      BY <1>9, <2>1 DEF Proceed
    <3>2. (step = "fund" /\ order[o].op = "hire") \/ step = "reject"
      BY <1>3, <2>1, NextStep
    <3>3. /\ order[o].op = "release" => landed[j] = "completed"
          /\ order[o].op = "dispute" => landed[j] = "rejected"
      BY <1>3, <1>4, <1>6, <1>9, <3>2 DEF OrderOk
    <3> QED
      BY <1>2, <1>3, <1>5, <1>6, <1>9, <3>1, <3>3, ConcludeLocked
  <2>2. CASE Following(o) # "done"
    <3> DEFINE r == [order[o] EXCEPT !.step = Following(o)]
    <3>1. order' = [order EXCEPT ![o] = r] /\ UNCHANGED <<status, jobId>>
      BY <1>9, <2>2 DEF Proceed, task
    <3>2. Following(o) # "create"
      BY <1>3, NextStep
    <3>3. /\ r.op = order[o].op /\ r.made = order[o].made /\ r.job = order[o].job
          /\ r.step # "create"
      BY <1>4, <3>2 DEF OrderStates
    <3> HIDE DEF r
    <3>4. order'[o] = r /\ \A n \in Orders \ {o} : order'[n] = order[n]
      BY <1>1, <3>1 DEF TaskTyped
    <3> QED
      BY <1>2, <1>5, <1>6, <1>9, <3>1, <3>3, <3>4, QuietLocked
  <2> QED
    BY <2>1, <2>2
<1> QED
  BY <1>8, <1>9 DEF Transact, landed

LEMMA ReadJobLocked ==
    ASSUME TaskInv, Locked, NEW o \in Orders, ReadJob(o)
    PROVE  Locked'
<1>1. BookInv /\ TaskTyped
  BY DEF TaskInv, BookInv
<1>2. order[o].step = "read" /\ UNCHANGED <<keyed, jobs, stored, anew, blind>>
  BY DEF ReadJob, kept
<1>3. ~Free(o) /\ Grows(jobs, jobs')
  BY <1>1, <1>2, Nothing DEF Free, Grows, TaskTyped
<1>4. CASE Conclude(o)
  <2>1. /\ order[o].op = "release" => jobs[order[o].job] = "completed"
        /\ order[o].op = "dispute" => jobs[order[o].job] = "rejected"
    BY <1>1, <1>2 DEF BookInv, OrderOk
  <2> QED
    BY <1>2, <1>3, <1>4, <2>1, ConcludeLocked
<1>5. CASE Fail(o)
  <2>1. UNCHANGED <<status, jobId>> /\ \A n \in Orders : order'[n] = NoOrder \/ order'[n] = order[n]
    BY <1>1, <1>5 DEF Fail, End, task, TaskTyped
  <2> QED
    BY <1>2, <1>3, <2>1, QuietLocked
<1> QED
  BY <1>4, <1>5 DEF ReadJob

LEMMA OtherLocked ==
    ASSUME TaskInv, Locked, PostOpenTask \/ BidOnTask \/ DeliverTask \/ Save \/ Restart
    PROVE  Locked'
<1>1. CASE PostOpenTask \/ BidOnTask \/ DeliverTask
  <2>1. /\ UNCHANGED <<keyed, jobId, jobs, order, stored, anew, blind>>
        /\ status' \notin Terminal \/ status' = status
        /\ status' \in {"none", "open"} <=> status \in {"none", "open"}
    BY <1>1 DEF PostOpenTask, BidOnTask, DeliverTask, CanTransition, Transitions,
                Terminal, TaskInv, BookInv, TaskTyped, Reached, kept
  <2>2. EndsSo(status, jobId, jobs) => EndsSo(status, jobId, jobs)'
    BY <2>1 DEF EndsSo, Terminal
  <2> QED
    BY <2>1, <2>2 DEF Locked, Settling, Alone, Free, Clean
<1>2. CASE Save
  <2>1. /\ stored'[1] = status /\ stored'[3] = jobId
        /\ UNCHANGED <<status, jobId, keyed, jobs, order, anew, blind>>
    BY <1>2 DEF Save, task
  <2> QED
    BY <2>1 DEF Locked, Settling, Alone, Free, Clean
<1>3. CASE Restart
  <2>1. /\ status' = stored[1] /\ jobId' = stored[3]
        /\ \A o \in Orders : order'[o] = NoOrder
        /\ UNCHANGED <<keyed, jobs, stored, anew, blind>>
    BY <1>3 DEF Restart
  <2> QED
    BY <2>1, Nothing DEF Locked, Settling, Free, Clean
<1> QED
  BY <1>1, <1>2, <1>3

LEMMA LockHolds == Spec => [](TaskInv /\ Locked)
<1>1. Init => TaskInv /\ Locked
  BY TaskStarts, LockedStarts
<1>2. TaskInv /\ Locked /\ [Next]_vars => Locked'
  <2> SUFFICES ASSUME TaskInv, Locked, [Next]_vars PROVE Locked'
    OBVIOUS
  <2>1. CASE TaskNext
    BY <2>1, HireLocked, SettleLocked, CreateLocked, TransactLocked, ReadJobLocked,
       OtherLocked DEF TaskNext
  <2>2. CASE UNCHANGED taskVars
    BY <2>2 DEF taskVars, task, kept, Locked, Settling, Alone, Free, Clean
  <2> QED
    BY <2>1, <2>2 DEF Next, vars
<1> QED
  BY <1>1, <1>2, TaskHolds, PTL DEF Spec

(* A task that ended names the job that ended so: whatever calls overlap,   *)
(* fail, go unanswered or are forgotten by restarts when the job was funded *)
(* at hire, and for a settlement that makes its own job while no other call *)
(* is at work beside one (tasks.ts, releaseTask and disputeTask).           *)
THEOREM OutcomeTold == Spec => []OutcomeIsTheJobs
<1>1. TaskInv /\ Locked => OutcomeIsTheJobs
  <2> SUFFICES ASSUME TaskInv, Locked, keyed, ~(anew /\ blind) PROVE
                  /\ status = "released" => jobId # 0 /\ jobs[jobId] = "completed"
                  /\ status = "refunded" => jobId # 0 /\ jobs[jobId] = "rejected"
    BY DEF OutcomeIsTheJobs
  <2>1. EndsSo(status, jobId, jobs)
    BY DEF Locked, Clean
  <2>2. \A n \in Nat : \A i \in 1..n : i # 0
    OBVIOUS
  <2>3. Len(jobs) \in Nat
    BY DEF TaskInv, BookInv, TaskTyped
  <2> QED
    BY <2>1, <2>2, <2>3 DEF EndsSo
<1> QED
  BY <1>1, LockHolds, PTL

(* Money in escrow is on the task's books or a call is at work on it, for   *)
(* any number of calls, while nothing fails, restarts or settles beside     *)
(* another call (tasks.ts, tryOnchainFund and releaseTask).                 *)
THEOREM EscrowKnown == Spec => []EscrowIsKnown
<1>1. TaskInv => EscrowIsKnown
  <2> SUFFICES ASSUME TaskInv, ~blind, lost = 0, stops = 0, NEW j \in InEscrow
               PROVE  j \in {jobId} \cup {order[o].job : o \in AtWork}
    BY DEF EscrowIsKnown
  <2>1. HireInv /\ BookInv /\ TaskTyped /\ Plain
    BY DEF TaskInv, BookInv, Plain
  <2>2. j = 1 /\ Len(jobs) = 1 /\ jobs # <<>>
    <3>1. jobs \in Seq(JobStates) /\ Len(jobs) <= 1
      BY <2>1 DEF HireInv, TaskTyped
    <3>2. j \in 1..Len(jobs)
      BY <3>1 DEF InEscrow, Ended
    <3>3. Len(jobs) \in Nat
      BY <3>1
    <3>4. \A n \in Nat : n <= 1 /\ j \in 1..n => j = 1 /\ n = 1
      OBVIOUS
    <3>5. j = 1 /\ Len(jobs) = 1
      BY <3>1, <3>2, <3>3, <3>4
    <3> QED
      BY <3>5
  <2>3. keyed /\ status \notin {"none", "open"}
    BY <2>1, <2>2 DEF HireInv, BookInv
  <2>4. CASE jobId # 0
    BY <2>1, <2>2, <2>4 DEF TaskTyped
  <2>5. ASSUME NEW o \in Orders, order[o].op = "hire"
        PROVE  o \in AtWork /\ order[o].job = 1
    <3>1. OrderOk(order[o], jobs) /\ order[o].step # "create"
      BY <2>1, <2>2 DEF HireInv, BookInv
    <3>2. order[o].step = "fund"
      BY <2>5, <3>1 DEF OrderOk
    <3>3. order[o].job \in 1..1
      BY <2>2, <3>1, <3>2 DEF OrderOk
    <3> QED
      BY <2>5, <3>3 DEF AtWork, Free, NoOrder
  <2> QED
    BY <2>1, <2>2, <2>3, <2>4, <2>5 DEF HireInv
<1> QED
  BY <1>1, TaskHolds, PTL
=============================================================================
