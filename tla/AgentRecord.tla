----------------------------- MODULE AgentRecord -----------------------------
(* The record of one agent: the wallet it names, whether control of that    *)
(* wallet was proven (KYA), and the claim of an imported record by the      *)
(* party that holds the token. Signatures and chain reads are awaited, and  *)
(* other calls run meanwhile. Who may call is abstracted: any call may come.*)
(* Source: mcp/src/platform/kya.ts, agents.ts, core.ts.                     *)
EXTENDS FiniteSets, Naturals

CONSTANTS Addresses,  \* wallets
          Signers,    \* wallets whose keys are at hand to sign with
          Nobody,     \* no wallet
          Proofs,     \* calls that wait for a signature
          MaxFormer   \* MAX_FORMER_PROVEN_WALLETS

ASSUME RecordAssumption ==
    Signers \subseteq Addresses /\ Nobody \notin Addresses /\ MaxFormer \in Nat

VARIABLES
    wallet,         \* walletAddress
    kya,            \* kya
    proof,          \* kyaProof.address
    former,         \* formerProvenWallets
    claimed,        \* claimProof.address
    imported,       \* importedFrom is set
    challenge,      \* kyaChallenges holds a live challenge
    claimChallenge, \* claimChallenges does
    tokenOwner,     \* who holds the token on chain
    proving,        \* what each call in flight is proving
    signed,         \* history: wallets a valid signature was seen of
    proved,         \* history: wallets that were ever the proof's
    moved,          \* history: the wallet changed under a call in flight
    overtaken       \* history: a claim was settled on a record already claimed

challenges == <<challenge, claimChallenge>>
subject    == <<wallet, kya, proof, former, claimed>>
recordVars == <<subject, imported, challenges, tokenOwner, proving,
                signed, proved, moved, overtaken>>

Wallets == Addresses \cup {Nobody}
Idle == [op |-> "none", address |-> Nobody]

RecordTypeOK ==
    /\ wallet \in Wallets /\ proof \in Wallets /\ claimed \in Wallets
    /\ kya \in {"unverified", "verified", "revoked", "unclaimed"}
    /\ former \in SUBSET Addresses /\ Cardinality(former) <= MaxFormer
    /\ imported \in BOOLEAN
    /\ challenge \in BOOLEAN /\ claimChallenge \in BOOLEAN
    /\ tokenOwner \in Addresses
    /\ proving \in [Proofs -> [op : {"none", "kya", "claim"}, address : Wallets]]
    /\ signed \in SUBSET Addresses /\ proved \in SUBSET Addresses
    /\ moved \in BOOLEAN /\ overtaken \in BOOLEAN

(* A record just registered, one that proved the wallet it names, or one an *)
(* earlier version moved on with after a revocation, the proof left behind. *)
RecordInit ==
    /\ wallet \in Wallets
    /\ \/ kya = "unverified" /\ proof = Nobody /\ former = {}
       \/ kya = "verified" /\ proof = wallet /\ wallet \in Signers /\ former = {}
       \/ /\ kya = "revoked"
          /\ proof \in Signers \ {wallet}
          /\ former \in SUBSET (Signers \ {proof, wallet})
          /\ Cardinality(former) <= MaxFormer
    /\ signed = former \cup ({proof} \ {Nobody}) /\ proved = signed
    /\ claimed = Nobody /\ imported = FALSE
    /\ challenge = FALSE /\ claimChallenge = FALSE
    /\ tokenOwner \in Addresses
    /\ proving = [k \in Proofs |-> Idle]
    /\ moved = FALSE /\ overtaken = FALSE

-----------------------------------------------------------------------------
CanRemember(a) == a \in former \/ Cardinality(former) < MaxFormer
EverProved(a) == a \in {proof, claimed} \cup former

Ask(k, op, a) == proving' = [proving EXCEPT ![k] = [op |-> op, address |-> a]]
Finish(k) == proving' = [proving EXCEPT ![k] = Idle]

StartKyaChallenge ==
    /\ wallet # Nobody
    /\ challenge' = TRUE
    /\ UNCHANGED <<subject, imported, claimChallenge, tokenOwner, proving,
                   signed, proved, moved, overtaken>>

(* Ten minutes are over.                                                    *)
Expire ==
    /\ challenge' = FALSE /\ claimChallenge' = FALSE
    /\ UNCHANGED <<subject, imported, tokenOwner, proving,
                   signed, proved, moved, overtaken>>

VerifyKya(k) ==
    /\ proving[k] = Idle
    /\ wallet # Nobody
    /\ challenge
    /\ Ask(k, "kya", wallet)
    /\ UNCHANGED <<subject, imported, challenges, tokenOwner,
                   signed, proved, moved, overtaken>>

(* The signature is good: the rest of verifyKya, on the record as it is now.*)
(* Proving another wallet than before needs room to remember the earlier.   *)
KyaVerdict(k) ==
    LET a == proving[k].address
        forgets == proof \notin {Nobody, wallet}
    IN
    /\ proving[k].op = "kya" /\ a \in Signers
    /\ Finish(k)
    /\ signed' = signed \cup {a}
    /\ \/ /\ forgets /\ ~CanRemember(proof)
          /\ UNCHANGED <<challenge, former, kya, proof, proved>>
       \/ /\ ~forgets \/ CanRemember(proof)
          /\ challenge' = FALSE
          /\ former' = IF forgets THEN former \cup {proof} ELSE former
          /\ kya' = "verified"
          /\ proof' = wallet
          /\ proved' = proved \cup {wallet}
    /\ UNCHANGED <<wallet, claimed, imported, claimChallenge, tokenOwner,
                   moved, overtaken>>

(* The signature, the owner on chain or a read does not hold up.            *)
NoVerdict(k) ==
    /\ proving[k] # Idle
    /\ Finish(k)
    /\ UNCHANGED <<subject, imported, challenges, tokenOwner,
                   signed, proved, moved, overtaken>>

RevokeAgentKya ==
    /\ kya' = "revoked"
    /\ UNCHANGED <<wallet, proof, former, claimed, imported, challenges,
                   tokenOwner, proving, signed, proved, moved, overtaken>>

(* Mutant: the flag stays when the wallet changes.                          *)
AssignWallet_Keeps(a) ==
    /\ wallet' = a
    /\ former' = IF wallet # a /\ EverProved(wallet) /\ CanRemember(wallet)
                 THEN former \cup ({wallet} \ {Nobody}) ELSE former
    /\ UNCHANGED <<kya, proof, claimed, imported, challenges, tokenOwner,
                   proving, signed, proved, moved, overtaken>>

(* Mutant: with the history full, the oldest makes room.                    *)
AssignWallet_DropsOldest(a) ==
    LET leaving == wallet \notin {a, Nobody} /\ EverProved(wallet)
        hadProof == kya = "verified" /\ wallet # a
    IN
    /\ wallet' = a
    /\ former' = IF ~leaving THEN former
                 ELSE IF CanRemember(wallet) THEN former \cup {wallet} ELSE {wallet}
    /\ kya' = IF hadProof THEN "unverified" ELSE kya
    /\ proof' = IF hadProof THEN Nobody ELSE proof
    /\ UNCHANGED <<claimed, imported, challenges, tokenOwner, proving,
                   signed, proved, moved, overtaken>>

AssignWallet(a) ==
    LET moving   == wallet # a
        hadProof == kya = "verified" /\ moving
        leaving  == moving /\ wallet # Nobody /\ (hadProof \/ EverProved(wallet))
    IN
    /\ leaving => CanRemember(wallet)
    /\ wallet' = a
    /\ former' = IF leaving THEN former \cup {wallet} ELSE former
    /\ kya' = IF hadProof THEN "unverified" ELSE kya
    /\ proof' = IF hadProof THEN Nobody ELSE proof
    /\ moved' = (moved \/ (moving /\ \E k \in Proofs : proving[k].op = "kya"))
    /\ UNCHANGED <<claimed, imported, challenges, tokenOwner, proving,
                   signed, proved, overtaken>>

(* Registration found that somebody else holds the token.                   *)
MarkImportedAgent ==
    /\ ~imported
    /\ kya \notin {"verified", "revoked"}
    /\ imported' = TRUE
    /\ kya' = "unclaimed"
    /\ UNCHANGED <<wallet, proof, former, claimed, challenges, tokenOwner,
                   proving, signed, proved, moved, overtaken>>

StartClaimChallenge ==
    /\ kya = "unclaimed" /\ imported
    /\ claimChallenge' = TRUE
    /\ UNCHANGED <<subject, imported, challenge, tokenOwner, proving,
                   signed, proved, moved, overtaken>>

VerifyAgentClaim(k, a) ==
    /\ proving[k] = Idle
    /\ kya = "unclaimed" /\ imported
    /\ claimChallenge
    /\ Ask(k, "claim", a)
    /\ UNCHANGED <<subject, imported, challenges, tokenOwner,
                   signed, proved, moved, overtaken>>

(* The signature is good and the chain names the signer as the owner. The   *)
(* status is not looked at again.                                           *)
ClaimVerdict(k) ==
    LET a == proving[k].address IN
    /\ proving[k].op = "claim" /\ a \in Signers /\ a = tokenOwner
    /\ Finish(k)
    /\ claimChallenge' = FALSE
    /\ signed' = signed \cup {a} /\ proved' = proved \cup {a}
    /\ wallet' = a /\ claimed' = a /\ proof' = a
    /\ kya' = "verified"
    /\ overtaken' = (overtaken \/ kya # "unclaimed")
    /\ UNCHANGED <<former, imported, challenge, tokenOwner, moved>>

Transfer ==
    /\ \E a \in Addresses : tokenOwner' = a
    /\ UNCHANGED <<subject, imported, challenges, proving,
                   signed, proved, moved, overtaken>>

RecordNext ==
    \/ StartKyaChallenge \/ Expire \/ MarkImportedAgent \/ StartClaimChallenge
    \/ Transfer \/ RevokeAgentKya
    \/ \E a \in Addresses : AssignWallet(a)
    \/ \E k \in Proofs :
          \/ VerifyKya(k) \/ KyaVerdict(k) \/ NoVerdict(k) \/ ClaimVerdict(k)
          \/ \E a \in Addresses : VerifyAgentClaim(k, a)

-----------------------------------------------------------------------------
(* `verified` always means the current wallet (agents.ts): somebody signed  *)
(* with its key, unless the wallet was changed while a signature by the     *)
(* earlier one was being checked.                                           *)
VerifiedIsProven == kya = "verified" /\ ~moved => wallet \in signed

(* The same with no exception, as agents.ts has it.                         *)
VerifiedIsProvenAlways == kya = "verified" => wallet \in signed

(* A proven wallet is never forgotten (core.ts): a denial binds every one   *)
(* of them. Unless a claim was settled on a record that had meanwhile been  *)
(* proven by another door.                                                  *)
ProvenIsKept == ~overtaken => \A a \in proved : EverProved(a)

(* The same with no exception, as core.ts has it.                           *)
ProvenIsKeptAlways == \A a \in proved : EverProved(a)
=============================================================================
