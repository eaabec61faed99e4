------------------------------- MODULE Vaults -------------------------------
(* The policy vault of an agent on the chain it was provisioned on, and that *)
(* each of the three contracts keeps the one policy they were ported from.   *)
EXTENDS AgentSpendPolicy

CONSTANTS SorobanDay, MinLife, LifeThreshold, LifeExtend, MaxDay

(* A bucket lives at least through the day it is written in.                 *)
ASSUME VaultsAssumption ==
    /\ SorobanDay \in Nat \ {0}
    /\ MinLife \in Nat /\ LifeThreshold \in Nat /\ LifeExtend \in Nat
    /\ MinLife <= LifeThreshold /\ LifeThreshold <= LifeExtend
    /\ SorobanDay <= LifeExtend
    /\ MaxDay \in Nat
    /\ Vault # Usdc /\ NoAddress \notin {Vault, Usdc}

VARIABLES
    chain,       \* which chain the vault is on
    signer,      \* history: who signed the last transaction
    instance, allowlist, bucket, ledger, funds, moved,     \* Soroban
    global, boxes, optedIn, latest, holding, sent            \* Algorand

Soroban ==
    INSTANCE SorobanPolicy WITH Token <- Usdc, MaxInt <- MaxUint, DayLength <- SorobanDay

Algorand ==
    INSTANCE AlgorandPolicy WITH Nobody <- NoAddress

sorobanVars  == <<instance, allowlist, bucket, ledger, funds, moved>>
algorandVars == <<global, boxes, optedIn, latest, holding, sent>>
vaultsVars   == <<chain, signer, vars, sorobanVars, algorandVars>>

(* What the vaults of the other chains start from does not matter.           *)
VaultsInit ==
    /\ chain \in {"evm", "stellar", "algorand"}
    /\ signer = NoAddress
    /\ Init /\ Soroban!Init /\ Algorand!Init
    /\ chain = "evm" \/ (operator = Owner /\ {dailyCap, autoApproveMax} \subseteq {0})
    /\ chain = "stellar" \/ (instance.operator = Vault /\ {instance.dailyCap, instance.autoApproveMax} = {0})
    /\ chain = "algorand" \/ (global.operator = Owner /\ {global.daily_cap, global.auto_approve_max} = {0})

EvmStep ==
    /\ \/ \E s \in Address : Call(s) /\ signer' = s
       \/ ((\E a \in Amount : Deposit(a)) \/ Block) /\ signer' = NoAddress
    /\ UNCHANGED <<sorobanVars, algorandVars>>

StellarStep ==
    /\ \/ \E s \in Address : Soroban!Call(s) /\ signer' = s
       \/ Soroban!World /\ signer' = NoAddress
    /\ UNCHANGED <<vars, algorandVars>>

AlgorandStep ==
    /\ \/ \E s \in Address : Algorand!Call(s) /\ signer' = s
       \/ Algorand!World /\ signer' = NoAddress
    /\ UNCHANGED <<vars, sorobanVars>>

VaultsNext ==
    /\ UNCHANGED chain
    /\ \/ chain = "evm" /\ EvmStep
       \/ chain = "stellar" /\ StellarStep
       \/ chain = "algorand" /\ AlgorandStep

VaultsSpec == VaultsInit /\ [][VaultsNext]_vaultsVars

-----------------------------------------------------------------------------
(* What each contract makes of the policy. A cap or ceiling of zero is none  *)
(* on two chains, and nothing at all on Algorand.                            *)
SignedOn(c) == IF chain = c THEN signer ELSE NoAddress

EvmPolicy ==
    INSTANCE SpendPolicy
    WITH Nobody <- NoAddress, signer <- SignedOn("evm"),
         day <- today, paid <- agentPaid[today],
         cap <- InForce(dailyCap), ceiling <- InForce(autoApproveMax),
         armed <- ~frozen /\ KeyLives, operator <- operator

StellarPolicy ==
    INSTANCE SpendPolicy
    WITH Nobody <- NoAddress, signer <- SignedOn("stellar"),
         day <- ledger.day, paid <- moved,
         cap <- InForce(instance.dailyCap), ceiling <- InForce(instance.autoApproveMax),
         armed <- ~instance.frozen /\ Soroban!KeyLives, operator <- instance.operator

AlgorandPolicy ==
    INSTANCE SpendPolicy
    WITH Nobody <- NoAddress, signer <- SignedOn("algorand"),
         day <- latest, paid <- sent,
         cap <- global.daily_cap, ceiling <- global.auto_approve_max,
         armed <- ~global.frozen, operator <- global.operator

(* Whatever contract holds the money, the agent moves it within the cap, the *)
(* ceiling and the life of its key, and only the owner loosens them: on      *)
(* Stellar although the count of the day is an entry that lapses. When a key *)
(* has ended is each contract's own comparison: on EVM and Stellar one whose *)
(* expiry is the current second pays in that second, also when the owner set *)
(* it so to revoke it.                                                       *)
KeepsPolicy == EvmPolicy!Spec /\ StellarPolicy!Spec /\ AlgorandPolicy!Spec
=============================================================================
