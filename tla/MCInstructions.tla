--------------------------- MODULE MCInstructions ---------------------------
(* Values for model checking Instructions: two instructions, the first     *)
(* within the auto-approve line and the second a batch.                    *)
EXTENDS Instructions, TLC

CONSTANTS i1, i2

MCIx == {i1, i2}
MCAmount == (i1 :> 2) @@ (i2 :> 3)
OneIx == {i1}
OneAmount == i1 :> 2
NoIx == {}

NoVault  == [vault |-> "none", ownerKey |-> FALSE, circle |-> FALSE, resolves |-> TRUE]
Circle   == [NoVault EXCEPT !.circle = TRUE]
EvmVault == [NoVault EXCEPT !.vault = "evm"]
OwnedVault == [EvmVault EXCEPT !.ownerKey = TRUE]
VaultAndCircle == [EvmVault EXCEPT !.circle = TRUE]
StellarVault == [NoVault EXCEPT !.vault = "stellar"]
Nowhere  == [NoVault EXCEPT !.resolves = FALSE]

WithoutVault == {NoVault, Circle, Nowhere}
WithVault    == {EvmVault, OwnedVault, VaultAndCircle, StellarVault}
AllAgents    == WithoutVault \cup WithVault
Payers       == {NoVault, Circle}
OnlyNoVault  == {NoVault}
OnlyEvmVault == {EvmVault}
=============================================================================
