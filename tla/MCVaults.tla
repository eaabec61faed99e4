------------------------------ MODULE MCVaults ------------------------------
(* Values for model checking Vaults: the owner and one session key that may *)
(* also be paid, amounts above and within the least limit; and what the     *)
(* Stellar vault says of a revocation, which its code keeps a second later. *)
EXTENDS Vaults, TLC

CONSTANTS owner, key

MCAddress == {owner, key}
MCPayees  == {key}
MCAmount  == {1, 2}
MCLimit   == {0, 1}

(* set_session_key_expiry: "a past time (or the current one) revokes        *)
(* immediately". A key whose expiry is set so is dead in the next state.    *)
RevokesImmediately ==
    [][instance'.sessionKeyExpiry # instance.sessionKeyExpiry
       /\ instance'.sessionKeyExpiry \in 1..Soroban!timestamp
         => ~Soroban!KeyLives']_vaultsVars
=============================================================================
