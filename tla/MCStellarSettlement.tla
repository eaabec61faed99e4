------------------------- MODULE MCStellarSettlement -------------------------
(* Values for model checking StellarSettlement: two requests that carry    *)
(* one authorization, one contract's hash, or two authorizations.          *)
EXTENDS StellarSettlement, TLC

CONSTANTS r1, r2, a1, a2, h1

MCReq    == {r1, r2}
MCAuths  == {a1, a2}
MCHashes == {h1}

Carry(p1, p2, by, faults) ==
    [carries |-> (r1 :> p1) @@ (r2 :> p2), broadcaster |-> by, faults |-> faults]

(* The two requests are interchangeable: every setting says the same of    *)
(* both, or has its mirror image.                                          *)
MCSymmetry == Permutations(MCReq)

MCSettings == {Carry(a1, a1, "self", FaultKinds),
               Carry(a1, a1, "oz", FaultKinds),
               Carry(h1, h1, "self", FaultKinds),
               Carry(a1, a2, "self", {"send"}),
               Carry(a2, a1, "self", {"send"}),
               Carry(a1, a2, "self", {"crash"}),
               Carry(a2, a1, "self", {"crash"})}

(* The unconditional forms of two properties, which the code does not keep.  *)
RefusedSettings == {Carry(a1, a2, "oz", {"relay"}), Carry(h1, h1, "self", {"stale"})}

(* "DECIDED. OZ answered, and the answer was no. ... reaching here means     *)
(* they looked at it and refused" (settle.ts:1250): whatever OpenZeppelin    *)
(* answers, a payer who only heard refusals has no transaction on its way.   *)
NoFalseRefusalAlways ==
    \A r \in Req : Signed(r) /\ q[r].refused /\ Pay(r) \notin told =>
        \A t \in Tx : Pay(r) \in tx[t].pays => ~MayLand(t)

(* "One hash, one redemption, forever" (settle.ts:243), no write failing:    *)
(* the spent keys are read before the guard is taken, and a read that a      *)
(* write overtook passes.                                                    *)
RedeemedOnceAlways == \A p \in Hashes : calls[p] <= 1
=============================================================================
