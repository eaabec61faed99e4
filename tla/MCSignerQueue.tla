--------------------------- MODULE MCSignerQueue ---------------------------
(* Values for model checking SignerQueue: settlements of one signer; and the unconditional forms   *)
(* of two of its properties, which the code does not keep.                 *)
EXTENDS SignerQueue, TLC

CONSTANTS c1, c2, c3, c4

MCCall == {c1, c2, c3}
FourCalls == MCCall \cup {c4}
NoCall == {}
MCSymmetry == Permutations(FourCalls)
AllFaults == Steps
NoFault == {}
LateFaults == {"sign", "note"}

(* One at a time even after a wait ran out.                                *)
OneAtATimeAlways ==
    \A c, d \in Call : stage[c] \in Working /\ stage[d] \in Working => c = d

(* No shared nonce even after a call that threw while signing, or whose    *)
(* note failed, once its prepare had dropped the floor.                    *)
NoncesDistinctAlways ==
    \A c, d \in Call :
      c # d /\ stage[c] = "sent" /\ stage[d] = "sent" => nonce[c] # nonce[d]
=============================================================================
