---------------------------- MODULE MCMarketplace ----------------------------
(* Values for model checking Marketplace.                                   *)
EXTENDS Marketplace, TLC

CONSTANTS own, other, vendor, k1, k2, x, y, e1, e2, o1, o2

MCAddresses == {own, other, vendor}
MCSigners == {own, other}
MCProofs == {k1, k2}
MCPayees == {x, y}
MCEdits == {e1, e2}
MCOrders == {o1, o2}
MCCaps == {0, 1, 2}
Symmetry ==
    Permutations(MCSigners) \cup Permutations(MCProofs) \cup Permutations(MCPayees)
        \cup Permutations(MCEdits) \cup Permutations(MCOrders)

MCScenes == {{"record"}, {"mirror"}, {"task"}}
=============================================================================
