---------------------------- MODULE MCReceiptLook ----------------------------
(* Values for model checking ReceiptLook.                                   *)
EXTENDS ReceiptLook

CONSTANTS a, b, c

MCHosts == {a, b, c}

(* A chain with finality and hosts that serve little, as on Arc Mainnet;    *)
(* one where a host serves receipts and another transactions; and an L2     *)
(* that asks for two blocks and may take one back.                          *)
MCSettings ==
    { [confirmations |-> 1, reorg |-> 0, transactions |-> {a}, receipts |-> {a, b}],
      [confirmations |-> 1, reorg |-> 0, transactions |-> {b}, receipts |-> {c}],
      [confirmations |-> 2, reorg |-> 1, transactions |-> {a, b, c}, receipts |-> {a, b, c}] }
=============================================================================
