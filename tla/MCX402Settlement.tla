-------------------------- MODULE MCX402Settlement --------------------------
(* Values for model checking X402Settlement: two requests that carry the   *)
(* authorization, for the same call or for two.                            *)
EXTENDS X402Settlement, TLC

CONSTANTS r1, r2, this, other

MCReq    == {r1, r2}
OneCall  == (r1 :> this) @@ (r2 :> this)
TwoCalls == (r1 :> this) @@ (r2 :> other)

SameCall(faults) == [faults |-> faults, want |-> OneCall, rich |-> TRUE,
                     tries |-> MaxTx, restarts |-> MaxCrash, overtakes |-> 0]

Faulty      == SameCall({"read", "note", "send", "write"})
TwoWants    == [faults |-> {"signature", "proof", "finish", "mark"},
                want |-> TwoCalls, rich |-> FALSE, tries |-> MaxTx, restarts |-> 1,
                overtakes |-> 0]
SlowWrites  == [faults |-> {"stall"}, want |-> TwoCalls, rich |-> FALSE,
                tries |-> 1, restarts |-> 0, overtakes |-> 0]
SlowTool    == [SameCall({"write"}) EXCEPT !.tries = 1, !.overtakes = 1]
MCSettings  == {Faulty, TwoWants, SlowWrites, SlowTool}
WriteFails  == {[SameCall({"write"}) EXCEPT !.overtakes = 1]}
HostsLag    == {SameCall({"lag"})}
ProofFails  == {SameCall({"proof"})}
Stalls      == SameCall({"note", "stall"})
FinishFails == SameCall({"finish"})
UnsafeWrites == {Stalls, FinishFails}
LeaseOnly   == {[SameCall({}) EXCEPT !.overtakes = 1]}
NoFunds     == {[SameCall({}) EXCEPT !.rich = FALSE]}

(* The unconditional forms, which the code does not keep.                  *)
NeverSentBackAlways ==
    [][\A r \in Req : q'[r].told = "challenge" /\ q[r].told # "challenge" => ~Owed]_vars
ServedOnceAlways == served <= 1 + crashes
SentIsOnRecordAlways ==
    \A t \in Live : \E k \in DOMAIN log :
      log[k].tx = t /\ log[k].outcome \in {"ambiguous", "settled"}
=============================================================================
