------------------------------ MODULE MCKindLab ------------------------------
(***************************************************************************)
(* KindLab for TLC: two scenarios over two FRR devices and an SR Linux one *)
(* that is never rendered.  The committed topologies share one FRR device; *)
(* an edit can take a scenario's FRR devices away altogether.              *)
(***************************************************************************)
EXTENDS KindLab

CONSTANTS wan, frr, d1, d2, srl

MCScenarios == {wan, frr}
MCDevices == {d1, d2, srl}
MCFrr == {d1, d2}
MCTopologies == {{d1, d2}, {d2, srl}, {srl}}
MCInitialTopology == [s \in MCScenarios |-> IF s = wan THEN {d1, d2} ELSE {d2, srl}]

=============================================================================
