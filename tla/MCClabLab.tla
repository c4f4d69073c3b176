------------------------------ MODULE MCClabLab ------------------------------
(***************************************************************************)
(* ClabLab for TLC: two scenarios over three devices.  The two committed   *)
(* topologies overlap, so handing the wrong one leaves a device behind; an *)
(* edit can make them equal, so one can also replace the other whole.      *)
(***************************************************************************)
EXTENDS ClabLab

CONSTANTS wan, frr, d1, d2, d3

MCScenarios == {wan, frr}
MCDevices == {d1, d2, d3}
MCTopologies == {{d1, d2}, {d2, d3}}
MCInitialTopology == [s \in MCScenarios |-> IF s = wan THEN {d1, d2} ELSE {d2, d3}]

=============================================================================
