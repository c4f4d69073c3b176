----------------------------- MODULE LabScenarios -----------------------------
(***************************************************************************)
(* What both lab flavours work on: scenarios, each with a topology.json    *)
(* that names its devices.  Device names are shared between scenarios (the *)
(* lab is one containerlab lab, or one namespace), so a device of one      *)
(* scenario can take the place of another's.                               *)
(***************************************************************************)
EXTENDS Naturals

CONSTANTS
    Scenarios,        \* the directories under scenarios/
    Devices,          \* device names
    Topologies,       \* the device sets a topology.json may hold
    InitialTopology,  \* the committed topology of each scenario
    NoScenario,       \* an absent marker file, a device that does not run
    Faults            \* the steps that may fail, see the flavours' FaultKinds

ASSUME ScenariosAssumption ==
    /\ NoScenario \notin Scenarios
    /\ Topologies \subseteq SUBSET Devices
    /\ {} \notin Topologies
    /\ InitialTopology \in [Scenarios -> Topologies]

OptionalScenario == Scenarios \union {NoScenario}

\* The devices that run, given the scenario each was started from.
RunningIn(lab) == {d \in Devices : lab[d] # NoScenario}

\* A lab in which the devices of `gone` stopped.
Without(lab, gone) == [d \in Devices |-> IF d \in gone THEN NoScenario ELSE lab[d]]

\* A lab in which the devices of `started` run from scenario s.
Plus(lab, started, s) == [d \in Devices |-> IF d \in started THEN s ELSE lab[d]]

=============================================================================
