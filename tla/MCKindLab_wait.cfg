SPECIFICATION Spec
CONSTANTS
    wan = wan
    frr = frr
    d1 = d1
    d2 = d2
    srl = srl
    NoScenario = NoScenario
    Scenarios <- MCScenarios
    Devices <- MCDevices
    Frr <- MCFrr
    Topologies <- MCTopologies
    InitialTopology <- MCInitialTopology
    Faults = {"wait"}
INVARIANT RecordNamesTheRunning
