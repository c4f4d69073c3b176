SPECIFICATION Spec
CONSTANTS
    wan = wan
    frr = frr
    d1 = d1
    d2 = d2
    d3 = d3
    NoScenario = NoScenario
    Scenarios <- MCScenarios
    Devices <- MCDevices
    Topologies <- MCTopologies
    InitialTopology <- MCInitialTopology
    Faults = {"generate", "stack", "bootstrap", "deploy", "wait", "destroy", "edit"}
INVARIANTS
    TypeOK
    RecordNamesTheRunning
PROPERTIES
    ImplementsSlot
    BannerIsHonest
