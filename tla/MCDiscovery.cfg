SPECIFICATION Spec
CONSTANTS
    block = block
    frr = frr
    srlinux = srlinux
    Blocks <- MCBlocks
    Devices <- MCDevices
    Life = 11
    LoginTimeout = 1
    ReadyTimeout = 2
    DevicesTimeout = 2
    EngineTimeout = 1
    ConnectTimeout = 1
    Interval = 1
    MaxGrants = 2
    NoToken = NoToken
SYMMETRY DeviceSymmetry
INVARIANTS
    TypeOK
    TokenOutlastsTheWaits
    GrantsReachTheEngine
    ZeroMeansSeen
