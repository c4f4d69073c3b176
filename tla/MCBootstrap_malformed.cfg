SPECIFICATION Spec
CONSTANTS
    v1 = v1
    v2 = v2
    a = a
    b = b
    NoBody = NoBody
    N = 2
    Keys <- MCKeys
    Bodies <- MCBodies
    MaxRuns = 2
INVARIANT UnpublishableHidesNothing
