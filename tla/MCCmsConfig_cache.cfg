SPECIFICATION Spec
CONSTANTS
    wan = wan
    fabric = fabric
    operator = operator
    ImageLook = ImageLook
    Looks <- MCLooks
    Personas <- MCPersonas
    MaxDatabases = 2
    NoFile = NoFile
    NoKey = NoKey
    OtherKey = OtherKey
    Off = Off
INVARIANT FirstQueryCachesTheGrant
