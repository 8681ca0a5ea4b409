SPECIFICATION Spec
CONSTANTS
    Limit = 7
    MaxPeers = 2
INVARIANTS
    TypeOK
    NoSharedDescriptor
    FailuresAloneExhaust
