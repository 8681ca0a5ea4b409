CONSTANTS
    MaxLen = 3
    PeerLens = {2, 3}
    MaxPeers = 1
    OurZeros = 1
    PeerZeros = {}
    Faults = {"hangup"}
SPECIFICATION FairSpec
PROPERTIES
    MinerCatchesUp
    MinerStops
    ServerStops
