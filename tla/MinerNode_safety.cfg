CONSTANTS
    MaxLen = 3
    PeerLens = {0, 1, 2, 3}
    MaxPeers = 1
    OurZeros = 2
    PeerZeros = {1, 2}
    Faults = {"hangup", "nomem", "nospawn"}
SPECIFICATION Spec
INVARIANTS
    TypeOK
    NoUseAfterFree
    ChainsStayValid
    WireComplete
    ReplyIsLongest
    ExitMeansQuiet
PROPERTY PublishedRefines
