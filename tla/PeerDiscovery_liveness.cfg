CONSTANTS
    Peers = {p1, p2}
    Keepalive = 4
    Interval = 1
    Delay = 1
    MaxMisses = 1
    Backlog = 2
    Faults = {"resolver", "cut"}
SPECIFICATION FairSpec
INVARIANTS
    LivePeersListed
PROPERTIES
    PeersMeet
    DeadForgotten
