CONSTANTS
    Peers = {p1, p2, p3}
    Keepalive = 1
    Interval = 1
    Delay = 0
    MaxMisses = 0
    Backlog = 2
    Faults = {"resolver", "cut"}
SPECIFICATION Spec
SYMMETRY PeerSymmetry
INVARIANTS
    TypeOK
    ReplyFresh
