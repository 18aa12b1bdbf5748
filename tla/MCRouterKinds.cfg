CONSTANTS
    Peers = {p1, p2}
    Ssrcs = {1, 2}
    OutSsrcs = {o1, o2}
    Kinds = {"audio", "video"}
    Mids = {m1}
    Workers = {w1}
    MaxConsumers = 2
    MaxProducers = 2
    NoPeer = NoPeer
    NoMid = NoMid
SPECIFICATION Spec
SYMMETRY MCSymmetry
INVARIANTS KindsKeptApart
CHECK_DEADLOCK FALSE
