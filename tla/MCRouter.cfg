CONSTANTS
    Peers = {p1, p2}
    Ssrcs = {1, 2}
    OutSsrcs = {o1, o2}
    Kinds = {"video"}
    Mids = {m1}
    Workers = {w1, w2}
    MaxConsumers = 2
    MaxProducers = 2
    NoPeer = NoPeer
    NoMid = NoMid
SPECIFICATION Spec
SYMMETRY MCSymmetry
INVARIANTS
    TypeOK
    NoDanglingConsumer
    AttachmentConsistent
    NoStrandedConsumer
    OneDeliveringConsumer
    InFlightPacketIsSubscribed
    RouteTableSound
PROPERTIES ForwardsAsPromised
CHECK_DEADLOCK FALSE
