SPECIFICATION Spec
CONSTANTS
    p1 = p1
    p2 = p2
    Publishers = {p1, p2}
    Offered <- MCOffered
    SubscriberPTs <- MCSubscriberPTs
    MaxLate = 2
    Nobody = Nobody
INVARIANTS OverwrittenWithSameValue
CHECK_DEADLOCK FALSE
