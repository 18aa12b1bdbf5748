SPECIFICATION Spec
CONSTANTS
    p1 = p1
    p2 = p2
    Publishers = {p1, p2}
    Offered <- MCOffered
    SubscriberPTs <- MCSubscriberPTs
    MaxLate = 0
    Nobody = Nobody
INVARIANTS ForwardedIsExpected KindsByOffers
PROPERTIES AnswerKeepsSsrcs
CHECK_DEADLOCK FALSE
