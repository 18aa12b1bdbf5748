SPECIFICATION Spec
CONSTANTS
    Subscribers = {1, 2}
    OutSsrc <- MCOutSsrc
    OwnSsrc <- MCOwnSsrc
    PubSsrc = 1
    SeqMod = 16
    TsMod = 8
    FirstSeq = 14
    TsStep = 3
    ReplayWindow = 2
    BlpBits = 1
    MaxPackets = 5
    MaxFeedback = 1
INVARIANTS TypeOK TimelineKept ProtectNeverRefuses NackNamesLostPackets ParsersAgree
CHECK_DEADLOCK FALSE
