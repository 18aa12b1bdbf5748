SPECIFICATION FairSpec
CONSTANTS
    c1 = c1
    c2 = c2
    Clients = {c1, c2}
    Address <- MCAddress
    Threads = {1, 2}
    Shape <- MCShape
    Magic <- MCMagic
    MaxFaults = 1
    NoPacket = NoPacket
    Garbage = Garbage
INVARIANTS TypeOK OnlyValidAnswered CheckedAddressIsOwn
PROPERTIES FinallyConnected
CHECK_DEADLOCK FALSE
