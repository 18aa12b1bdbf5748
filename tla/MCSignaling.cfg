SPECIFICATION FairSpec
CONSTANTS
    Clients = {c1, c2}
    Rooms = {r1}
    Kinds = {"video"}
    QueueCap = 3
    MaxFailures = 1
    NoRoom = NoRoom
INVARIANTS TypeOK NoSendOnClosedChannel PeersAware OneSideSubscribed LeaversDisappear ConsumersForEveryPair SetupNeverRefused ExistingPeersBindable
PROPERTIES HandlersTerminate
CHECK_DEADLOCK FALSE
