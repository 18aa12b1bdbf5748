SPECIFICATION FairSpec
CONSTANTS
    Others = {p1, p2}
    MaxToggles = 2
    MaxRestarts = 1
    MaxOverlaps = 1
    MaxErrors = 1
    MaxRejects = 1
    Nobody = Nobody
INVARIANTS TypeOK PendingIsScheduled
PROPERTIES QueueDrains JoinedHandlerFinishes
CHECK_DEADLOCK FALSE
