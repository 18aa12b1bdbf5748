SPECIFICATION FairSpec
CONSTANTS
    Browsers = {b1, b2}
    Endpoints = {e1}
    MaxMoves = 0
    MaxInitFailures = 1
    Nothing = Nothing
    Failed = Failed

PROPERTIES ServerKeysEventually
CHECK_DEADLOCK FALSE
