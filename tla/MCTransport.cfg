SPECIFICATION Spec
CONSTANTS
    Browsers = {b1, b2}
    Endpoints = {e1, e2}
    MaxMoves = 1
    MaxInitFailures = 1
    Nothing = Nothing
    Failed = Failed
SYMMETRY MCSymmetry
INVARIANTS TypeOK OneEndpointPerPeer EnoughPending MediaDecryptable NoForeignKeys
CHECK_DEADLOCK FALSE
