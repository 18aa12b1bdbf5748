SPECIFICATION Spec
CONSTANTS
    Browsers = {b1, b2}
    Endpoints = {e1, e2}
    MaxMoves = 0
    MaxInitFailures = 0
    Nothing = Nothing
    Failed = Failed
SYMMETRY MCSymmetry
INVARIANTS EndpointBoundToItsPeer
CHECK_DEADLOCK FALSE
