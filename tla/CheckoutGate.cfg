SPECIFICATION Spec
CONSTANTS
    Req = {q1, q2, q3, q4}
    Window = 3
    MaxRequests = 2
    Delay = 1
    Threshold = 3
    ResetTime = 1
    MaxTime = 5
    MaxRestarts = 1
SYMMETRY Symmetry
INVARIANTS
    TypeOK
    WindowLimit
    ClosedBelowThreshold
PROPERTIES
    BacksOff
CHECK_DEADLOCK FALSE
