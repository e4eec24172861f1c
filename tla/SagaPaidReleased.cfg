SPECIFICATION Spec
CONSTANTS
    Seat = {s1}
    User = {u1}
    HoldId = {h1, h2}
    SweepLimit = 1
    Key = {k1}
    WebhookId = {i1}
    MaxFailures = 0
INVARIANTS
    PaidHoldsNotReleased
CHECK_DEADLOCK FALSE
