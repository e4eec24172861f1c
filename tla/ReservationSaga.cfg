SPECIFICATION Spec
CONSTANTS
    Seat = {s1}
    User = {u1}
    HoldId = {h1, h2}
    SweepLimit = 1
    Key = {k1, k2}
    WebhookId = {i1}
    MaxFailures = 0
SYMMETRY Symmetry
INVARIANTS
    TypeOK
    ReservedOnlyIfPaid
    AcknowledgedMeansApplied
PROPERTIES
    ServicesImplemented
    ContractKept
CHECK_DEADLOCK FALSE
