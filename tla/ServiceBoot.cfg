SPECIFICATION FairSpec
CONSTANTS
    Replica = {p1, p2}
    NFiles = 2
    Client <- MCClient
    DialAttempts = 2
    MaxStarts = 3
    MaxOutages = 1
INVARIANTS
    TypeOK
    SingleConnection
    BoundBeforeServing
PROPERTIES
    OneSchemaHistory
    BootEnds
    NoCallWaitsForever
CHECK_DEADLOCK FALSE
