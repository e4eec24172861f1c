SPECIFICATION FairSpec
CONSTANTS
    Row = {r1, r2}
    Worker = {w1, w2}
    BatchLimit = 1
    MaxAttempts = 2
    MaxCrashes = 2
INVARIANTS
    TypeOK
    NoEventLost
    DeadOnlyAfterRetries
    MemoryIsSound
PROPERTIES
    AtLeastOnce
    EventuallySettled
