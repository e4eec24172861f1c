SPECIFICATION FairSpec
CONSTANTS
    Seat = {s1, s2}
    User = {u1, u2}
    HoldId = {h1, h2, h3}
    EventId = {e1, e2}
    SweepLimit = 1
INVARIANTS
    TypeOK
    OneActiveHold
    SeatMirrorsHolds
    OutboxTellsTheTruth
    SilentReleaseIsTakeover
    OneEventPerReservation
PROPERTIES
    FinishedHoldsNeverChange
    SeatsAreLeased
    EveryHoldEnds
CHECK_DEADLOCK FALSE
