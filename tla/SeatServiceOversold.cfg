SPECIFICATION Spec
CONSTANTS
    Seat = {s1}
    User = {u1, u2}
    HoldId = {h1, h2}
    EventId = {e1, e2}
    SweepLimit = 2
INVARIANTS
    OneReservationPerSeat
CHECK_DEADLOCK FALSE
