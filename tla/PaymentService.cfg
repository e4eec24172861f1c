SPECIFICATION FairSpec
CONSTANTS
    Seat = {s1}
    HoldId = {h1, h2}
    Key = {k1}
    WebhookId = {i1, i2}
    MaxFailures = 1
INVARIANTS
    TypeOK
    EventsMatchIntents
    ProcessedMeansSettled
    CompletedOnlyIfPaid
PROPERTIES
    SettledIntentsNeverChange
    WebhooksEventuallyProcessed
CHECK_DEADLOCK FALSE
