SPECIFICATION ClaimSpec
CONSTANTS
    Row = {r1}
    Worker = {w1, w2}
    BatchLimit = 1
    MaxAttempts = 2
    MaxCrashes = 0
PROPERTIES
    RequeueOnlyOldClaims
