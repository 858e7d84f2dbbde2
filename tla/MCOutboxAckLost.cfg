\* The UPDATE to PUBLISHED commits and its reply is lost.
SPECIFICATION Spec
CONSTANTS
    Event = {1, 2}
    CreatedAt <- MCCreatedAt
    Batch = {b1, b2}
    Limit = 2
    MaxAttempts = 2
    MaxLost = 0
    MaxDbErrors = 1
    Recovers = FALSE
    Slow = TRUE
    None = None
INVARIANTS
    PublishedReplayable
CHECK_DEADLOCK FALSE
