\* The running program, with the fairness of its timers: one batch dies.
SPECIFICATION FairSpec
CONSTANTS
    Event = {1, 2}
    CreatedAt <- MCCreatedAt
    Batch = {b1, b2}
    Limit = 2
    MaxAttempts = 2
    MaxLost = 1
    MaxDbErrors = 0
    Recovers = FALSE
    Slow = TRUE
    None = None
PROPERTIES
    Settled
CHECK_DEADLOCK FALSE
