\* Outbox: two batches, one of which may die, two attempts, one failed row update.
\* Monitor: two streams of a user who may have one, over the same rows.
\* Phone: three scans, one of them malformed once stored and one that the phone may
\* fail on for ever, a queue and a snapshot of two rows, a history of one entry, two
\* deaths or failed writes.
SPECIFICATION QueuesSpec
CONSTANTS
    Event = {1, 2}
    CreatedAt <- MCCreatedAt
    Batch = {b1, b2}
    Limit = 2
    MaxAttempts = 2
    MaxLost = 1
    MaxDbErrors = 1
    Recovers = FALSE
    Slow = TRUE
    None = None
    Stream = {1, 2}
    PerUser = 1
    MaxFaults = 1
    Lapses = TRUE
    Scan = {1, 2, 3}
    Malformed = {3}
    Odd = {2}
    Keep = 1
    Cap = 2
    Snapshot = 2
    MaxTries = 2
    MaxTrouble = 2
    NoScan = NoScan
INVARIANTS
    TypeOK
    ClaimExclusive
    OnlyLossOrphans
    ProgramCopiesBounded
    ScreenComplete
    LimitHolds
    NothingForgotten
    SettledLeaves
PROPERTIES
    KeptSettled
    QueueDrains
CHECK_DEADLOCK FALSE
