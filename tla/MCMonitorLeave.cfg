\* A user who may have one stream and opens two, one after the other; Redis
\* answers every command.
SPECIFICATION MonitorSpec
CONSTANTS
    Event = {1}
    CreatedAt <- MCCreatedAt
    Stream = {1, 2}
    PerUser = 1
    MaxFaults = 0
    Lapses = FALSE
PROPERTIES
    RefusedOnlyWhenFull
CHECK_DEADLOCK FALSE
