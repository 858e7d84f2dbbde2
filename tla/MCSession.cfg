\* One student, who came in, one client, and one job that dies.
SPECIFICATION FairSpec
CONSTANTS
    Student = {s1}
    Client = {c1}
    Formal = formal
    Substitute = substitute
    CameIn = {s1}
    MaxDeaths = 1
    None = None
INVARIANTS
    TypeOK
    ClosedReviewed
    MissedUntaught
    SwapMatchesLeave
    
PROPERTIES
    ReviewedStands
    RosterFrozen
    GetsReconciled
CHECK_DEADLOCK FALSE
