\* One menu entry for both directions, emergency mode on: a scan sent twice.
SPECIFICATION Spec
CONSTANTS
    Scan = {1, 2}
    Kind <- MCKindLegacy
    HasEventId = {}
    Unstamped = {}
    Handler = {h1, h2}
    MaxTime = 3
    MinStay = 1
    DupWindow = 1
    MaxAge = 2
    Skew = 0
    Student = TRUE
    OutWindow = {}
    AsharWindow = {}
    AsharRequired = FALSE
    MaxFaults = 0
    MaxEmergency = 1
    None = None
INVARIANTS
    CountsOnce
CHECK_DEADLOCK FALSE
