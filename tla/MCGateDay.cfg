\* The link: two scans of one person on an older phone, two handlers, one death
\* or failed write, a history of one entry (so that the second outcome pushes the
\* first one out), no row that fails again and again; a stay of one minute, scans
\* at most half a minute old.  The other scenes: three scans of a student, of which
\* one carries no time of the phone, two events of a member of staff, of whose
\* requests one fails; the emergency mode once.
SPECIFICATION DaySpec
CONSTANTS
    Scan = {1, 2}
    Kind <- MCKind
    Malformed = {}
    Odd = {}
    Keep = 1
    Cap = 1
    Snapshot = 1
    MaxTries = 1
    MaxTrouble = 1
    Handler = {h1, h2}
    MaxTime = 2
    MinStay = 1
    DupWindow = 0
    MaxAge = 1
    Skew = 0
    Student = FALSE
    OutWindow = {0, 1, 2}
    AsharWindow = {}
    AsharRequired = FALSE
    MaxFaults = 0
    MaxEmergency = 0
    None = None
    PhoneKind <- MCPhoneKind
    PhoneUnstamped = {2}
    CardKind <- MCCardKind
    RepeatWindow = 1
    PrayerWindow = {1}
    ExitWindow = {1, 2}
    CardFaults = 1
    Emergencies = 1
SYMMETRY HandlerSymmetry
VIEW DayView
INVARIANTS
    DayTypeOK
    OutJustified
    OkMeansRecorded
    Accounted
    CountsOnce
PROPERTIES
    LedgerKept
CHECK_DEADLOCK FALSE
