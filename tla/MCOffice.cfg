\* One account and two requests on it, two readers and two administrators, two
\* teachers, two days and two requests on the timetable, or two rows of a
\* student in two classes, written by two requests over two days.
SPECIFICATION OfficeSpec
CONSTANTS
    Account = {a1}
    Elsewhere = 1
    Clerk = {p1, p2}
    MaxSession = 3
    MaxVersion = 1
    Reader = {r1, r2}
    Admin = {p1, p2}
    MaxActive = 1
    MaxIssued = 3
    Teacher = {1, 2}
    Applicant = 1
    LeaveDay = 1
    Assignment = {1, 2}
    Lesson = {1}
    LastDay = 2
    Registrar = {p1, p2}
    MaxRequest = 2
    Stale = FALSE
    EnrolmentRow = {r1, r2}
    SchoolClass = {k1, k2}
    TermEnd = 2
    Enroller = {p1, p2}
SYMMETRY Symmetry
INVARIANTS
    OfficeTypeOK
    OneOpenPerFamily
    CodeTradedOnce
    PeriodsNest
    UsedAssignmentsHold
    LeaveAndSessionsAgree
    OnlyUserRowsDeadlock
    NobodyForgotten
PROPERTIES
    DeadFamilyStaysDead
    RefusedForGood
    RevokedForGood
CHECK_DEADLOCK FALSE
