\* The timetable of the office, with forms filled in from rows that changed.
SPECIFICATION TimetableSpec
CONSTANTS
    Teacher = {1, 2}
    Applicant = 1
    LeaveDay = 1
    Assignment = {1, 2}
    Lesson = {1}
    LastDay = 2
    Registrar = {g1, g2}
    MaxRequest = 2
    Stale = TRUE
SYMMETRY RegistrarSymmetry
INVARIANTS
    LeaveAndSessionsAgree
CHECK_DEADLOCK FALSE
