\* The teacher who is excused by an approved leave stays excused.
SPECIFICATION Spec
CONSTANTS
    Student = {s1}
    Client = {c1}
    Formal = formal
    Substitute = substitute
    CameIn = {s1}
    MaxDeaths = 0
    None = None
INVARIANTS
    LeaveExcuses
CHECK_DEADLOCK FALSE
