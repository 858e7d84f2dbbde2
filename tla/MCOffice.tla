------------------------------ MODULE MCOffice ------------------------------
(* Instances for TLC of what the school office works with: accounts, the    *)
(* reader registry, the timetable and the classes of a student.  No          *)
(* transaction touches two of them in a way the models see, so a behaviour is one of one desk: the others   *)
(* stay as they were.                                                       *)
EXTENDS Accounts, ReaderDevices, Timetable, Enrolment, TLC

VARIABLE desk

officeVars == <<accountsVars, devicesVars, timetableVars, enrolmentVars, desk>>

\* The components as they are while nobody is at their desk.
QuietAccounts ==
    /\ user = [a \in Account |-> [is |-> "none", dev |-> FALSE,
                                  archived |-> FALSE, version |-> 0]]
    /\ sess = <<>>
    /\ clerk = [c \in Clerk |-> Idle]
QuietTimetable ==
    /\ year = Day /\ semester = Day
    /\ assignment = [a \in Assignment |-> Absent]
    /\ weekly = Absent
    /\ session = [s \in Lesson |-> Absent]
    /\ leave = [is |-> "pending", sub |-> Nobody]
    /\ registrar = [c \in Registrar |-> Waiting]
    /\ held = [c \in Registrar |-> {}]
    /\ asked = 0
QuietEnrolment ==
    /\ enrolment = [r \in EnrolmentRow |-> Unused]
    /\ enroller = [w \in Enroller |-> Free]
    /\ today = 1
    /\ member = [d \in Date |-> {}]
    /\ rewritten = {}

OfficeInit ==
    /\ DevicesInit
    /\ \/ desk = "accounts"  /\ AccountsInit  /\ QuietTimetable /\ QuietEnrolment
       \/ desk = "devices"   /\ QuietAccounts /\ QuietTimetable /\ QuietEnrolment
       \/ desk = "timetable" /\ QuietAccounts /\ TimetableInit  /\ QuietEnrolment
       \/ desk = "classes"   /\ QuietAccounts /\ QuietTimetable /\ EnrolmentInit

OfficeNext ==
    /\ UNCHANGED desk
    /\ \/ /\ desk = "accounts" /\ AccountsNext
          /\ UNCHANGED <<devicesVars, timetableVars, enrolmentVars>>
       \/ /\ desk = "devices" /\ DevicesNext
          /\ UNCHANGED <<accountsVars, timetableVars, enrolmentVars>>
       \/ /\ desk = "timetable" /\ TimetableNext
          /\ UNCHANGED <<accountsVars, devicesVars, enrolmentVars>>
       \/ /\ desk = "classes" /\ EnrolmentNext
          /\ UNCHANGED <<accountsVars, devicesVars, timetableVars>>

OfficeSpec == OfficeInit /\ [][OfficeNext]_officeVars

\* The types of the variables of the four desks.
OfficeTypeOK == AccountsTypeOK /\ DevicesTypeOK /\ TimetableTypeOK /\ EnrolmentTypeOK

\* The desks share their model values (MCOffice.cfg): swapping two of them swaps
\* them at the one desk a behaviour is of, and the others do not mention them.
Symmetry == Permutations(Clerk) \cup Permutations(Reader) \cup Permutations(SchoolClass)
=============================================================================
