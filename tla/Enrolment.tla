----------------------------- MODULE Enrolment -----------------------------
(***************************************************************************)
(* The classes of one student over a semester: the ClassEnrollment rows    *)
(* that AcademicService and the school import of IdentityService write,    *)
(* and the rosters that captureSessionRoster takes from them, on the day   *)
(* of a session or, when it was missed, afterwards.                        *)
(*                                                                         *)
(* enrollStudent is a SERIALIZABLE transaction, the three imports are READ *)
(* COMMITTED; each reads the student's rows before it writes.  Rows of     *)
(* different students never meet.                                          *)
(***************************************************************************)
EXTENDS Integers, FiniteSets

CONSTANTS
    EnrolmentRow,  \* bound: the rows the student may get
    SchoolClass,
    TermEnd,       \* the last day of the semester, which begins on day 1
    Enroller       \* requests served side by side

ASSUME EnrolmentAssumption == TermEnd \in Nat \ {0}

VARIABLES
    enrolment,  \* the ClassEnrollment rows of the student
    enroller,   \* what each request has read and is about to write
    today,      \* the business date
    member,     \* classes the student was in when each past day ended
    rewritten   \* days whose membership was changed after they had ended

enrolmentVars == <<enrolment, enroller, today, member, rewritten>>

Date      == 1 .. TermEnd
OpenEnded == TermEnd + 1
Unused    == [is |-> "none"]
\* A row is "dated" when it names its semester.
Kept      == [is : {"ACTIVE", "CANCELLED", "REVOKED"}, class : SchoolClass,
              from : Date, to : Date \cup {OpenEnded}, dated : BOOLEAN,
              changed : Date \cup {0}]
Free      == [op |-> "none"]
Request   == [op : {"enrol", "students", "academic", "school"}, class : SchoolClass, from : Date,
              to : Date \cup {OpenEnded}, found : SUBSET EnrolmentRow, until : Nat]

EnrolmentTypeOK ==
    /\ enrolment \in [EnrolmentRow -> {Unused} \cup Kept]
    /\ enroller \in [Enroller -> {Free} \cup Request]
    /\ today \in Date
    /\ member \in [Date -> SUBSET SchoolClass]
    /\ rewritten \subseteq Date

Used == {r \in EnrolmentRow : enrolment[r].is # "none"}
Valid == {r \in EnrolmentRow : enrolment[r].is = "ACTIVE"}
Covers(r, d) == enrolment[r].from <= d /\ d <= enrolment[r].to

\* activeEnrollmentValidityWhere.
ValidOn(d) == {r \in Valid : Covers(r, d)}
ClassesOn(d) == {enrolment[r].class : r \in ValidOn(d)}

\* The exclusion constraint of the table, as it will be.
NoOverlap(rows) ==
    \A r, q \in EnrolmentRow :
        r # q /\ rows[r].is = "ACTIVE" /\ rows[q].is = "ACTIVE"
            => rows[r].to < rows[q].from \/ rows[q].to < rows[r].from

\* A fresh database, or a row from before semesters had dates.
EnrolmentInit ==
    /\ \/ enrolment = [r \in EnrolmentRow |-> Unused]
       \/ \E r \in EnrolmentRow, c \in SchoolClass, b \in BOOLEAN :
             enrolment = [q \in EnrolmentRow |->
                 IF q = r THEN [is |-> "ACTIVE", class |-> c, from |-> 1,
                                to |-> OpenEnded, dated |-> b, changed |-> 0]
                          ELSE Unused]
    /\ enroller = [w \in Enroller |-> Free]
    /\ today = 1
    /\ member = [d \in Date |-> {}]
    /\ rewritten = {}

-----------------------------------------------------------------------------
(* Enrolling and transferring.                                             *)

Sets(w, j) == enroller[w] = Free /\ enroller' = [enroller EXCEPT ![w] = j]
Leaves(w)  == enroller' = [enroller EXCEPT ![w] = Free]

\* createEnrollmentTransfer up to its first write.  A student who is in that
\* class already is left there, and a row that would end before it began
\* is refused: then nothing is written.
Reads(w, op, c, f, t) ==
    /\ \A r \in ValidOn(f) :
          /\ ~(enrolment[r].class = c /\ enrolment[r].dated)
          /\ enrolment[r].from < f
    /\ \E u \in {enrolment[r].to : r \in ValidOn(f)} \cup {0} :
          /\ u = 0 <=> ValidOn(f) = {}
          /\ Sets(w, [op |-> op, class |-> c, from |-> f, to |-> t,
                      found |-> ValidOn(f), until |-> u])
    /\ UNCHANGED <<enrolment, today, member, rewritten>>

\* enrollStudent; the dates come from the form.
Enrol(w, c, f, t) == f <= t /\ Reads(w, "enrol", c, f, t)

\* commitStudentsImport, which holds the year and the semester: these imports
\* wait for one another.
StudentsImport(w, c) ==
    /\ \A v \in Enroller : enroller[v].op # "students"
    /\ Reads(w, "students", c, today, TermEnd)

\* commitImport, which holds nothing.
AcademicImport(w, c) == Reads(w, "academic", c, today, TermEnd)

\* commitSchoolImport, for a student with no valid row of any time.  The row
\* is dated in UTC, until seven in the morning that is the day before.  With a
\* row of that class nothing is written; with one of another class the whole
\* import fails, as TRANSFERRED is not a status the table takes.
SchoolImport(w, c) ==
    /\ Valid = {}
    /\ \E f \in {today - 1, today} \cap Date :
          Sets(w, [op |-> "school", class |-> c, from |-> f, to |-> OpenEnded,
                   found |-> {}, until |-> 0])
    /\ UNCHANGED <<enrolment, today, member, rewritten>>

\* previousBusinessDate.
ClosingDate(f) == f - 1

Closed(row, f) == [row EXCEPT !.to = ClosingDate(f)]
Opened(j) == [is |-> "ACTIVE", class |-> j.class, from |-> j.from, to |-> j.to,
              dated |-> j.op # "school", changed |-> 0]

\* A SERIALIZABLE transaction does not write a row that another one has
\* changed since its snapshot.
Unchanged(j) ==
    \A r \in j.found : enrolment[r].is = "ACTIVE" /\ enrolment[r].to = j.until

\* The row found is closed, the new one created, in one transaction that the
\* constraints may refuse.
Transfer(w) ==
    LET j == enroller[w] IN
    /\ j # Free
    /\ j.op = "enrol" => Unchanged(j)
    /\ \E n \in EnrolmentRow \ Used :
          enrolment' = [r \in EnrolmentRow |->
              CASE r = n -> Opened(j)
                [] r # n /\ r \in j.found -> Closed(enrolment[r], j.from)
                [] OTHER -> enrolment[r]]
    /\ NoOverlap(enrolment')
    /\ rewritten' = rewritten \cup {d \in Date : j.from <= d /\ d < today}
    /\ Leaves(w)
    /\ UNCHANGED <<today, member>>

\* A constraint or a conflict refuses the transaction, or it fails.
RollBack(w) ==
    /\ enroller[w] # Free
    /\ Leaves(w)
    /\ UNCHANGED <<enrolment, today, member, rewritten>>

\* setEnrollmentAdministrativeStatus: of any row, whatever its status.  A
\* cancelled row never counted.
SetAdministrativeStatus(r, status) ==
    /\ r \in Used
    /\ enrolment' = [enrolment EXCEPT ![r].is = status, ![r].changed = today]
    /\ rewritten' = IF status = "CANCELLED"
                    THEN rewritten \cup {d \in Date : Covers(r, d) /\ d < today}
                    ELSE rewritten
    /\ UNCHANGED <<enroller, today, member>>

\* Midnight.
DayEnds ==
    /\ today < TermEnd
    /\ today' = today + 1
    /\ member' = [member EXCEPT ![today] = ClassesOn(today)]
    /\ UNCHANGED <<enrolment, enroller, rewritten>>

-----------------------------------------------------------------------------
(* Rosters.                                                                *)

\* Mutant of Backfilled: only rows that are still active.
BackfilledActive(c, d) ==
    \E r \in EnrolmentRow :
        enrolment[r].is = "ACTIVE" /\ enrolment[r].class = c /\ Covers(r, d)

\* Whom captureSessionRoster writes down for a session of class c on day d
\* when it is recovered or repaired later (BACKFILL).
Backfilled(c, d) ==
    \E r \in EnrolmentRow :
        /\ enrolment[r].is \in {"ACTIVE", "REVOKED"}
        /\ enrolment[r].class = c /\ Covers(r, d)
        /\ enrolment[r].is = "REVOKED" => enrolment[r].changed > d

EnrolmentNext ==
    \/ \E w \in Enroller :
        \/ \E c \in SchoolClass :
            \/ \E f, t \in Date : Enrol(w, c, f, t)
            \/ StudentsImport(w, c) \/ AcademicImport(w, c) \/ SchoolImport(w, c)
        \/ Transfer(w) \/ RollBack(w)
    \/ \E r \in EnrolmentRow, s \in {"CANCELLED", "REVOKED"} :
        SetAdministrativeStatus(r, s)
    \/ DayEnds

EnrolmentSpec == EnrolmentInit /\ [][EnrolmentNext]_enrolmentVars

-----------------------------------------------------------------------------
(* Properties.                                                             *)

\* Whoever belonged to a class when a day ended is on the roster of a session
\* of that day, however late it is captured: transfers, revocations and new
\* enrolments since then do not take a student out of the past.  Only a
\* cancellation and an enrolment dated back do (captureSessionRoster).
NobodyForgotten ==
    \A d \in Date, c \in SchoolClass :
        d < today /\ d \notin rewritten /\ c \in member[d] => Backfilled(c, d)

=============================================================================
