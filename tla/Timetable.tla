------------------------------ MODULE Timetable ------------------------------
(***************************************************************************)
(* The timetable: an academic year and its semester, the teaching          *)
(* assignments of one class and subject, a weekly schedule, the sessions   *)
(* made from them and the leave of one teacher (modules scheduling,        *)
(* academic and teacher-leave).                                            *)
(*                                                                         *)
(* Every handler is a transaction at READ COMMITTED that reads, takes      *)
(* locks one by one (advisory locks of a teacher and a day, then rows FOR  *)
(* UPDATE), reads again and writes.  Inserting a row takes the referenced  *)
(* users FOR KEY SHARE.  Locks are held until the transaction ends; its    *)
(* writes are seen when it commits.                                        *)
(***************************************************************************)
EXTENDS Integers, Sequences, FiniteSets

CONSTANTS
    Teacher,     \* users who teach; ids compare as their lexical order
    Applicant,   \* the teacher who asked for leave
    LeaveDay,    \* the day of that leave
    Assignment,  \* TeachingAssignment ids
    Lesson,      \* Session ids
    LastDay,     \* bound: the days of the calendar
    Registrar,   \* requests served side by side
    MaxRequest,  \* bound: requests in all
    Stale        \* may a form be filled in from rows that changed since?

ASSUME TimetableAssumption ==
    /\ Applicant \in Teacher
    /\ Teacher \cup Assignment \cup Lesson \subseteq Nat \ {0}
    /\ Assignment # {} /\ IsFiniteSet(Lesson)
    /\ LastDay \in Nat /\ LeaveDay \in 1 .. LastDay
    /\ MaxRequest \in Nat /\ Stale \in BOOLEAN

VARIABLES
    year, semester,  \* the days of the AcademicYear and of its Semester
    assignment,      \* the TeachingAssignment rows
    weekly,          \* the WeeklySchedule row
    session,         \* the Session rows, and whether the formal teacher is excused
    leave,           \* the TeacherLeave row
    registrar,       \* what each request has read and which locks it still needs
    held,            \* the locks each request holds
    asked            \* how many requests have come

academicVars  == <<year, semester>>
recordVars    == <<academicVars, assignment, weekly, session, leave>>
timetableVars == <<recordVars, registrar, held, asked>>

Day    == 1 .. LastDay
Span   == {a .. b : a \in Day, b \in Day} \ {{}}
Absent == [is |-> "none"]
Nobody == 0

Lock == {<<k, "it", "update">> : k \in {"leave", "weekly", "year", "semester"}}
        \cup {<<"day", <<t, d>>, "update">> : t \in Teacher, d \in Day}
        \cup {<<"user", t, m>> : t \in Teacher, m \in {"update", "key"}}
        \cup {<<"assignment", a, "update">> : a \in Assignment}
        \cup {<<"session", s, "update">> : s \in Lesson}

TimetableTypeOK ==
    /\ {year, semester} \subseteq Span
    /\ \A a \in Assignment : assignment[a] \in
           {Absent} \cup [is : {"on", "off"}, teacher : Teacher, days : Span]
    /\ weekly \in {Absent} \cup [is : {"on", "off"}, of : Assignment,
                                 teacher : Teacher, days : Span]
    /\ \A s \in Lesson : session[s] \in
           {Absent} \cup [is : {"set"}, day : Day, teacher : Teacher, of : Assignment,
                          source : Teacher \cup {Nobody},
                          sourceOf : Assignment \cup {Nobody},
                          scheduled : BOOLEAN, excused : BOOLEAN]
    /\ leave \in [is : {"pending", "approved", "ended"}, sub : Teacher \cup {Nobody}]
    /\ held \in [Registrar -> SUBSET Lock]
    /\ asked \in 0 .. MaxRequest

Made(a) == assignment[a].is # "none"
\* Mutant of InUse: what a substitute holds is not counted.
InUseActing(a) == \/ weekly.is # "none" /\ weekly.of = a
                  \/ \E s \in Lesson : session[s].is # "none" /\ a = session[s].of
InUse(a) == \/ weekly.is # "none" /\ weekly.of = a
            \/ \E s \in Lesson : session[s].is # "none" /\ a \in {session[s].of, session[s].sourceOf}
FormalTeacher(s)    == IF s.source = Nobody THEN s.teacher ELSE s.source
FormalAssignment(s) == IF s.source = Nobody THEN s.of ELSE s.sourceOf
OnLeave(t, d) == t = Applicant /\ d = LeaveDay /\ leave.is = "approved"

-----------------------------------------------------------------------------
(* Locks and transactions.                                                 *)

Least(S)   == CHOOSE n \in S : \A m \in S : n <= m
InOrder(S) == CHOOSE s \in [1 .. Cardinality(S) -> S] :
                  \A i, j \in DOMAIN s : i < j => s[i] < s[j]
Sorted(kind, ids) ==
    LET s == InOrder(ids) IN [i \in DOMAIN s |-> <<kind, s[i], "update">>]
AcademicRows == <<<<"year", "it", "update">>, <<"semester", "it", "update">>>>
\* Mutants of MutationRows: assignments before the period, and no period.
MutationRowsReversed(users, assignments, sessions) ==
    Sorted("user", users) \o Sorted("assignment", assignments) \o AcademicRows
                          \o Sorted("session", sessions)
MutationRowsOnly(users, assignments, sessions) ==
    Sorted("user", users) \o Sorted("assignment", assignments) \o Sorted("session", sessions)
\* lockScheduleMutationRows: users, the year, the semester, assignments and
\* sessions, each in the order of their ids.
MutationRows(users, assignments, sessions) ==
    Sorted("user", users) \o AcademicRows \o Sorted("assignment", assignments)
                          \o Sorted("session", sessions)
\* lockTeacherLeaveBusinessDates.
LeaveDates(t, days) ==
    LET s == InOrder(days) IN [i \in DOMAIN s |-> <<"day", <<t, s[i]>>, "update">>]
\* The foreign key checks of an insert.
KeyShares(users) ==
    LET s == InOrder(users \ {Nobody}) IN [i \in DOMAIN s |-> <<"user", s[i], "key">>]

Clash(l, m)  == l[1] = m[1] /\ l[2] = m[2] /\ ~(l[3] = "key" /\ m[3] = "key")
Blockers(c)  == IF registrar[c].need = <<>> THEN {}
                ELSE {d \in Registrar \ {c} :
                         \E l \in held[d] : Clash(l, Head(registrar[c].need))}

Waiting == [op |-> "idle", need |-> <<>>]
Ready(c, op, at) == /\ registrar[c].op = op
                    /\ registrar[c].at = at
                    /\ registrar[c].need = <<>>
Proceed(c, job)  == /\ registrar' = [registrar EXCEPT ![c] = job]
                    /\ UNCHANGED <<held, asked, recordVars>>
Ends(c) == /\ registrar' = [registrar EXCEPT ![c] = Waiting]
           /\ held' = [held EXCEPT ![c] = {}]
           /\ UNCHANGED asked
Comes(c) == registrar[c] = Waiting /\ asked < MaxRequest
Start(c, job) == /\ asked' = asked + 1
                 /\ registrar' = [registrar EXCEPT ![c] = job]
                 /\ UNCHANGED <<held, recordVars>>

Take(c) ==
    /\ registrar[c].need # <<>>
    /\ Blockers(c) = {}
    /\ held' = [held EXCEPT ![c] = @ \cup {Head(registrar[c].need)}]
    /\ registrar' = [registrar EXCEPT ![c].need = Tail(@)]
    /\ UNCHANGED <<asked, recordVars>>

\* Waiting too long, or chosen by the deadlock detector: rolled back.
GiveUp(c) ==
    /\ Blockers(c) # {}
    /\ Ends(c)
    /\ UNCHANGED recordVars

Refuse(c) == Ends(c) /\ UNCHANGED recordVars

\* The last check passed: the row is written and the transaction commits next.
Passes(c) == Proceed(c, [registrar[c] EXCEPT !.at = "commit"])

-----------------------------------------------------------------------------
(* The calendar.                                                           *)

\* updateAcademicYear: every semester must still fit.
AskYear(c, span) ==
    /\ Comes(c)
    /\ Start(c, [op |-> "year", at |-> "check", days |-> span,
                 need |-> <<Head(AcademicRows)>>])

CheckAcademicYear(c) ==
    /\ Ready(c, "year", "check")
    /\ IF semester \subseteq registrar[c].days THEN Passes(c) ELSE Refuse(c)

UpdateAcademicYear(c) ==
    /\ Ready(c, "year", "commit")
    /\ year' = registrar[c].days
    /\ Ends(c)
    /\ UNCHANGED <<semester, assignment, weekly, session, leave>>

\* updateSemester: within the year, and around every assignment.
AskSemester(c, span) ==
    /\ Comes(c)
    /\ Start(c, [op |-> "semester", at |-> "check", days |-> span, need |-> AcademicRows])

SemesterMayBe(span) ==
    /\ span \subseteq year
    /\ \A a \in Assignment : Made(a) => assignment[a].days \subseteq span

CheckSemester(c) ==
    /\ Ready(c, "semester", "check")
    /\ IF SemesterMayBe(registrar[c].days) THEN Passes(c) ELSE Refuse(c)

UpdateSemester(c) ==
    /\ Ready(c, "semester", "commit")
    /\ semester' = registrar[c].days
    /\ Ends(c)
    /\ UNCHANGED <<year, assignment, weekly, session, leave>>

-----------------------------------------------------------------------------
(* Teaching assignments.                                                   *)

\* TeachingAssignment_active_no_overlap_excl.
Overlapping(a, row) ==
    row.is = "on" /\ \E b \in Assignment \ {a} :
        /\ assignment[b].is = "on"
        /\ assignment[b].teacher = row.teacher
        /\ assignment[b].days \cap row.days # {}

AskCreateAssignment(c, t, span) ==
    /\ Comes(c)
    /\ Start(c, [op |-> "newAssignment", at |-> "check",
                 row |-> [is |-> "on", teacher |-> t, days |-> span],
                 need |-> MutationRows({t}, {}, {})])

CheckNewAssignment(c) ==
    /\ Ready(c, "newAssignment", "check")
    /\ IF registrar[c].row.days \subseteq semester THEN Passes(c) ELSE Refuse(c)

\* The exclusion constraint has the last word.  (Bound: while there is an
\* assignment left to make.)
CreateTeachingAssignment(c) ==
    /\ Ready(c, "newAssignment", "commit")
    /\ \E a \in Assignment :
          /\ ~Made(a)
          /\ assignment' = IF Overlapping(a, registrar[c].row) THEN assignment
                           ELSE [assignment EXCEPT ![a] = registrar[c].row]
    /\ Ends(c)
    /\ UNCHANGED <<academicVars, weekly, session, leave>>

\* updateTeachingAssignment: the pre-read names the rows to lock.
AskUpdateAssignment(c, a, is, t, span) ==
    /\ Comes(c) /\ Made(a)
    /\ Start(c, [op |-> "assignment", at |-> "check", id |-> a,
                 row |-> [is |-> is, teacher |-> t, days |-> span],
                 saw |-> assignment[a].teacher,
                 need |-> MutationRows({assignment[a].teacher, t}, {a}, {})])

\* An assignment in use may only be switched on and off.
Changeable(a, row, saw) ==
    /\ assignment[a].teacher = saw
    /\ row.days \subseteq semester
    /\ InUse(a) => row.teacher = assignment[a].teacher /\ row.days = assignment[a].days

CheckAssignment(c) ==
    /\ Ready(c, "assignment", "check")
    /\ LET j == registrar[c] IN
       IF Changeable(j.id, j.row, j.saw) THEN Passes(c) ELSE Refuse(c)

UpdateTeachingAssignment(c) ==
    /\ Ready(c, "assignment", "commit")
    /\ LET j == registrar[c] IN
       assignment' = IF Overlapping(j.id, j.row) THEN assignment
                     ELSE [assignment EXCEPT ![j.id] = j.row]
    /\ Ends(c)
    /\ UNCHANGED <<academicVars, weekly, session, leave>>

-----------------------------------------------------------------------------
(* What schedules and sessions are made from.                              *)

\* resolveScheduleAssignment: the form's teacher and days fit assignment a.
Resolves(a, t, days) ==
    /\ assignment[a].is = "on"
    /\ assignment[a].teacher = t
    /\ assignment[a].days \subseteq semester
    /\ days # {} /\ days \subseteq assignment[a].days

StandsIn(b, t, d) ==
    assignment[b].is = "on" /\ assignment[b].teacher = t /\ d \in assignment[b].days

Acts(t, a, source, sourceOf, onLeave) ==
    [teacher |-> t, of |-> a, source |-> source, sourceOf |-> sourceOf, onLeave |-> onLeave]

\* discoverSessionActingIdentity for formal assignment a of teacher t on day d:
\* the teacher, or an assignment of the substitute the approved leave names.
\* No such assignment refuses the request.
Acting(a, t, d) ==
    IF OnLeave(t, d) /\ leave.sub # Nobody
    THEN {Acts(leave.sub, b, t, a, TRUE) : b \in {x \in Assignment : StandsIn(x, leave.sub, d)}}
    ELSE {Acts(t, a, Nobody, Nobody, OnLeave(t, d))}

\* revalidateSessionActingIdentity, with the rows locked.
StillActs(who, d) == who.source = Nobody \/ StandsIn(who.of, who.teacher, d)
Revalidated(who, a) ==
    IF who.source = Nobody
    THEN Acts(assignment[a].teacher, a, Nobody, Nobody, who.onLeave)
    ELSE [who EXCEPT !.source = assignment[a].teacher, !.sourceOf = a]

SessionRow(who, d, scheduled) ==
    [is |-> "set", day |-> d, teacher |-> who.teacher, of |-> who.of, source |-> who.source,
     sourceOf |-> who.sourceOf, scheduled |-> scheduled, excused |-> who.onLeave]

-----------------------------------------------------------------------------
(* Weekly schedules.                                                       *)

\* createWeeklySchedule (bound: one schedule) and, when the row exists,
\* updateWeeklySchedule, which locks it first.
AskWeekly(c, a, span, is) ==
    /\ Comes(c) /\ Made(a)
    /\ weekly = Absent => \A d \in Registrar : registrar[d].op # "weekly"
    /\ Start(c, [op |-> "weekly", at |-> "read",
                 row |-> [is |-> is, of |-> a, teacher |-> assignment[a].teacher, days |-> span],
                 need |-> IF weekly = Absent THEN AcademicRows \o Sorted("assignment", {a})
                          ELSE <<<<"weekly", "it", "update">>>> \o AcademicRows
                               \o Sorted("assignment", {a})])

ResolveWeekly(c) ==
    /\ Ready(c, "weekly", "read")
    /\ LET row == registrar[c].row IN
       IF Resolves(row.of, row.teacher, row.days)
       THEN Proceed(c, [registrar[c] EXCEPT !.at = "write",
                            !.need = IF weekly # Absent /\ weekly.teacher = row.teacher THEN <<>>
                                     ELSE KeyShares({row.teacher})])
       ELSE Refuse(c)

WriteWeekly(c) ==
    /\ Ready(c, "weekly", "write")
    /\ weekly' = registrar[c].row
    /\ Ends(c)
    /\ UNCHANGED <<academicVars, assignment, session, leave>>

-----------------------------------------------------------------------------
(* Sessions.                                                               *)

\* createSession: the assignment read here names the teacher whose days are
\* locked; the form names its own.
AskSession(c, a, t, d) ==
    /\ Comes(c) /\ Made(a)
    /\ t = assignment[a].teacher \/ Stale
    /\ Start(c, [op |-> "session", at |-> "discover", of |-> a, teacher |-> t,
                 day |-> d, saw |-> assignment[a].teacher, scheduled |-> FALSE,
                 need |-> LeaveDates(assignment[a].teacher, {d})])

\* generateSessionsFromWeeklySchedule for a range with one class day d: the
\* schedule is locked before it is read.
AskGenerate(c, d) ==
    /\ Comes(c) /\ weekly # Absent
    /\ Start(c, [op |-> "generate", at |-> "schedule", day |-> d,
                 need |-> <<<<"weekly", "it", "update">>>>])

ReadSchedule(c) ==
    /\ Ready(c, "generate", "schedule")
    /\ LET j == registrar[c] IN
       IF weekly.is = "on" /\ j.day \in weekly.days
       THEN Proceed(c, [op |-> "session", at |-> "discover", of |-> weekly.of,
                        teacher |-> weekly.teacher, day |-> j.day, saw |-> weekly.teacher,
                        scheduled |-> TRUE,
                        need |-> LeaveDates(weekly.teacher, {j.day}) \o AcademicRows])
       ELSE Refuse(c)

AlreadyGenerated(d) ==
    \E s \in Lesson : session[s].is # "none" /\ session[s].scheduled /\ session[s].day = d

\* Who will act is found before the assignments are locked.
DiscoverActing(c) ==
    /\ Ready(c, "session", "discover")
    /\ LET j == registrar[c]
           found == Acting(j.of, j.saw, j.day)
       IN  \/ /\ found # {}
              /\ j.scheduled => /\ Resolves(j.of, j.teacher, weekly.days)
                                /\ ~AlreadyGenerated(j.day)
              /\ \E who \in found :
                    Proceed(c, [op |-> "session", at |-> "check", of |-> j.of,
                                teacher |-> j.teacher, day |-> j.day,
                                scheduled |-> j.scheduled, who |-> who,
                                need |-> (IF j.scheduled THEN <<>> ELSE AcademicRows)
                                         \o Sorted("assignment", {j.of, who.of})])
           \/ /\ \/ found = {}
                 \/ j.scheduled /\ (\/ ~Resolves(j.of, j.teacher, weekly.days)
                                    \/ AlreadyGenerated(j.day))
              /\ Refuse(c)

CheckSession(c) ==
    /\ Ready(c, "session", "check")
    /\ LET j == registrar[c]
           who == Revalidated(j.who, j.of)
       IN  IF /\ Resolves(j.of, j.teacher, IF j.scheduled THEN weekly.days ELSE {j.day})
              /\ StillActs(j.who, j.day)
           THEN Proceed(c, [op |-> "session", at |-> "insert",
                            row |-> SessionRow(who, j.day, j.scheduled),
                            need |-> KeyShares({who.teacher, who.source}
                                               \cup (IF who.onLeave THEN {j.teacher} ELSE {}))])
           ELSE Refuse(c)

\* Session_weeklyScheduleId_businessDate_key.
Duplicate(s, row) ==
    row.scheduled /\ \E x \in Lesson \ {s} :
        session[x].is # "none" /\ session[x].scheduled /\ session[x].day = row.day
Put(s, row) ==
    session' = IF Duplicate(s, row) THEN session ELSE [session EXCEPT ![s] = row]

\* (Bound: while there is a session left to make.)
InsertSession(c) ==
    /\ Ready(c, "session", "insert")
    /\ \E s \in Lesson : session[s] = Absent /\ Put(s, registrar[c].row)
    /\ Ends(c)
    /\ UNCHANGED <<academicVars, assignment, weekly, leave>>

\* updateSessionSchedule: the session is read before the transaction.
AskReschedule(c, s, d) ==
    /\ Comes(c) /\ session[s] # Absent
    /\ Start(c, [op |-> "reschedule", at |-> "discover", id |-> s, day |-> d,
                 saw |-> session[s],
                 need |-> LeaveDates(FormalTeacher(session[s]), {session[s].day, d})])

DiscoverRescheduled(c) ==
    /\ Ready(c, "reschedule", "discover")
    /\ LET j == registrar[c]
           a == FormalAssignment(j.saw)
           found == Acting(a, assignment[a].teacher, j.day)
       IN  \/ found = {} /\ Refuse(c)
           \/ \E who \in found :
                 Proceed(c, [op |-> "reschedule", at |-> "check", id |-> j.id,
                             day |-> j.day, saw |-> j.saw, who |-> who,
                             need |-> MutationRows({}, {a, who.of}, {j.id})])

\* The row is as it was read, but for the presence, which nobody compares.
AsRead(s, saw) == [session[s] EXCEPT !.excused = saw.excused] = saw

\* The row on its new day; a presence that was excused stays so.
Rescheduled(old, who, d) ==
    [SessionRow(who, d, old.scheduled) EXCEPT
        !.excused = who.onLeave \/ (old.excused /\ old.source = Nobody)]

CheckRescheduled(c) ==
    /\ Ready(c, "reschedule", "check")
    /\ LET j == registrar[c]
           a == FormalAssignment(j.saw)
           who == Revalidated(j.who, a)
       IN  IF /\ AsRead(j.id, j.saw)
              /\ Resolves(a, FormalTeacher(j.saw), {j.day})
              /\ StillActs(j.who, j.day)
           THEN Proceed(c, [op |-> "reschedule", at |-> "write", id |-> j.id,
                            row |-> Rescheduled(session[j.id], who, j.day),
                            need |-> KeyShares((IF who.teacher = j.saw.teacher THEN {}
                                                ELSE {who.teacher, who.source})
                                               \cup (IF who.onLeave THEN {FormalTeacher(j.saw)}
                                                     ELSE {}))])
           ELSE Refuse(c)

WriteRescheduled(c) ==
    /\ Ready(c, "reschedule", "write")
    /\ Put(registrar[c].id, registrar[c].row)
    /\ Ends(c)
    /\ UNCHANGED <<academicVars, assignment, weekly, leave>>

-----------------------------------------------------------------------------
(* The leave.                                                              *)

LeaveRow == <<<<"leave", "it", "update">>>>

\* review, approving, with substitute sub or without one: the leave, its
\* days, then the substitute's User row.
AskApproval(c, sub) ==
    /\ Comes(c)
    /\ Start(c, [op |-> "approve", at |-> "pending", sub |-> sub, need |-> LeaveRow])

ReadPending(c) ==
    /\ Ready(c, "approve", "pending")
    /\ IF leave.is # "pending" THEN Refuse(c)
       ELSE LET sub == registrar[c].sub IN
            Proceed(c, [op |-> "approve", at |-> "list", sub |-> sub,
                        need |-> LeaveDates(Applicant, {LeaveDay})
                                 \o Sorted("user", {sub} \ {Nobody})])

\* Mutant of LeaveSessions: those that are with a substitute are not found.
LeaveSessionsTaught == {s \in Lesson : /\ session[s].is # "none"
                                       /\ session[s].day = LeaveDay
                                       /\ Applicant = session[s].teacher}
LeaveSessions == {s \in Lesson : /\ session[s].is # "none"
                                 /\ session[s].day = LeaveDay
                                 /\ Applicant \in {session[s].teacher, session[s].source}}

\* approveTeacherSessions: the substitute's first formal assignment, for the
\* applicant's sessions of the day.
ListSessions(c) ==
    /\ Ready(c, "approve", "list")
    /\ LET sub    == registrar[c].sub
           stand  == {a \in Assignment : StandsIn(a, sub, LeaveDay)}
           listed == LeaveSessions
           swaps  == sub # Nobody /\ listed # {}
           by     == IF swaps /\ stand # {} THEN Least(stand) ELSE Nobody
       IN  IF swaps /\ stand = {} THEN Refuse(c)
           ELSE Proceed(c, [op |-> "approve", at |-> "check", sub |-> sub, by |-> by,
                            saw |-> [s \in listed |-> session[s]],
                            need |-> IF swaps
                                     THEN MutationRows({}, {by} \cup {FormalAssignment(session[s]) :
                                                                      s \in listed}, listed)
                                     ELSE <<>>])

CheckApproval(c) ==
    /\ Ready(c, "approve", "check")
    /\ LET j == registrar[c] IN
       IF \A s \in DOMAIN j.saw : j.sub # Nobody =>
             AsRead(s, j.saw[s]) /\ StandsIn(j.by, j.sub, LeaveDay)
       THEN Proceed(c, [j EXCEPT !.at = "write",
                                 !.need = KeyShares(IF DOMAIN j.saw = {} THEN {} ELSE {Applicant})])
       ELSE Refuse(c)

Swapped(s, a, sub) ==
    [s EXCEPT !.excused = TRUE, !.teacher = sub, !.of = a,
              !.source = Applicant, !.sourceOf = FormalAssignment(s)]

WriteApproval(c) ==
    /\ Ready(c, "approve", "write")
    /\ LET j == registrar[c] IN
       /\ session' = [s \in Lesson |->
              IF s \notin DOMAIN j.saw THEN session[s]
              ELSE IF j.sub = Nobody THEN [session[s] EXCEPT !.excused = TRUE]
              ELSE Swapped(session[s], j.by, j.sub)]
       /\ leave' = [is |-> "approved", sub |-> j.sub]
    /\ Ends(c)
    /\ UNCHANGED <<academicVars, assignment, weekly>>

\* revoke: the leave and its days, then the assignments and the sessions.
AskRevocation(c) ==
    /\ Comes(c)
    /\ Start(c, [op |-> "revoke", at |-> "approved",
                 need |-> LeaveRow \o LeaveDates(Applicant, {LeaveDay})])

ListSubstituted(c) ==
    /\ Ready(c, "revoke", "approved")
    /\ LET listed == LeaveSessions IN
       IF leave.is # "approved" \/ \E s \in listed : /\ session[s].source = Applicant
                                                     /\ session[s].teacher # leave.sub
       THEN Refuse(c)
       ELSE Proceed(c, [op |-> "revoke", at |-> "write",
                        saw |-> [s \in listed |-> session[s]],
                        need |-> Sorted("assignment",
                                        ({session[s].of : s \in listed}
                                         \cup {session[s].sourceOf : s \in listed}) \ {Nobody})
                                 \o Sorted("session", listed)
                                 \o KeyShares(IF \E s \in listed : session[s].source = Applicant
                                              THEN {Applicant} ELSE {})])

Restored(s) ==
    [s EXCEPT !.excused = FALSE, !.teacher = Applicant, !.of = FormalAssignment(s),
              !.source = Nobody, !.sourceOf = Nobody]

\* rollbackTeacherApproval.
RevokeLeave(c) ==
    /\ Ready(c, "revoke", "write")
    /\ LET j == registrar[c] IN
       IF \A s \in DOMAIN j.saw : AsRead(s, j.saw[s])
       THEN /\ session' = [s \in Lesson |-> IF s \in DOMAIN j.saw THEN Restored(session[s])
                                            ELSE session[s]]
            /\ leave' = [is |-> "ended", sub |-> Nobody]
            /\ Ends(c)
            /\ UNCHANGED <<academicVars, assignment, weekly>>
       ELSE Refuse(c)

-----------------------------------------------------------------------------
\* A school year under way: the applicant teaches the first assignment, there
\* may be another teacher's, a schedule and a session, the leave is asked for
\* or granted; or one where assignments are all there is, and of one day.
TimetableInit ==
    /\ year = Day /\ semester = Day
    /\ leave \in {[is |-> "pending", sub |-> Nobody]}
                 \cup [is : {"approved"}, sub : (Teacher \ {Applicant}) \cup {Nobody}]
    /\ \E days \in {Day, {LeaveDay}} :
       LET first    == Least(Assignment)
           taught(t) == [is |-> "on", teacher |-> t, days |-> days]
       IN  /\ assignment \in [Assignment -> {Absent} \cup {taught(t) : t \in Teacher}]
           /\ \A a \in Assignment :
                 assignment[a] = taught(Applicant) <=> a = first
           /\ weekly \in {Absent, [is |-> "on", of |-> first, teacher |-> Applicant, days |-> Day]}
           /\ session \in {[s \in Lesson |-> Absent]} \cup
                 {[s \in Lesson |-> IF s = Least(Lesson) THEN SessionRow(x[1], x[2], FALSE)
                                    ELSE Absent] :
                     x \in UNION {Acting(first, Applicant, d) \X {d} : d \in Day}}
           /\ days # Day => /\ leave.is = "pending" /\ weekly = Absent
                            /\ session = [s \in Lesson |-> Absent]
    /\ registrar = [c \in Registrar |-> Waiting]
    /\ held = [c \in Registrar |-> {}]
    /\ asked = 0

Calendar(c) ==
    \/ \E span \in Span : AskYear(c, span) \/ AskSemester(c, span)
    \/ CheckAcademicYear(c) \/ UpdateAcademicYear(c) \/ CheckSemester(c) \/ UpdateSemester(c)

Assignments(c) ==
    \/ \E t \in Teacher, span \in Span :
          \/ AskCreateAssignment(c, t, span)
          \/ \E a \in Assignment, is \in {"on", "off"} :
                AskUpdateAssignment(c, a, is, t, span)
    \/ CheckNewAssignment(c) \/ CreateTeachingAssignment(c)
    \/ CheckAssignment(c) \/ UpdateTeachingAssignment(c)

Schedules(c) ==
    \/ \E a \in Assignment, span \in Span, is \in {"on", "off"} : AskWeekly(c, a, span, is)
    \/ ResolveWeekly(c) \/ WriteWeekly(c)

Sessions(c) ==
    \/ \E d \in Day : \/ AskGenerate(c, d)
                      \/ \E a \in Assignment, t \in Teacher : AskSession(c, a, t, d)
                      \/ \E s \in Lesson : AskReschedule(c, s, d)
    \/ ReadSchedule(c) \/ DiscoverActing(c) \/ CheckSession(c) \/ InsertSession(c)
    \/ DiscoverRescheduled(c) \/ CheckRescheduled(c) \/ WriteRescheduled(c)

LeaveReview(c) ==
    \/ \E sub \in (Teacher \ {Applicant}) \cup {Nobody} : AskApproval(c, sub)
    \/ ReadPending(c) \/ ListSessions(c) \/ CheckApproval(c) \/ WriteApproval(c)
    \/ AskRevocation(c) \/ ListSubstituted(c) \/ RevokeLeave(c)

TimetableNext == \E c \in Registrar :
    \/ Take(c) \/ GiveUp(c)
    \/ Calendar(c) \/ Assignments(c) \/ Schedules(c) \/ Sessions(c) \/ LeaveReview(c)

TimetableSpec == TimetableInit /\ [][TimetableNext]_timetableVars

-----------------------------------------------------------------------------
(* Properties.                                                             *)

\* The year covers its semester, and the semester every assignment, also
\* while periods and assignments are changed at the same time (academic.
\* service.ts updateAcademicYear, updateSemester; validateTeachingAssignmentPayload).
PeriodsNest ==
    /\ semester \subseteq year
    /\ \A a \in Assignment : Made(a) => assignment[a].days \subseteq semester

\* What refers to an assignment agrees with it: the session's teacher and day,
\* the original assignment of a substituted session, the schedule's teacher
\* and days (resolveScheduleAssignment against updateTeachingAssignment,
\* TEACHING_ASSIGNMENT_IMMUTABLE).
UsedAssignmentsHold ==
    /\ \A s \in Lesson : session[s].is # "none" =>
          /\ Made(session[s].of)
          /\ session[s].teacher = assignment[session[s].of].teacher
          /\ session[s].day \in assignment[session[s].of].days
          /\ session[s].source # Nobody =>
                /\ session[s].source = assignment[session[s].sourceOf].teacher
                /\ session[s].day \in assignment[session[s].sourceOf].days
    /\ weekly.is # "none" =>
          /\ weekly.teacher = assignment[weekly.of].teacher
          /\ weekly.days \subseteq assignment[weekly.of].days

\* A session of a teacher on leave that day excuses the teacher and is with
\* the substitute the leave names; a session is with a substitute only then
\* (approveTeacherSessions, discoverSessionActingIdentity; the advisory lock
\* of teacher-leave-lock.ts:34-37).
LeaveAndSessionsAgree ==
    \A s \in Lesson : session[s].is # "none" =>
        LET t == FormalTeacher(session[s])  away == OnLeave(t, session[s].day) IN
        /\ away => session[s].excused
        /\ away /\ leave.sub # Nobody => session[s].teacher = leave.sub
        /\ session[s].source # Nobody => away /\ leave.sub = session[s].teacher

DeadLocked == {S \in SUBSET Registrar : S # {} /\ \A c \in S : Blockers(c) \cap S # {}}
\* Requests that wait for one another all wait because of a User row: the
\* order of schedule-mutation-lock.ts:17-33 holds for every other lock.
OnlyUserRowsDeadlock ==
    \A S \in DeadLocked : \E c \in S : Head(registrar[c].need)[1] = "user"

\* Requests never wait for one another in a circle (schedule-mutation-lock.ts:
\* 17-33, "so it cannot form a reverse cycle").
NoDeadlock == DeadLocked = {}
=============================================================================
