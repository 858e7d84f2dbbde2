--------------------------- MODULE TimetableProofs ---------------------------
(***************************************************************************)
(* Theorems about Timetable, for any teachers, assignments, sessions, days *)
(* and requests.                                                           *)
(*                                                                         *)
(* The argument is one of who may change what.  Part(c) is what request c  *)
(* relies on between its steps, and it speaks only of rows whose locks c   *)
(* holds, or of what never changes (a row once made stays made).           *)
(* Guarantee(c) is what a step of c may change, and it changes only what   *)
(* c holds the lock of.  No two requests hold locks that clash, so a step  *)
(* of c leaves the parts of the others alone (lemma Relied).  What is left *)
(* is each request's own part, and the rows at each write.                 *)
(***************************************************************************)
EXTENDS Timetable, FiniteSetTheorems, WellFoundedInduction, TLAPS

(* Rows and requests.                                                      *)
Sub       == (Teacher \ {Applicant}) \cup {Nobody}
CourseRow == [is : {"on", "off"}, teacher : Teacher, days : Span]
WeeklyRow == [is : {"on", "off"}, of : Assignment, teacher : Teacher, days : Span]
LessonRow == [is : {"set"}, day : Day, teacher : Teacher, of : Assignment,
              source : Teacher \cup {Nobody}, sourceOf : Assignment \cup {Nobody},
              scheduled : BOOLEAN, excused : BOOLEAN]
Who       == [teacher : Teacher, of : Assignment, source : Teacher \cup {Nobody},
              sourceOf : Assignment \cup {Nobody}, onLeave : BOOLEAN]
Lists     == UNION {[L -> LessonRow] : L \in SUBSET Lesson}
Needs     == Seq(Lock)

IdleJob   == [op : {"idle"}, need : {<<>>}]
PeriodJob == [op : {"year", "semester"}, at : {"check", "commit"}, days : Span, need : Needs]
NewAssignmentJob ==
    [op : {"newAssignment"}, at : {"check", "commit"}, row : CourseRow, need : Needs]
AssignmentJob ==
    [op : {"assignment"}, at : {"check", "commit"}, id : Assignment, row : CourseRow,
     saw : Teacher, need : Needs]
WeeklyJob   == [op : {"weekly"}, at : {"read", "write"}, row : WeeklyRow, need : Needs]
GenerateJob == [op : {"generate"}, at : {"schedule"}, day : Day, need : Needs]
DiscoverJob ==
    [op : {"session"}, at : {"discover"}, of : Assignment, teacher : Teacher, day : Day,
     saw : Teacher, scheduled : BOOLEAN, need : Needs]
CheckJob ==
    [op : {"session"}, at : {"check"}, of : Assignment, teacher : Teacher, day : Day,
     scheduled : BOOLEAN, who : Who, need : Needs]
InsertJob == [op : {"session"}, at : {"insert"}, row : LessonRow, need : Needs]
MoveJob ==
    [op : {"reschedule"}, at : {"discover"}, id : Lesson, day : Day, saw : LessonRow,
     need : Needs]
MoveCheckJob ==
    [op : {"reschedule"}, at : {"check"}, id : Lesson, day : Day, saw : LessonRow,
     who : Who, need : Needs]
MoveWriteJob == [op : {"reschedule"}, at : {"write"}, id : Lesson, row : LessonRow, need : Needs]
ApproveJob   == [op : {"approve"}, at : {"pending", "list"}, sub : Sub, need : Needs]
ApproveListJob ==
    [op : {"approve"}, at : {"check", "write"}, sub : Sub,
     by : Assignment \cup {Nobody}, saw : Lists, need : Needs]
RevokeJob     == [op : {"revoke"}, at : {"approved"}, need : Needs]
RevokeListJob == [op : {"revoke"}, at : {"write"}, saw : Lists, need : Needs]
Task == UNION {IdleJob, PeriodJob, NewAssignmentJob, AssignmentJob, WeeklyJob, GenerateJob,
              DiscoverJob, CheckJob, InsertJob, MoveJob, MoveCheckJob, MoveWriteJob,
              ApproveJob, ApproveListJob, RevokeJob, RevokeListJob}

Types ==
    /\ year \in Span /\ semester \in Span
    /\ assignment \in [Assignment -> {Absent} \cup CourseRow]
    /\ weekly \in {Absent} \cup WeeklyRow
    /\ session \in [Lesson -> {Absent} \cup LessonRow]
    /\ leave \in [is : {"pending", "approved", "ended"}, sub : Sub]
    /\ registrar \in [Registrar -> Task]
    /\ held \in [Registrar -> SUBSET Lock]
    /\ asked \in 0 .. MaxRequest

(* Locks.                                                                    *)
TheYear          == <<"year", "it", "update">>
TheWeekly        == <<"weekly", "it", "update">>
TheLeave         == <<"leave", "it", "update">>
TheAssignment(a) == <<"assignment", a, "update">>
TheSession(s)    == <<"session", s, "update">>
DayOf(t, d)      == <<"day", <<t, d>>, "update">>

Elements(q) == {q[i] : i \in DOMAIN q}
\* What a request holds or is going to hold before its next step.
Claimed(c) == held[c] \cup Elements(registrar[c].need)

Exclusive == \A c, d \in Registrar : c # d =>
    \A l \in held[c], m \in held[d] : ~Clash(l, m)

(* Rows that fit the assignments they refer to.                              *)
Refers(row) == {row.of} \cup ({row.sourceOf} \ {Nobody})
Paired(row) == row.source = Nobody <=> row.sourceOf = Nobody
Fits(row) ==
    /\ Paired(row)
    /\ Made(row.of) /\ row.teacher = assignment[row.of].teacher
    /\ row.day \in assignment[row.of].days
    /\ row.source # Nobody =>
         /\ Made(row.sourceOf) /\ row.source = assignment[row.sourceOf].teacher
         /\ row.day \in assignment[row.sourceOf].days
         /\ row.teacher # Applicant
WeeklyFits(row) ==
    /\ Made(row.of) /\ row.teacher = assignment[row.of].teacher
    /\ row.days \subseteq assignment[row.of].days
Acted(who, a) ==
    /\ Paired(who)
    /\ IF who.source = Nobody THEN who.of = a ELSE Made(who.of) /\ who.teacher # Applicant
SameRow(r, q) ==
    /\ r.is = "set" /\ q.is = "set"
    /\ r.day = q.day /\ r.teacher = q.teacher /\ r.of = q.of
    /\ r.source = q.source /\ r.sourceOf = q.sourceOf /\ r.scheduled = q.scheduled
OfLeave(row) == row.day = LeaveDay /\ Applicant \in {row.teacher, row.source}

Placed ==
    /\ \A s \in Lesson : session[s].is # "none" => Fits(session[s])
    /\ weekly.is # "none" => WeeklyFits(weekly)

(* What each request may rely on.                                            *)
PlanPart(c) ==
    LET j == registrar[c] IN
    /\ j.op \in {"year", "semester", "newAssignment", "assignment"} =>
         /\ TheYear \in Claimed(c)
         /\ j.at = "commit" => j.need = <<>>
    /\ j.op = "year" /\ j.at = "commit" => semester \subseteq j.days
    /\ j.op = "semester" /\ j.at = "commit" => SemesterMayBe(j.days)
    /\ j.op = "newAssignment" => /\ j.row.is = "on"
                                 /\ j.at = "commit" => j.row.days \subseteq semester
    /\ j.op = "assignment" =>
         /\ Made(j.id) /\ TheAssignment(j.id) \in Claimed(c)
         /\ j.at = "commit" => Changeable(j.id, j.row, j.saw)
WeeklyPart(c) ==
    LET j == registrar[c] IN
    /\ j.op = "weekly" =>
         /\ Made(j.row.of) /\ TheAssignment(j.row.of) \in Claimed(c)
         /\ \/ weekly.is # "none" /\ TheWeekly \in Claimed(c)
            \/ weekly.is = "none" /\ \A d \in Registrar \ {c} : registrar[d].op # "weekly"
         /\ j.at = "write" => WeeklyFits(j.row) /\ TheAssignment(j.row.of) \in held[c]
    /\ j.op = "generate" => weekly.is # "none" /\ TheWeekly \in Claimed(c)
SessionPart(c) ==
    LET j == registrar[c] IN
    /\ j.op = "session" /\ j.at \in {"discover", "check"} =>
         /\ Made(j.of)
         /\ j.scheduled => TheWeekly \in held[c] /\ weekly.is # "none" /\ j.day \in weekly.days
    /\ j.op = "session" /\ j.at = "check" =>
         /\ TheAssignment(j.of) \in Claimed(c) /\ TheAssignment(j.who.of) \in Claimed(c)
         /\ Acted(j.who, j.of)
    /\ j.op = "session" /\ j.at = "insert" =>
         Fits(j.row) /\ \A a \in Refers(j.row) : TheAssignment(a) \in held[c]
MovePart(c) ==
    LET j == registrar[c] IN
    /\ j.op = "reschedule" => session[j.id].is # "none"
    /\ j.op = "reschedule" /\ j.at \in {"discover", "check"} =>
         Paired(j.saw) /\ Made(FormalAssignment(j.saw))
    /\ j.op = "reschedule" /\ j.at = "check" =>
         /\ TheAssignment(FormalAssignment(j.saw)) \in Claimed(c)
         /\ TheAssignment(j.who.of) \in Claimed(c) /\ TheSession(j.id) \in Claimed(c)
         /\ Acted(j.who, FormalAssignment(j.saw))
    /\ j.op = "reschedule" /\ j.at = "write" =>
         /\ Fits(j.row) /\ \A a \in Refers(j.row) : TheAssignment(a) \in held[c]
         /\ TheSession(j.id) \in held[c]
LeavePart(c) ==
    LET j == registrar[c] IN
    /\ j.op = "approve" /\ j.at \in {"check", "write"} =>
         \A s \in DOMAIN j.saw :
           /\ session[s].is # "none" /\ OfLeave(j.saw[s])
           /\ j.sub # Nobody =>
                /\ j.by \in Assignment /\ Made(j.by)
                /\ TheAssignment(j.by) \in Claimed(c) /\ TheSession(s) \in Claimed(c)
    /\ j.op = "approve" /\ j.at = "write" /\ j.sub # Nobody =>
         \A s \in DOMAIN j.saw :
           /\ SameRow(session[s], j.saw[s]) /\ TheSession(s) \in held[c]
           /\ StandsIn(j.by, j.sub, LeaveDay) /\ TheAssignment(j.by) \in held[c]
    /\ j.op = "revoke" /\ j.at = "write" =>
         \A s \in DOMAIN j.saw :
           /\ session[s].is # "none" /\ OfLeave(j.saw[s])
           /\ TheSession(s) \in Claimed(c)
Part(c) == PlanPart(c) /\ WeeklyPart(c) /\ SessionPart(c) /\ MovePart(c) /\ LeavePart(c)

TInv == Types /\ Exclusive /\ PeriodsNest /\ Placed /\ \A c \in Registrar : Part(c)

(* The leave.                                                                *)
Agrees(row) ==
    LET t == FormalTeacher(row)  away == OnLeave(t, row.day) IN
    /\ away => row.excused
    /\ away /\ leave.sub # Nobody => row.teacher = leave.sub
    /\ row.source # Nobody => away /\ leave.sub = row.teacher
WhoAgrees(who, t, d) ==
    /\ OnLeave(t, d) <=> who.onLeave
    /\ IF OnLeave(t, d) /\ leave.sub # Nobody
       THEN who.source # Nobody /\ who.teacher = leave.sub
       ELSE who.source = Nobody
DaysHeld(c, row) == DayOf(FormalTeacher(row), row.day) \in held[c]

DayPart(c) ==
    LET j == registrar[c] IN
    /\ j.op = "session" /\ j.at = "discover" =>
         j.saw = j.teacher /\ DayOf(j.teacher, j.day) \in Claimed(c)
    /\ j.op = "session" /\ j.at = "check" =>
         DayOf(j.teacher, j.day) \in held[c] /\ WhoAgrees(j.who, j.teacher, j.day)
    /\ j.op = "session" /\ j.at = "insert" => DaysHeld(c, j.row) /\ Agrees(j.row)
    /\ j.op = "reschedule" /\ j.at \in {"discover", "check"} =>
         /\ FormalAssignment(session[j.id]) = FormalAssignment(j.saw)
         /\ FormalTeacher(session[j.id]) = FormalTeacher(j.saw)
         /\ {DayOf(FormalTeacher(j.saw), j.saw.day),
             DayOf(FormalTeacher(j.saw), j.day)} \subseteq Claimed(c)
    /\ j.op = "reschedule" /\ j.at = "check" =>
         /\ {DayOf(FormalTeacher(j.saw), j.saw.day),
             DayOf(FormalTeacher(j.saw), j.day)} \subseteq held[c]
         /\ WhoAgrees(j.who, FormalTeacher(j.saw), j.day)
    /\ j.op = "reschedule" /\ j.at = "write" =>
         /\ FormalTeacher(session[j.id]) = FormalTeacher(j.row)
         /\ FormalAssignment(session[j.id]) = FormalAssignment(j.row)
         /\ DaysHeld(c, j.row) /\ DaysHeld(c, session[j.id]) /\ Agrees(j.row)
    /\ j.op \in {"approve", "revoke"} => TheLeave \in Claimed(c)
    /\ j.op = "approve" /\ j.at = "list" =>
         leave.is = "pending" /\ TheLeave \in held[c]
         /\ DayOf(Applicant, LeaveDay) \in Claimed(c)
    /\ j.op = "approve" /\ j.at \in {"check", "write"} =>
         /\ leave.is = "pending" /\ TheLeave \in held[c]
         /\ DayOf(Applicant, LeaveDay) \in held[c] /\ DOMAIN j.saw = LeaveSessions
    /\ j.op = "revoke" => DayOf(Applicant, LeaveDay) \in Claimed(c)
    /\ j.op = "revoke" /\ j.at = "write" =>
         /\ leave.is = "approved" /\ TheLeave \in held[c]
         /\ DayOf(Applicant, LeaveDay) \in held[c] /\ DOMAIN j.saw = LeaveSessions
\* What a leave and the sessions owe to the days their requests lock.
Days == ~Stale /\ LeaveAndSessionsAgree /\ \A c \in Registrar : DayPart(c)

(* What a step of request c may change.                                      *)
Others(c) == \A d \in Registrar \ {c} : registrar'[d] = registrar[d] /\ held'[d] = held[d]
Entry(c)  == registrar'[c].op = "weekly" =>
    \/ registrar[c].op = "weekly" \/ weekly.is # "none"
    \/ \A d \in Registrar : registrar[d].op # "weekly"
Guarantee(c) ==
    /\ Others(c) /\ Entry(c)
    /\ TheYear \in held[c] \/ UNCHANGED <<year, semester, assignment>>
    /\ \A a \in Assignment : Made(a) =>
          Made(a)' /\ (assignment'[a] = assignment[a] \/ TheAssignment(a) \in held[c])
    /\ \A a \in Assignment : InUse(a)' => InUse(a) \/ TheAssignment(a) \in held[c]
    /\ \/ weekly' = weekly
       \/ weekly.is # "none" /\ TheWeekly \in held[c]
       \/ weekly.is = "none" /\ registrar[c].op = "weekly"
    /\ weekly.is # "none" => weekly'.is # "none"
    /\ \A s \in Lesson : session[s].is # "none" =>
          /\ session'[s].is # "none"
          /\ SameRow(session'[s], session[s]) \/ TheSession(s) \in held[c]
TheDay == DayOf(Applicant, LeaveDay)
DayGuarantee(c) ==
    /\ leave' = leave \/ {TheLeave, TheDay} \subseteq held[c]
    /\ LeaveSessions' = LeaveSessions \/ TheDay \in held[c]
    /\ \A s \in Lesson : session[s].is # "none" =>
          /\ FormalTeacher(session'[s]) = FormalTeacher(session[s])
          /\ FormalAssignment(session'[s]) = FormalAssignment(session[s])

-----------------------------------------------------------------------------
(* Ids in their order.                                                       *)

\* The least id of a set (lists are in the order of their ids).
LEMMA HasLeast ==
    ASSUME NEW S \in SUBSET Nat, S # {}
    PROVE  Least(S) \in S /\ \A m \in S : Least(S) <= m
<1>1. PICK n \in S : \A m \in S : ~(<<m, n>> \in OpToRel(<, Nat))
  BY NatLessThanWellFounded, WFMin
<1>2. n \in Nat /\ \A m \in S : m \in Nat
  OBVIOUS
<1>3. \A m \in S : ~(m < n)
  BY <1>1, <1>2 DEF OpToRel
<1>4. \A m \in S : n <= m
  BY <1>2, <1>3
<1> QED
  BY <1>4 DEF Least

Ascending(s) == \A i, j \in DOMAIN s : i < j => s[i] < s[j]
Listed(S)    == \E s \in [1 .. Cardinality(S) -> S] : Ascending(s)

\* By the smallest set of ids that could not be listed.
LEMMA CanBeListed ==
    ASSUME NEW S \in SUBSET Nat, IsFiniteSet(S)
    PROVE  Listed(S)
<1> DEFINE Bad == {n \in Nat : \E T \in SUBSET Nat :
                      IsFiniteSet(T) /\ Cardinality(T) = n /\ ~Listed(T)}
<1>1. Bad = {}
  <2> SUFFICES ASSUME Bad # {} PROVE FALSE
    OBVIOUS
  <2> DEFINE n == Least(Bad)
  <2>1. n \in Bad /\ \A m \in Bad : n <= m
    BY HasLeast
  <2>2. PICK T \in SUBSET Nat : IsFiniteSet(T) /\ Cardinality(T) = n /\ ~Listed(T)
    BY <2>1
  <2>3. n \in Nat
    BY <2>1
  <2> HIDE DEF n, Bad
  <2>4. T # {}
    <3> SUFFICES ASSUME T = {} PROVE Listed(T)
      BY <2>2
    <3>1. Cardinality(T) = 0
      BY FS_EmptySet
    <3>2. [i \in 1 .. 0 |-> 0] \in [1 .. Cardinality(T) -> T]
      BY <3>1
    <3> QED
      BY <3>2, <3>1 DEF Listed, Ascending
  <2> DEFINE m == Least(T)
  <2>5. m \in T /\ \A x \in T : m <= x
    BY <2>4, HasLeast
  <2>6. IsFiniteSet(T \ {m}) /\ Cardinality(T \ {m}) = n - 1
    BY <2>2, <2>5, FS_RemoveElement
  <2>7. n - 1 \in Nat
    BY <2>6, FS_CardinalityType
  <2>8. Listed(T \ {m})
    <3>1. n - 1 \notin Bad
      BY <2>1, <2>3, <2>7
    <3> QED
      BY <3>1, <2>6, <2>7 DEF Bad
  <2>9. PICK s \in [1 .. (n - 1) -> T \ {m}] : Ascending(s)
    BY <2>6, <2>8 DEF Listed
  <2> DEFINE r == [i \in 1 .. n |-> IF i = 1 THEN m ELSE s[i - 1]]
  <2>10. r \in [1 .. n -> T]
    <3> SUFFICES ASSUME NEW i \in 1 .. n, i # 1 PROVE s[i - 1] \in T
      BY <2>5
    <3>1. i - 1 \in 1 .. (n - 1)
      BY <2>3
    <3> QED
      BY <3>1
  <2>11. Ascending(r)
    <3> SUFFICES ASSUME NEW i \in 1 .. n, NEW j \in 1 .. n, i < j PROVE r[i] < r[j]
      BY DEF Ascending
    <3>1. j - 1 \in 1 .. (n - 1) /\ r[j] = s[j - 1] /\ s[j - 1] \in T \ {m}
      BY <2>3
    <3>2. CASE i = 1
      <4>1. r[i] = m
        BY <3>2
      <4>2. s[j - 1] \in Nat /\ m \in Nat /\ m <= s[j - 1] /\ m # s[j - 1]
        BY <2>5, <3>1
      <4> QED
        BY <4>1, <4>2, <3>1
    <3>3. CASE i # 1
      <4>1. i - 1 \in 1 .. (n - 1) /\ i - 1 < j - 1 /\ r[i] = s[i - 1]
        BY <3>3, <2>3
      <4> QED
        BY <4>1, <3>1, <2>9 DEF Ascending
    <3> QED
      BY <3>2, <3>3
  <2>12. Listed(T)
    BY <2>2, <2>10, <2>11 DEF Listed
  <2> QED
    BY <2>2, <2>12
<1>2. Cardinality(S) \in Nat
  BY FS_CardinalityType
<1> QED
  BY <1>1, <1>2

\* InOrder lists a finite set, each id once.
LEMMA OrderedIds ==
    ASSUME NEW S \in SUBSET Nat, IsFiniteSet(S)
    PROVE  /\ InOrder(S) \in Seq(S) /\ Ascending(InOrder(S))
           /\ Elements(InOrder(S)) = S
<1> DEFINE s == InOrder(S)
<1>1. s \in [1 .. Cardinality(S) -> S] /\ Ascending(s)
  BY CanBeListed DEF Listed, InOrder, Ascending
<1>2. Cardinality(S) \in Nat
  BY FS_CardinalityType
<1> HIDE DEF s
<1>3. s \in Seq(S)
  BY <1>1, <1>2
<1>4. s \in Injection(1 .. Cardinality(S), S)
  <2> SUFFICES ASSUME NEW i \in 1 .. Cardinality(S), NEW j \in 1 .. Cardinality(S), i # j
               PROVE  s[i] # s[j]
    BY <1>1 DEF Injection, IsInjective
  <2>1. i < j \/ j < i
    OBVIOUS
  <2>2. s[i] \in Nat /\ s[j] \in Nat
    BY <1>1
  <2> QED
    BY <1>1, <2>1, <2>2 DEF Ascending
<1>5. Cardinality(1 .. Cardinality(S)) = Cardinality(S)
  BY <1>2, FS_Interval
<1>6. s \in Surjection(1 .. Cardinality(S), S)
  BY <1>4, <1>5, FS_Injection
<1>7. Elements(s) = S
  BY <1>1, <1>6 DEF Surjection, Elements
<1> QED
  BY <1>1, <1>3, <1>7 DEF s

-----------------------------------------------------------------------------
(* Sequences of locks.                                                       *)

\* What is in two lists, one after the other.
LEMMA Joined ==
    ASSUME NEW S, NEW p \in Seq(S), NEW q \in Seq(S)
    PROVE  p \o q \in Seq(S) /\ Elements(p \o q) = Elements(p) \cup Elements(q)
<1>1. /\ DOMAIN (p \o q) = 1 .. (Len(p) + Len(q))
      /\ \A i \in 1 .. Len(p) : (p \o q)[i] = p[i]
      /\ \A i \in 1 .. Len(q) : (p \o q)[Len(p) + i] = q[i]
  OBVIOUS
<1>2. Elements(p) \cup Elements(q) \subseteq Elements(p \o q)
  <2>1. ASSUME NEW i \in DOMAIN q PROVE Len(p) + i \in DOMAIN (p \o q)
    BY <1>1
  <2>2. ASSUME NEW i \in DOMAIN p PROVE i \in DOMAIN (p \o q)
    BY <1>1
  <2> QED
    BY <1>1, <2>1, <2>2 DEF Elements
<1>3. ASSUME NEW i \in DOMAIN (p \o q) PROVE (p \o q)[i] \in Elements(p) \cup Elements(q)
  <2>1. i \in 1 .. Len(p) \/ (i - Len(p) \in 1 .. Len(q) /\ i = Len(p) + (i - Len(p)))
    BY <1>1, <1>3
  <2> QED
    BY <1>1, <2>1 DEF Elements
<1> QED
  BY <1>2, <1>3 DEF Elements

\* A list is its head and its tail.
LEMMA FirstAndRest ==
    ASSUME NEW S, NEW q \in Seq(S), q # <<>>
    PROVE  /\ Head(q) \in S /\ Tail(q) \in Seq(S)
           /\ Elements(q) = {Head(q)} \cup Elements(Tail(q))
<1>1. /\ Head(q) \in S /\ Tail(q) \in Seq(S) /\ Len(q) >= 1 /\ Head(q) = q[1]
      /\ Len(Tail(q)) = Len(q) - 1
      /\ \A i \in 1 .. (Len(q) - 1) : Tail(q)[i] = q[i + 1]
  OBVIOUS
<1>2. ASSUME NEW i \in DOMAIN q PROVE q[i] \in {Head(q)} \cup Elements(Tail(q))
  <2>1. i = 1 \/ (i - 1 \in DOMAIN Tail(q) /\ Tail(q)[i - 1] = q[i])
    BY <1>1, <1>2
  <2> QED
    BY <1>1, <2>1 DEF Elements
<1>3. ASSUME NEW i \in DOMAIN Tail(q) PROVE Tail(q)[i] \in Elements(q)
  <2>1. i + 1 \in DOMAIN q /\ Tail(q)[i] = q[i + 1]
    BY <1>1, <1>3
  <2> QED
    BY <2>1 DEF Elements
<1> QED
  BY <1>1, <1>2, <1>3 DEF Elements

\* Constants of the right kind; ids are numbers and not Nobody.
LEMMA Ids ==
    /\ Teacher \subseteq Nat /\ Assignment \subseteq Nat /\ Lesson \subseteq Nat /\ Day \subseteq Nat
    /\ Nobody \notin Teacher /\ Nobody \notin Assignment /\ Applicant \in Teacher
    /\ LeaveDay \in Day /\ MaxRequest \in Nat
    /\ \A L \in SUBSET Lesson : IsFiniteSet(L)
<1>1. \A L \in SUBSET Lesson : IsFiniteSet(L)
  BY TimetableAssumption, FS_Subset
<1> QED
  BY <1>1, TimetableAssumption DEF Day, Nobody

LEMMA FinitePair == \A x, y : IsFiniteSet({x, y})
<1> SUFFICES ASSUME NEW x, NEW y PROVE IsFiniteSet({x, y})
  OBVIOUS
<1>1. {x, y} = {x} \cup {y}
  OBVIOUS
<1> QED
  <2>1. IsFiniteSet({x}) /\ IsFiniteSet({y})
    BY FS_Singleton
  <2> HIDE DEF IsFiniteSet
  <2> QED
    BY <1>1, <2>1, FS_Union

\* Rows and days of the model have locks.
LEMMA RowLocks ==
    /\ \A t \in Teacher : <<"user", t, "update">> \in Lock /\ <<"user", t, "key">> \in Lock
    /\ \A t \in Teacher, d \in Day : DayOf(t, d) \in Lock
    /\ \A a \in Assignment : TheAssignment(a) \in Lock
    /\ \A s \in Lesson : TheSession(s) \in Lock
    /\ {TheYear, TheWeekly, TheLeave, <<"semester", "it", "update">>} \subseteq Lock
BY DEF Lock, DayOf, TheAssignment, TheSession, TheYear, TheWeekly, TheLeave

\* Lists of locks: each is well formed, and what is in it.
LEMMA JoinedLocks ==
    ASSUME NEW p \in Needs, NEW q \in Needs
    PROVE  p \o q \in Needs /\ Elements(p \o q) = Elements(p) \cup Elements(q)
BY Joined DEF Needs

LEMMA SortedLocks ==
    ASSUME NEW kind, NEW ids \in SUBSET Nat, IsFiniteSet(ids),
           \A i \in ids : <<kind, i, "update">> \in Lock
    PROVE  /\ Sorted(kind, ids) \in Needs
           /\ Elements(Sorted(kind, ids)) = {<<kind, i, "update">> : i \in ids}
<1> DEFINE s == InOrder(ids)
<1>1. s \in Seq(ids) /\ Elements(s) = ids
  BY OrderedIds
<1>2. Sorted(kind, ids) = [i \in DOMAIN s |-> <<kind, s[i], "update">>]
  BY DEF Sorted
<1> HIDE DEF s
<1>3. Len(s) \in Nat /\ DOMAIN s = 1 .. Len(s) /\ \A i \in 1 .. Len(s) : s[i] \in ids
  BY <1>1
<1>4. Sorted(kind, ids) \in Needs
  <2>1. \A i \in 1 .. Len(s) : <<kind, s[i], "update">> \in Lock
    BY <1>3
  <2> QED
    BY <1>2, <1>3, <2>1 DEF Needs
<1>5. Elements(Sorted(kind, ids)) = {<<kind, s[i], "update">> : i \in DOMAIN s}
  BY <1>2 DEF Elements
<1> QED
  BY <1>1, <1>4, <1>5 DEF Elements

LEMMA LeaveDateLocks ==
    ASSUME NEW t \in Teacher, NEW days \in SUBSET Day, IsFiniteSet(days)
    PROVE  /\ LeaveDates(t, days) \in Needs
           /\ Elements(LeaveDates(t, days)) = {DayOf(t, d) : d \in days}
<1> DEFINE s == InOrder(days)
<1>1. s \in Seq(days) /\ Elements(s) = days
  BY OrderedIds, Ids
<1>2. LeaveDates(t, days) = [i \in DOMAIN s |-> DayOf(t, s[i])]
  BY DEF LeaveDates, DayOf
<1> HIDE DEF s
<1>3. Len(s) \in Nat /\ DOMAIN s = 1 .. Len(s) /\ \A i \in 1 .. Len(s) : s[i] \in days
  BY <1>1
<1>4. \A i \in 1 .. Len(s) : DayOf(t, s[i]) \in Lock
  BY <1>3, RowLocks
<1>5. LeaveDates(t, days) \in Needs
  BY <1>2, <1>3, <1>4 DEF Needs
<1>6. Elements(LeaveDates(t, days)) = {DayOf(t, s[i]) : i \in DOMAIN s}
  BY <1>2 DEF Elements
<1> QED
  BY <1>1, <1>5, <1>6 DEF Elements

LEMMA OneDay ==
    ASSUME NEW t \in Teacher, NEW d \in Day
    PROVE  /\ LeaveDates(t, {d}) \in Needs
           /\ Elements(LeaveDates(t, {d})) = {DayOf(t, d)}
<1>1. IsFiniteSet({d})
  BY FS_Singleton
<1>2. Elements(LeaveDates(t, {d})) = {DayOf(t, x) : x \in {d}} /\ LeaveDates(t, {d}) \in Needs
  BY <1>1, LeaveDateLocks
<1> QED
  BY <1>2

LEMMA KeyShareLocks ==
    ASSUME NEW users \in SUBSET (Teacher \cup {Nobody}), IsFiniteSet(users)
    PROVE  KeyShares(users) \in Needs
<1> DEFINE s == InOrder(users \ {Nobody})
<1>1. s \in Seq(users \ {Nobody})
  <2>1. IsFiniteSet(users \ {Nobody})
    BY FS_Difference
  <2> QED
    BY <2>1, OrderedIds, Ids
<1>2. KeyShares(users) = [i \in DOMAIN s |-> <<"user", s[i], "key">>]
  BY DEF KeyShares
<1> HIDE DEF s
<1>3. /\ Len(s) \in Nat /\ DOMAIN s = 1 .. Len(s)
      /\ \A i \in 1 .. Len(s) : s[i] \in users /\ s[i] # Nobody
  BY <1>1
<1>4. \A i \in 1 .. Len(s) : <<"user", s[i], "key">> \in Lock
  BY <1>3, RowLocks
<1> QED
  BY <1>2, <1>3, <1>4 DEF Needs

LEMMA AcademicLocks ==
    /\ AcademicRows \in Needs /\ TheYear \in Elements(AcademicRows)
    /\ Head(AcademicRows) = TheYear
    /\ {TheYear, TheWeekly, TheLeave} \subseteq Lock
    /\ \A l \in Lock : <<l>> \in Needs /\ Elements(<<l>>) = {l}
    /\ <<>> \in Needs /\ Elements(<<>>) = {}
<1>1. {TheYear, TheWeekly, TheLeave, <<"semester", "it", "update">>} \subseteq Lock
  BY RowLocks
<1>2. AcademicRows = <<TheYear, <<"semester", "it", "update">>>>
  BY DEF AcademicRows, TheYear
<1>3. AcademicRows \in Needs /\ Head(AcademicRows) = TheYear /\ TheYear \in Elements(AcademicRows)
  BY <1>1, <1>2 DEF Needs, Elements
<1>4. ASSUME NEW l \in Lock PROVE <<l>> \in Needs /\ Elements(<<l>>) = {l}
  <2>1. DOMAIN <<l>> = {1} /\ <<l>>[1] = l
    OBVIOUS
  <2> QED
    BY <2>1 DEF Needs, Elements
<1> QED
  BY <1>1, <1>3, <1>4 DEF Needs, Elements

LEMMA MutationLocks ==
    ASSUME NEW users \in SUBSET Teacher, IsFiniteSet(users),
           NEW assignments \in SUBSET Assignment, IsFiniteSet(assignments),
           NEW sessions \in SUBSET Lesson
    PROVE  /\ MutationRows(users, assignments, sessions) \in Needs
           /\ TheYear \in Elements(MutationRows(users, assignments, sessions))
           /\ \A a \in assignments :
                 TheAssignment(a) \in Elements(MutationRows(users, assignments, sessions))
           /\ \A s \in sessions :
                 TheSession(s) \in Elements(MutationRows(users, assignments, sessions))
<1> DEFINE u == Sorted("user", users)
           a == Sorted("assignment", assignments)
           s == Sorted("session", sessions)
<1>1. u \in Needs
  BY SortedLocks, Ids, RowLocks
<1>2. a \in Needs /\ Elements(a) = {TheAssignment(x) : x \in assignments}
  BY SortedLocks, Ids, RowLocks DEF TheAssignment
<1>3. s \in Needs /\ Elements(s) = {TheSession(x) : x \in sessions}
  BY SortedLocks, Ids, RowLocks DEF TheSession
<1>4. MutationRows(users, assignments, sessions) = ((u \o AcademicRows) \o a) \o s
  BY DEF MutationRows
<1> HIDE DEF u, a, s
<1>5. /\ u \o AcademicRows \in Needs
      /\ Elements(u \o AcademicRows) = Elements(u) \cup Elements(AcademicRows)
  BY <1>1, AcademicLocks, JoinedLocks
<1>6. /\ (u \o AcademicRows) \o a \in Needs
      /\ Elements((u \o AcademicRows) \o a) = Elements(u \o AcademicRows) \cup Elements(a)
  BY <1>2, <1>5, JoinedLocks
<1>7. /\ ((u \o AcademicRows) \o a) \o s \in Needs
      /\ Elements(((u \o AcademicRows) \o a) \o s) =
            Elements((u \o AcademicRows) \o a) \cup Elements(s)
  BY <1>3, <1>6, JoinedLocks
<1> QED
  BY <1>2, <1>3, <1>4, <1>5, <1>6, <1>7, AcademicLocks

-----------------------------------------------------------------------------
(* Requests.                                                                 *)

\* What a request has read, by how far it is.
LEMMA JobFields ==
    ASSUME NEW j \in Task
    PROVE  /\ j.need \in Needs
           /\ j.op = "idle" => j.need = <<>>
           /\ j.op \in {"year", "semester"} => j \in PeriodJob
           /\ j.op = "newAssignment" => j \in NewAssignmentJob
           /\ j.op = "assignment" => j \in AssignmentJob
           /\ j.op = "weekly" => j \in WeeklyJob
           /\ j.op = "generate" => j \in GenerateJob
           /\ j.op = "session" /\ j.at = "discover" => j \in DiscoverJob
           /\ j.op = "session" /\ j.at = "check" => j \in CheckJob
           /\ j.op = "session" /\ j.at = "insert" => j \in InsertJob
           /\ j.op = "reschedule" /\ j.at = "discover" => j \in MoveJob
           /\ j.op = "reschedule" /\ j.at = "check" => j \in MoveCheckJob
           /\ j.op = "reschedule" /\ j.at = "write" => j \in MoveWriteJob
           /\ j.op = "reschedule" => j.id \in Lesson
           /\ j.op = "approve" /\ j.at \in {"pending", "list"} => j \in ApproveJob
           /\ j.op = "approve" /\ j.at \in {"check", "write"} => j \in ApproveListJob
           /\ j.op = "revoke" /\ j.at = "approved" => j \in RevokeJob
           /\ j.op = "revoke" /\ j.at = "write" => j \in RevokeListJob
<1>1. <<>> \in Needs
  BY AcademicLocks
<1>2. CASE j \in IdleJob \cup PeriodJob \cup NewAssignmentJob \cup AssignmentJob
           \cup WeeklyJob \cup GenerateJob
  BY <1>1, <1>2 DEF IdleJob, PeriodJob, NewAssignmentJob, AssignmentJob, WeeklyJob, GenerateJob
<1>3. CASE j \in DiscoverJob \cup CheckJob \cup InsertJob
  BY <1>3 DEF DiscoverJob, CheckJob, InsertJob
<1>4. CASE j \in MoveJob \cup MoveCheckJob \cup MoveWriteJob
  BY <1>4 DEF MoveJob, MoveCheckJob, MoveWriteJob
<1>5. CASE j \in ApproveJob \cup ApproveListJob \cup RevokeJob \cup RevokeListJob
  BY <1>5 DEF ApproveJob, ApproveListJob, RevokeJob, RevokeListJob
<1> QED
  BY <1>2, <1>3, <1>4, <1>5 DEF Task

\* Taking a lock leaves what was read.
SameBut(r, j) ==
    /\ r.op = j.op
    /\ j.op # "idle" => r.at = j.at
    /\ j.op \in {"year", "semester"} => r.days = j.days
    /\ j.op \in {"newAssignment", "assignment", "weekly"} => r.row = j.row
    /\ j.op \in {"assignment", "reschedule"} => r.id = j.id
    /\ j.op = "assignment" => r.saw = j.saw
    /\ j.op = "generate" => r.day = j.day
    /\ j.op = "session" /\ j.at \in {"discover", "check"} =>
         /\ r.of = j.of /\ r.teacher = j.teacher /\ r.day = j.day
         /\ r.scheduled = j.scheduled
         /\ j.at = "discover" => r.saw = j.saw
         /\ j.at = "check" => r.who = j.who
    /\ j.op = "session" /\ j.at = "insert" => r.row = j.row
    /\ j.op = "reschedule" /\ j.at \in {"discover", "check"} =>
         /\ r.day = j.day /\ r.saw = j.saw
         /\ j.at = "check" => r.who = j.who
    /\ j.op = "reschedule" /\ j.at = "write" => r.row = j.row
    /\ j.op = "approve" => r.sub = j.sub
    /\ j.op = "approve" /\ j.at \in {"check", "write"} => r.by = j.by /\ r.saw = j.saw
    /\ j.op = "revoke" /\ j.at = "write" => r.saw = j.saw

\* A job with another list of locks is a job.
LEMMA NeedChanges ==
    ASSUME NEW j \in Task, j.op # "idle", NEW q \in Needs
    PROVE  LET r == [j EXCEPT !.need = q] IN
           r \in Task /\ r.need = q /\ SameBut(r, j)
<1> DEFINE r == [j EXCEPT !.need = q]
<1>1. CASE j \in PeriodJob
  <2>1. r \in PeriodJob /\ r.need = q /\ SameBut(r, j)
    BY <1>1 DEF PeriodJob, SameBut
  <2> QED
    BY <2>1 DEF Task
<1>2. CASE j \in NewAssignmentJob
  <2>1. r \in NewAssignmentJob /\ r.need = q /\ SameBut(r, j)
    BY <1>2 DEF NewAssignmentJob, SameBut
  <2> QED
    BY <2>1 DEF Task
<1>3. CASE j \in AssignmentJob
  <2>1. r \in AssignmentJob /\ r.need = q /\ SameBut(r, j)
    BY <1>3 DEF AssignmentJob, SameBut
  <2> QED
    BY <2>1 DEF Task
<1>4. CASE j \in WeeklyJob
  <2>1. r \in WeeklyJob /\ r.need = q /\ SameBut(r, j)
    BY <1>4 DEF WeeklyJob, SameBut
  <2> QED
    BY <2>1 DEF Task
<1>5. CASE j \in GenerateJob
  <2>1. r \in GenerateJob /\ r.need = q /\ SameBut(r, j)
    BY <1>5 DEF GenerateJob, SameBut
  <2> QED
    BY <2>1 DEF Task
<1>6. CASE j \in DiscoverJob
  <2>1. r \in DiscoverJob /\ r.need = q /\ SameBut(r, j)
    BY <1>6 DEF DiscoverJob, SameBut
  <2> QED
    BY <2>1 DEF Task
<1>7. CASE j \in CheckJob
  <2>1. r \in CheckJob /\ r.need = q /\ SameBut(r, j)
    BY <1>7 DEF CheckJob, SameBut
  <2> QED
    BY <2>1 DEF Task
<1>8. CASE j \in InsertJob
  <2>1. r \in InsertJob /\ r.need = q /\ SameBut(r, j)
    BY <1>8 DEF InsertJob, SameBut
  <2> QED
    BY <2>1 DEF Task
<1>9. CASE j \in MoveJob
  <2>1. r \in MoveJob /\ r.need = q /\ SameBut(r, j)
    BY <1>9 DEF MoveJob, SameBut
  <2> QED
    BY <2>1 DEF Task
<1>10. CASE j \in MoveCheckJob
  <2>1. r \in MoveCheckJob /\ r.need = q /\ SameBut(r, j)
    BY <1>10 DEF MoveCheckJob, SameBut
  <2> QED
    BY <2>1 DEF Task
<1>11. CASE j \in MoveWriteJob
  <2>1. r \in MoveWriteJob /\ r.need = q /\ SameBut(r, j)
    BY <1>11 DEF MoveWriteJob, SameBut
  <2> QED
    BY <2>1 DEF Task
<1>12. CASE j \in ApproveJob
  <2>1. r \in ApproveJob /\ r.need = q /\ SameBut(r, j)
    BY <1>12 DEF ApproveJob, SameBut
  <2> QED
    BY <2>1 DEF Task
<1>13. CASE j \in ApproveListJob
  <2>1. r \in ApproveListJob /\ r.need = q /\ SameBut(r, j)
    BY <1>13 DEF ApproveListJob, SameBut
  <2> QED
    BY <2>1 DEF Task
<1>14. CASE j \in RevokeJob
  <2>1. r \in RevokeJob /\ r.need = q /\ SameBut(r, j)
    BY <1>14 DEF RevokeJob, SameBut
  <2> QED
    BY <2>1 DEF Task
<1>15. CASE j \in RevokeListJob
  <2>1. r \in RevokeListJob /\ r.need = q /\ SameBut(r, j)
    BY <1>15 DEF RevokeListJob, SameBut
  <2> QED
    BY <2>1 DEF Task
<1>16. j \notin IdleJob
  BY DEF IdleJob
<1> QED
  BY <1>1, <1>2, <1>3, <1>4, <1>5, <1>6, <1>7, <1>8, <1>9, <1>10, <1>11, <1>12, <1>13,
     <1>14, <1>15, <1>16 DEF Task

-----------------------------------------------------------------------------
(* Steps that change no row.                                                 *)

Quiet(c) == /\ UNCHANGED recordVars /\ Types' /\ Exclusive'
            /\ Others(c) /\ Entry(c)

\* The three ways a request leaves the rows alone: it goes on, begins, ends.
LEMMA Proceeds ==
    ASSUME Types, Exclusive, NEW c \in Registrar, NEW job \in Task, Proceed(c, job),
           job.op = "weekly" => registrar[c].op = "weekly"
    PROVE  Quiet(c) /\ registrar'[c] = job /\ held' = held
<1>1. /\ registrar'[c] = job /\ registrar' \in [Registrar -> Task]
      /\ \A d \in Registrar \ {c} : registrar'[d] = registrar[d]
  BY DEF Proceed, Types
<1>2. UNCHANGED recordVars /\ held' = held /\ asked' = asked
  BY DEF Proceed
<1>3. Types'
  BY <1>1, <1>2 DEF Types, recordVars, academicVars
<1>4. Exclusive'
  BY <1>2 DEF Exclusive, Clash
<1> QED
  BY <1>1, <1>2, <1>3, <1>4 DEF Quiet, Others, Entry

LEMMA Starts ==
    ASSUME Types, Exclusive, NEW c \in Registrar, NEW job \in Task, Comes(c), Start(c, job),
           \/ job.op # "weekly" \/ weekly.is # "none"
           \/ \A d \in Registrar : registrar[d].op # "weekly"
    PROVE  Quiet(c) /\ registrar'[c] = job /\ held' = held
<1>1. /\ registrar'[c] = job /\ registrar' \in [Registrar -> Task]
      /\ \A d \in Registrar \ {c} : registrar'[d] = registrar[d]
  BY DEF Start, Types
<1>2. UNCHANGED recordVars /\ held' = held /\ asked' \in 0 .. MaxRequest
  BY Ids DEF Start, Comes, Types
<1>3. Types'
  BY <1>1, <1>2 DEF Types, recordVars, academicVars
<1>4. Exclusive'
  BY <1>2 DEF Exclusive, Clash
<1> QED
  BY <1>1, <1>2, <1>3, <1>4 DEF Quiet, Others, Entry

\* A request that ends has nothing left to rely on.
LEMMA Ending ==
    ASSUME Types, Exclusive, NEW c \in Registrar, Ends(c)
    PROVE  /\ registrar' \in [Registrar -> Task] /\ held' \in [Registrar -> SUBSET Lock]
           /\ asked' \in 0 .. MaxRequest /\ registrar'[c].op = "idle"
           /\ Exclusive' /\ Others(c) /\ Entry(c) /\ Part(c)' /\ DayPart(c)'
<1>1. Waiting \in Task /\ Waiting.op = "idle"
  <2>1. Waiting \in IdleJob /\ Waiting.op = "idle"
    BY DEF Waiting, IdleJob
  <2> QED
    BY <2>1 DEF Task
<1>2. /\ registrar'[c] = Waiting /\ registrar' \in [Registrar -> Task]
      /\ \A d \in Registrar \ {c} : registrar'[d] = registrar[d]
  BY <1>1 DEF Ends, Types
<1>3. /\ held'[c] = {} /\ held' \in [Registrar -> SUBSET Lock]
      /\ \A d \in Registrar \ {c} : held'[d] = held[d]
  BY DEF Ends, Types
<1>4. asked' \in 0 .. MaxRequest
  BY DEF Ends, Types
<1>5. Exclusive'
  BY <1>3 DEF Exclusive, Clash
<1>6. Part(c)'
  BY <1>1, <1>2 DEF Part, PlanPart, WeeklyPart, SessionPart, MovePart, LeavePart
<1>7. DayPart(c)'
  BY <1>1, <1>2 DEF DayPart
<1> QED
  BY <1>1, <1>2, <1>3, <1>4, <1>5, <1>6, <1>7 DEF Others, Entry

LEMMA Refusing ==
    ASSUME Types, Exclusive, NEW c \in Registrar, Ends(c), UNCHANGED recordVars
    PROVE  Quiet(c) /\ Part(c)' /\ DayPart(c)'
<1>1. Types'
  BY Ending DEF Types, recordVars, academicVars
<1> QED
  BY <1>1, Ending DEF Quiet

-----------------------------------------------------------------------------
(* What the others rely on.                                                  *)

\* A lock that is not a key share is held by one request.
LEMMA HeldByOne ==
    ASSUME Exclusive, NEW c \in Registrar, NEW d \in Registrar, c # d, NEW l \in held[d],
           l[3] = "update"
    PROVE  l \notin held[c]
BY DEF Exclusive, Clash

\* A step of one request leaves what the others rely on.
LEMMA Relied ==
    ASSUME TInv, NEW c \in Registrar, Guarantee(c)
    PROVE  \A d \in Registrar \ {c} : Part(d)'
<1> SUFFICES ASSUME NEW d \in Registrar, d # c PROVE Part(d)'
  OBVIOUS
<1>1. Part(d)
  BY DEF TInv
<1>2. registrar'[d] = registrar[d] /\ held'[d] = held[d] /\ Claimed(d)' = Claimed(d)
  BY DEF Guarantee, Others, Claimed
<1>3. /\ TheYear \in held[d] => TheYear \notin held[c]
      /\ TheWeekly \in held[d] => TheWeekly \notin held[c]
      /\ \A a : TheAssignment(a) \in held[d] => TheAssignment(a) \notin held[c]
      /\ \A s : TheSession(s) \in held[d] => TheSession(s) \notin held[c]
  BY HeldByOne DEF TInv, TheYear, TheWeekly, TheAssignment, TheSession
<1>4. registrar[d] \in Task
  BY DEF TInv, Types
<1> DEFINE j == registrar[d]
<1>5. \A a \in Assignment : Made(a) =>
        Made(a)' /\ (TheAssignment(a) \in held[d] => assignment'[a] = assignment[a])
  BY <1>3 DEF Guarantee
<1>6. TheYear \in held[d] => UNCHANGED <<year, semester, assignment>>
  BY <1>3 DEF Guarantee
<1>7. \A a \in Assignment : TheAssignment(a) \in held[d] => (InUse(a)' => InUse(a))
  BY <1>3 DEF Guarantee
<1>8. weekly.is # "none" => weekly'.is # "none" /\ (TheWeekly \in held[d] => weekly' = weekly)
  BY <1>3 DEF Guarantee
<1>9. \A s \in Lesson : session[s].is # "none" =>
        /\ session'[s].is # "none"
        /\ TheSession(s) \in held[d] => SameRow(session'[s], session[s])
  BY <1>3 DEF Guarantee
<1>10. \A row \in LessonRow :
         Fits(row) /\ (\A a \in Refers(row) : TheAssignment(a) \in held[d]) => Fits(row)'
  <2> SUFFICES ASSUME NEW row \in LessonRow, Fits(row),
                      \A a \in Refers(row) : TheAssignment(a) \in held[d]
               PROVE  Fits(row)'
    OBVIOUS
  <2>1. Made(row.of)' /\ assignment'[row.of] = assignment[row.of]
    BY <1>5 DEF Fits, Refers, LessonRow
  <2>2. row.source # Nobody =>
          Made(row.sourceOf)' /\ assignment'[row.sourceOf] = assignment[row.sourceOf]
    BY <1>5 DEF Fits, Paired, Refers, LessonRow
  <2> QED
    BY <2>1, <2>2 DEF Fits, Paired
<1>11. \A who, a : who.of \in Assignment /\ Acted(who, a) => Acted(who, a)'
  BY <1>5 DEF Acted, Paired
<1>12. PlanPart(d)'
  <2>1. j.op \in {"year", "semester", "newAssignment", "assignment"} /\ j.at = "commit" =>
          TheYear \in held[d] /\ j.need = <<>>
    BY <1>1, AcademicLocks DEF Part, PlanPart, Claimed
  <2>2. j.op = "assignment" => j.id \in Assignment
    BY <1>4, JobFields DEF AssignmentJob
  <2>3. j.op = "assignment" /\ j.at = "commit" => TheAssignment(j.id) \in held[d]
    BY <1>1, <2>1, AcademicLocks DEF Part, PlanPart, Claimed
  <2>4. TheYear \in held[d] => \A span : SemesterMayBe(span) => SemesterMayBe(span)'
    BY <1>6 DEF SemesterMayBe, Made
  <2>5. \A a \in Assignment : TheYear \in held[d] /\ TheAssignment(a) \in held[d] =>
          \A row, saw : Changeable(a, row, saw) => Changeable(a, row, saw)'
    BY <1>6, <1>7 DEF Changeable
  <2> HIDE DEF j
  <2> QED
    BY <1>1, <1>2, <1>5, <1>6, <2>1, <2>2, <2>3, <2>4, <2>5 DEF Part, PlanPart, j
<1>13. WeeklyPart(d)'
  <2>1. j.op = "weekly" => j.row.of \in Assignment
    BY <1>4, JobFields DEF WeeklyJob, WeeklyRow
  <2>2. ASSUME j.op = "weekly", weekly.is = "none"
        PROVE  weekly' = weekly /\ \A e \in Registrar \ {d} : registrar'[e].op # "weekly"
    <3>1. \A e \in Registrar \ {d} : registrar[e].op # "weekly"
      BY <1>1, <2>2 DEF Part, WeeklyPart
    <3>2. weekly' = weekly /\ registrar'[c].op # "weekly"
      BY <2>2, <3>1 DEF Guarantee, Entry
    <3> QED
      BY <3>1, <3>2 DEF Guarantee, Others
  <2>3. \A row : row.of \in Assignment /\ TheAssignment(row.of) \in held[d] /\ WeeklyFits(row) =>
          WeeklyFits(row)'
    BY <1>5 DEF WeeklyFits
  <2>4. j.op = "weekly" =>
          \/ weekly'.is # "none" /\ TheWeekly \in Claimed(d)
          \/ weekly'.is = "none" /\ \A e \in Registrar \ {d} : registrar'[e].op # "weekly"
    BY <1>1, <1>8, <2>2 DEF Part, WeeklyPart
  <2>5. j.op = "weekly" => Made(j.row.of) /\ TheAssignment(j.row.of) \in Claimed(d)
    BY <1>1 DEF Part, WeeklyPart
  <2>6. j.op = "weekly" /\ j.at = "write" => TheAssignment(j.row.of) \in held[d] /\ WeeklyFits(j.row)
    BY <1>1 DEF Part, WeeklyPart
  <2>7. j.op = "generate" => weekly'.is # "none" /\ TheWeekly \in Claimed(d)
    BY <1>1, <1>8 DEF Part, WeeklyPart
  <2> HIDE DEF j
  <2> QED
    BY <1>2, <1>5, <2>1, <2>3, <2>4, <2>5, <2>6, <2>7 DEF WeeklyPart, j
<1>14. SessionPart(d)'
  <2>1. /\ j.op = "session" /\ j.at \in {"discover", "check"} => j.of \in Assignment
        /\ j.op = "session" /\ j.at = "check" => j.who.of \in Assignment
        /\ j.op = "session" /\ j.at = "insert" => j.row \in LessonRow
    BY <1>4, JobFields DEF DiscoverJob, CheckJob, InsertJob, Who
  <2> HIDE DEF j
  <2> QED
    BY <1>1, <1>2, <1>5, <1>8, <1>10, <1>11, <2>1 DEF Part, SessionPart, j
<1>15. MovePart(d)'
  <2>1. /\ j.op = "reschedule" => j.id \in Lesson
        /\ j.op = "reschedule" /\ j.at \in {"discover", "check"} => j.saw \in LessonRow
        /\ j.op = "reschedule" /\ j.at = "check" => j.who.of \in Assignment
        /\ j.op = "reschedule" /\ j.at = "write" => j.row \in LessonRow
    BY <1>4, JobFields DEF MoveJob, MoveCheckJob, MoveWriteJob, Who
  <2>2. j.op = "reschedule" /\ j.at \in {"discover", "check"} =>
          FormalAssignment(j.saw) \in Assignment
    BY <1>1, <2>1 DEF Part, MovePart, Paired, FormalAssignment, LessonRow
  <2> HIDE DEF j
  <2> QED
    BY <1>1, <1>2, <1>5, <1>9, <1>10, <1>11, <2>1, <2>2
       DEF Part, MovePart, FormalAssignment, Paired, j
<1>16. LeavePart(d)'
  <2>1. /\ j.op = "approve" /\ j.at \in {"check", "write"} =>
             DOMAIN j.saw \subseteq Lesson /\ j.by \in Assignment \cup {Nobody}
        /\ j.op = "revoke" /\ j.at = "write" => DOMAIN j.saw \subseteq Lesson
    BY <1>4, JobFields DEF ApproveListJob, RevokeListJob, Lists
  <2>2. j.op = "approve" /\ j.at \in {"check", "write"} /\ j.sub # Nobody /\ DOMAIN j.saw # {} =>
          j.by \in Assignment
    BY <1>1, <2>1 DEF Part, LeavePart
  <2> QED
    BY <1>1, <1>2, <1>5, <1>9, <2>1, <2>2
       DEF Part, LeavePart, SameRow, OfLeave, StandsIn
<1> QED
  BY <1>12, <1>13, <1>14, <1>15, <1>16 DEF Part

\* Every session is in a row of its own kind.
LEMMA SessionRows ==
    ASSUME Types, NEW s \in Lesson, session[s].is # "none"
    PROVE  session[s] \in LessonRow
BY DEF Types, Absent

LEMMA AssignmentRows ==
    ASSUME Types, NEW a \in Assignment, Made(a)
    PROVE  assignment[a] \in CourseRow
BY DEF Types, Absent, Made

\* A step that writes nothing guarantees everything.
LEMMA QuietGuarantee ==
    ASSUME Types, NEW c \in Registrar, Quiet(c)
    PROVE  Guarantee(c)
<1>1. UNCHANGED recordVars /\ Others(c) /\ Entry(c)
  BY DEF Quiet
<1>2. /\ year' = year /\ semester' = semester /\ assignment' = assignment
      /\ weekly' = weekly /\ session' = session
  BY <1>1 DEF recordVars, academicVars
<1>3. \A s \in Lesson : session[s].is # "none" => SameRow(session[s], session[s])
  BY SessionRows DEF SameRow, LessonRow
<1>4. \A a \in Assignment : (Made(a)' <=> Made(a)) /\ (InUse(a)' <=> InUse(a))
  BY <1>2 DEF Made, InUse
<1> QED
  BY <1>1, <1>2, <1>3, <1>4 DEF Guarantee

\* A step keeps the invariant if its own part holds after it: without a
\* write, and with one.
LEMMA QuietKeeps ==
    ASSUME TInv, NEW c \in Registrar, Quiet(c), Part(c)'
    PROVE  TInv'
<1>1. \A d \in Registrar : Part(d)'
  BY QuietGuarantee, Relied DEF TInv
<1>2. /\ year' = year /\ semester' = semester /\ assignment' = assignment
      /\ weekly' = weekly /\ session' = session /\ Types' /\ Exclusive'
  BY DEF Quiet, recordVars, academicVars
<1>3. PeriodsNest'
  BY <1>2 DEF TInv, PeriodsNest, Made
<1>4. Placed'
  BY <1>2 DEF TInv, Placed, Fits, WeeklyFits, Made, Paired
<1> QED
  BY <1>1, <1>2, <1>3, <1>4 DEF TInv

LEMMA WriteKeeps ==
    ASSUME TInv, NEW c \in Registrar, Ends(c), Guarantee(c),
           year' \in Span, semester' \in Span,
           assignment' \in [Assignment -> {Absent} \cup CourseRow],
           weekly' \in {Absent} \cup WeeklyRow,
           session' \in [Lesson -> {Absent} \cup LessonRow],
           leave' \in [is : {"pending", "approved", "ended"}, sub : Sub],
           PeriodsNest', Placed'
    PROVE  TInv'
<1>1. \A d \in Registrar \ {c} : Part(d)'
  BY Relied
<1>2. Part(c)' /\ Exclusive'
  BY Ending DEF TInv
<1>3. Types'
  BY Ending DEF TInv, Types
<1> QED
  BY <1>1, <1>2, <1>3 DEF TInv

-----------------------------------------------------------------------------
(* Taking locks, and giving up.                                              *)

\* A lock moves from what is needed to what is held; nobody holds one that clashes.
LEMMA TakeKeeps ==
    ASSUME TInv, NEW c \in Registrar, Take(c)
    PROVE  /\ Quiet(c) /\ Part(c)'
           /\ Claimed(c)' = Claimed(c) /\ held[c] \subseteq held'[c]
           /\ SameBut(registrar'[c], registrar[c]) /\ registrar[c].need # <<>>
<1> DEFINE j == registrar[c]
           l == Head(j.need)
           r == [j EXCEPT !.need = Tail(j.need)]
<1>1. j \in Task /\ j.need \in Needs /\ j.need # <<>>
  BY JobFields DEF TInv, Types, Take
<1>2. l \in Lock /\ Tail(j.need) \in Needs /\ Elements(j.need) = {l} \cup Elements(Tail(j.need))
  BY <1>1, FirstAndRest DEF Needs
<1>3. j.op # "idle"
  BY <1>1, JobFields
<1>4. r \in Task /\ r.need = Tail(j.need) /\ SameBut(r, j)
  BY <1>1, <1>2, <1>3, NeedChanges
<1>5. registrar' = [registrar EXCEPT ![c] = r]
  BY DEF Take
<1>6. held' = [held EXCEPT ![c] = @ \cup {l}] /\ asked' = asked /\ UNCHANGED recordVars
  BY DEF Take
<1>7. \A d \in Registrar \ {c} : \A m \in held[d] : ~Clash(m, l)
  BY <1>1 DEF Take, Blockers
<1> HIDE DEF r, l
<1>8. registrar'[c] = r /\ held'[c] = held[c] \cup {l} /\ Others(c)
  BY <1>5, <1>6 DEF TInv, Types, Others
<1>9. Types'
  BY <1>2, <1>4, <1>5, <1>6 DEF TInv, Types, recordVars, academicVars
<1>10. Exclusive'
  <2> SUFFICES ASSUME NEW d \in Registrar, NEW e \in Registrar, d # e,
                      NEW m \in held'[d], NEW k \in held'[e]
               PROVE  ~Clash(m, k)
    BY DEF Exclusive, Clash
  <2>1. CASE d # c /\ e # c
    BY <1>8, <2>1 DEF TInv, Exclusive, Others
  <2>2. CASE d = c
    BY <1>7, <1>8, <2>2 DEF TInv, Exclusive, Others, Clash
  <2>3. CASE e = c
    BY <1>7, <1>8, <2>3 DEF TInv, Exclusive, Others, Clash
  <2> QED
    BY <2>1, <2>2, <2>3
<1>11. Entry(c)
  BY <1>4, <1>8 DEF Entry, SameBut
<1>12. Claimed(c)' = Claimed(c)
  BY <1>2, <1>4, <1>8 DEF Claimed
<1>13. Part(c)'
  <2>1. Part(c)
    BY DEF TInv
  <2>2. /\ year' = year /\ semester' = semester /\ assignment' = assignment
        /\ weekly' = weekly /\ session' = session
    BY <1>6 DEF recordVars, academicVars
  <2>3. /\ r.op = j.op /\ r.at = j.at /\ SameBut(r, j) /\ registrar'[c] = r
    BY <1>3, <1>4, <1>8 DEF SameBut
  <2>4. \A d \in Registrar \ {c} : registrar'[d] = registrar[d]
    BY <1>8 DEF Others
  <2>5. held[c] \subseteq held'[c]
    BY <1>8
  <2>6. /\ \A a : Made(a)' <=> Made(a)
        /\ \A row : (Fits(row)' <=> Fits(row)) /\ (WeeklyFits(row)' <=> WeeklyFits(row))
        /\ \A who, a : Acted(who, a)' <=> Acted(who, a)
        /\ \A a, t, d : StandsIn(a, t, d)' <=> StandsIn(a, t, d)
    BY <2>2 DEF Made, Fits, WeeklyFits, Paired, Acted, StandsIn
  <2> HIDE DEF j
  <2>7. PlanPart(c)'
    BY <1>1, <1>12, <2>1, <2>2, <2>3, <2>5, <2>6 DEF Part, PlanPart, SameBut, j
  <2>8. WeeklyPart(c)'
    BY <1>12, <2>1, <2>2, <2>3, <2>4, <2>5, <2>6 DEF Part, WeeklyPart, SameBut, j
  <2>9. SessionPart(c)'
    BY <1>12, <2>1, <2>2, <2>3, <2>5, <2>6 DEF Part, SessionPart, SameBut, j
  <2>10. MovePart(c)'
    BY <1>12, <2>1, <2>2, <2>3, <2>5, <2>6
       DEF Part, MovePart, SameBut, FormalAssignment, Paired, j
  <2>11. LeavePart(c)'
    BY <1>12, <2>1, <2>2, <2>3, <2>5, <2>6
       DEF Part, LeavePart, SameBut, SameRow, OfLeave, j
  <2> QED
    BY <2>7, <2>8, <2>9, <2>10, <2>11 DEF Part
<1> QED
  BY <1>1, <1>4, <1>6, <1>8, <1>9, <1>10, <1>11, <1>12, <1>13 DEF Quiet

-----------------------------------------------------------------------------
(* The calendar and the assignments.                                         *)

\* The last check passed: its result is what the write relies on.
LEMMA PassesKeeps ==
    ASSUME TInv, NEW c \in Registrar, Passes(c),
           LET j == registrar[c] IN
           /\ j.op \in {"year", "semester", "newAssignment", "assignment"} /\ j.need = <<>>
           /\ j.op = "year" => semester \subseteq j.days
           /\ j.op = "semester" => SemesterMayBe(j.days)
           /\ j.op = "newAssignment" => j.row.days \subseteq semester
           /\ j.op = "assignment" => Changeable(j.id, j.row, j.saw)
    PROVE  Quiet(c) /\ Part(c)' /\ DayPart(c)'
<1> DEFINE j == registrar[c]
           r == [j EXCEPT !.at = "commit"]
<1>1. j \in PeriodJob \cup NewAssignmentJob \cup AssignmentJob
  BY JobFields DEF TInv, Types
<1>2. /\ r \in Task /\ r.at = "commit" /\ r.op = j.op /\ r.need = j.need
      /\ j.op \in {"year", "semester"} => r.days = j.days
      /\ j.op \in {"newAssignment", "assignment"} => r.row = j.row
      /\ j.op = "assignment" => r.id = j.id /\ r.saw = j.saw
  <2>1. CASE j \in PeriodJob
    <3>1. r \in PeriodJob /\ r.at = "commit" /\ r.op = j.op /\ r.need = j.need /\ r.days = j.days
      BY <2>1 DEF PeriodJob
    <3> QED
      BY <2>1, <3>1 DEF Task, PeriodJob
  <2>2. CASE j \in NewAssignmentJob
    <3>1. r \in NewAssignmentJob /\ r.at = "commit" /\ r.op = j.op /\ r.need = j.need
          /\ r.row = j.row
      BY <2>2 DEF NewAssignmentJob
    <3> QED
      BY <2>2, <3>1 DEF Task, NewAssignmentJob
  <2>3. CASE j \in AssignmentJob
    <3>1. r \in AssignmentJob /\ r.at = "commit" /\ r.op = j.op /\ r.need = j.need
          /\ r.row = j.row /\ r.id = j.id /\ r.saw = j.saw
      BY <2>3 DEF AssignmentJob
    <3> QED
      BY <2>3, <3>1 DEF Task, AssignmentJob
  <2> QED
    BY <1>1, <2>1, <2>2, <2>3
<1>3. Proceed(c, r)
  BY DEF Passes
<1> HIDE DEF r
<1>4. Quiet(c) /\ registrar'[c] = r /\ held' = held
  BY <1>2, <1>3, Proceeds DEF TInv
<1>5. /\ year' = year /\ semester' = semester /\ assignment' = assignment
      /\ weekly' = weekly /\ session' = session
  BY <1>4 DEF Quiet, recordVars, academicVars
<1>6. /\ TheYear \in held[c] /\ (j.op = "newAssignment" => j.row.is = "on")
      /\ j.op = "assignment" => Made(j.id) /\ TheAssignment(j.id) \in held[c]
  BY AcademicLocks DEF TInv, Part, PlanPart, Claimed
<1>7. /\ \A span : SemesterMayBe(span)' <=> SemesterMayBe(span)
      /\ \A a, row, saw : Changeable(a, row, saw)' <=> Changeable(a, row, saw)
      /\ \A a : Made(a)' <=> Made(a)
  BY <1>5 DEF SemesterMayBe, Changeable, Made, InUse
<1>8. Part(c)'
  BY <1>2, <1>4, <1>5, <1>6, <1>7
     DEF Part, PlanPart, WeeklyPart, SessionPart, MovePart, LeavePart, Claimed
<1>9. DayPart(c)'
  BY <1>2, <1>4 DEF DayPart
<1> QED
  BY <1>4, <1>8, <1>9

LEMMA AsksPlan ==
    ASSUME TInv, NEW c \in Registrar, NEW job \in Task, Comes(c), Start(c, job),
           job.op \in {"year", "semester", "newAssignment", "assignment"}, job.at = "check",
           TheYear \in Elements(job.need),
           job.op = "newAssignment" => job.row.is = "on",
           job.op = "assignment" => /\ Made(job.id)
                                    /\ TheAssignment(job.id) \in Elements(job.need)
    PROVE  Quiet(c) /\ Part(c)' /\ DayPart(c)'
<1>1. Quiet(c) /\ registrar'[c] = job /\ held' = held
  BY Starts DEF TInv
<1>2. assignment' = assignment
  BY <1>1 DEF Quiet, recordVars
<1>3. \A a : Made(a)' <=> Made(a)
  BY <1>2 DEF Made
<1>4. Part(c)'
  BY <1>1, <1>3
     DEF Part, PlanPart, WeeklyPart, SessionPart, MovePart, LeavePart, Claimed
<1>5. DayPart(c)'
  BY <1>1 DEF DayPart
<1> QED
  BY <1>1, <1>4, <1>5

\* A step that asks, reads or checks: no row changes, and the request has what
\* it relies on next.
Settles(c) == Quiet(c) /\ Part(c)' /\ (Days => DayPart(c)')

LEMMA CalendarReads ==
    ASSUME TInv, NEW c \in Registrar
    PROVE  /\ \A span \in Span : AskYear(c, span) \/ AskSemester(c, span) => Settles(c)
           /\ CheckAcademicYear(c) \/ CheckSemester(c) => Settles(c)
<1>1. ASSUME NEW span \in Span, AskYear(c, span) PROVE Settles(c)
  <2> DEFINE job == [op |-> "year", at |-> "check", days |-> span, need |-> <<Head(AcademicRows)>>]
  <2>1. job.need \in Needs /\ TheYear \in Elements(job.need)
    BY AcademicLocks
  <2>2. job \in PeriodJob
    BY <2>1 DEF PeriodJob
  <2>3. job \in Task
    BY <2>2 DEF Task
  <2>4. Comes(c) /\ Start(c, job) /\ job.op = "year" /\ job.at = "check"
    BY <1>1 DEF AskYear
  <2> HIDE DEF job
  <2> QED
    BY <2>1, <2>3, <2>4, AsksPlan DEF Settles
<1>2. ASSUME NEW span \in Span, AskSemester(c, span) PROVE Settles(c)
  <2> DEFINE job == [op |-> "semester", at |-> "check", days |-> span, need |-> AcademicRows]
  <2>1. job.need \in Needs /\ TheYear \in Elements(job.need)
    BY AcademicLocks
  <2>2. job \in PeriodJob
    BY <2>1 DEF PeriodJob
  <2>3. job \in Task
    BY <2>2 DEF Task
  <2>4. Comes(c) /\ Start(c, job) /\ job.op = "semester" /\ job.at = "check"
    BY <1>2 DEF AskSemester
  <2> HIDE DEF job
  <2> QED
    BY <2>1, <2>3, <2>4, AsksPlan DEF Settles
<1>3. ASSUME CheckAcademicYear(c) PROVE Settles(c)
  <2>1. CASE semester \subseteq registrar[c].days
    BY <1>3, <2>1, PassesKeeps DEF CheckAcademicYear, Ready, Settles
  <2>2. CASE ~(semester \subseteq registrar[c].days)
    BY <1>3, <2>2, Refusing DEF CheckAcademicYear, Refuse, TInv, Settles
  <2> QED
    BY <2>1, <2>2
<1>4. ASSUME CheckSemester(c) PROVE Settles(c)
  <2>1. CASE SemesterMayBe(registrar[c].days)
    BY <1>4, <2>1, PassesKeeps DEF CheckSemester, Ready, Settles
  <2>2. CASE ~SemesterMayBe(registrar[c].days)
    BY <1>4, <2>2, Refusing DEF CheckSemester, Refuse, TInv, Settles
  <2> QED
    BY <2>1, <2>2
<1> QED
  BY <1>1, <1>2, <1>3, <1>4

LEMMA AssignmentReads ==
    ASSUME TInv, NEW c \in Registrar
    PROVE  /\ \A t \in Teacher, span \in Span :
                 /\ AskCreateAssignment(c, t, span) => Settles(c)
                 /\ \A a \in Assignment, is \in {"on", "off"} :
                       AskUpdateAssignment(c, a, is, t, span) => Settles(c)
           /\ CheckNewAssignment(c) \/ CheckAssignment(c) => Settles(c)
<1>1. ASSUME NEW t \in Teacher, NEW span \in Span, AskCreateAssignment(c, t, span)
      PROVE  Settles(c)
  <2> DEFINE job == [op |-> "newAssignment", at |-> "check",
                     row |-> [is |-> "on", teacher |-> t, days |-> span],
                     need |-> MutationRows({t}, {}, {})]
  <2>1. job.need \in Needs /\ TheYear \in Elements(job.need)
    <3>1. IsFiniteSet({t}) /\ IsFiniteSet({})
      BY FS_Singleton, FS_EmptySet
    <3> QED
      BY <3>1, MutationLocks
  <2>2. job \in NewAssignmentJob /\ job.row.is = "on"
    BY <2>1 DEF NewAssignmentJob, CourseRow
  <2>3. job \in Task
    BY <2>2 DEF Task
  <2>4. Comes(c) /\ Start(c, job) /\ job.op = "newAssignment" /\ job.at = "check"
    BY <1>1 DEF AskCreateAssignment
  <2> HIDE DEF job
  <2> QED
    BY <2>1, <2>2, <2>3, <2>4, AsksPlan DEF Settles
<1>2. ASSUME NEW t \in Teacher, NEW span \in Span, NEW a \in Assignment, NEW is \in {"on", "off"},
             AskUpdateAssignment(c, a, is, t, span)
      PROVE  Settles(c)
  <2> DEFINE job == [op |-> "assignment", at |-> "check", id |-> a,
                     row |-> [is |-> is, teacher |-> t, days |-> span],
                     saw |-> assignment[a].teacher,
                     need |-> MutationRows({assignment[a].teacher, t}, {a}, {})]
  <2>1. Made(a) /\ Comes(c) /\ Start(c, job)
    BY <1>2 DEF AskUpdateAssignment
  <2>2. assignment[a].teacher \in Teacher
    BY <2>1, AssignmentRows DEF CourseRow, TInv
  <2>3. /\ job.need \in Needs /\ TheYear \in Elements(job.need)
        /\ TheAssignment(a) \in Elements(job.need)
    <3>1. IsFiniteSet({assignment[a].teacher, t}) /\ IsFiniteSet({a})
      BY FinitePair, FS_Singleton
    <3> QED
      BY <2>2, <3>1, MutationLocks
  <2>4. job \in AssignmentJob /\ job.id = a /\ job.op = "assignment" /\ job.at = "check"
    BY <2>2, <2>3 DEF AssignmentJob, CourseRow
  <2>5. job \in Task
    BY <2>4 DEF Task
  <2> HIDE DEF job
  <2> QED
    BY <2>1, <2>3, <2>4, <2>5, AsksPlan DEF Settles
<1>3. ASSUME CheckNewAssignment(c) PROVE Settles(c)
  <2>1. CASE registrar[c].row.days \subseteq semester
    BY <1>3, <2>1, PassesKeeps DEF CheckNewAssignment, Ready, Settles
  <2>2. CASE ~(registrar[c].row.days \subseteq semester)
    BY <1>3, <2>2, Refusing DEF CheckNewAssignment, Refuse, TInv, Settles
  <2> QED
    BY <2>1, <2>2
<1>4. ASSUME CheckAssignment(c) PROVE Settles(c)
  <2> DEFINE j == registrar[c]
  <2>1. CASE Changeable(j.id, j.row, j.saw)
    BY <1>4, <2>1, PassesKeeps DEF CheckAssignment, Ready, Settles
  <2>2. CASE ~Changeable(j.id, j.row, j.saw)
    BY <1>4, <2>2, Refusing DEF CheckAssignment, Refuse, TInv, Settles
  <2> QED
    BY <2>1, <2>2
<1> QED
  BY <1>1, <1>2, <1>3, <1>4

-----------------------------------------------------------------------------
(* Writing the calendar and the assignments.                                 *)

\* What happens to the rows of one table leaves the rest.
LEMMA CalendarWrites ==
    ASSUME TInv, NEW c \in Registrar, UpdateAcademicYear(c) \/ UpdateSemester(c)
    PROVE  TInv' /\ Guarantee(c)
<1> DEFINE j == registrar[c]
<1>1. /\ Ends(c) /\ UNCHANGED <<assignment, weekly, session, leave>>
      /\ j.at = "commit" /\ j.op \in {"year", "semester"}
  BY DEF UpdateAcademicYear, UpdateSemester, Ready
<1>2. TheYear \in held[c]
  BY <1>1, AcademicLocks DEF TInv, Part, PlanPart, Claimed
<1>3. j.days \in Span
  BY <1>1, JobFields DEF TInv, Types, PeriodJob
<1>4. PeriodsNest' /\ year' \in Span /\ semester' \in Span
  <2>1. CASE UpdateAcademicYear(c)
    <3>1. year' = j.days /\ semester' = semester /\ assignment' = assignment
          /\ semester \subseteq j.days
      BY <2>1 DEF UpdateAcademicYear, Ready, TInv, Part, PlanPart
    <3> QED
      BY <1>3, <3>1 DEF TInv, Types, PeriodsNest, Made
  <2>2. CASE UpdateSemester(c)
    <3>1. semester' = j.days /\ year' = year /\ assignment' = assignment
          /\ SemesterMayBe(j.days)
      BY <2>2 DEF UpdateSemester, Ready, TInv, Part, PlanPart
    <3> QED
      BY <1>3, <3>1 DEF TInv, Types, PeriodsNest, SemesterMayBe, Made
  <2> QED
    BY <2>1, <2>2
<1>5. Placed'
  BY <1>1 DEF TInv, Placed, Fits, WeeklyFits, Made, Paired
<1>6. Guarantee(c)
  <2>1. Others(c) /\ Entry(c)
    BY <1>1, Ending DEF TInv
  <2>2. \A s \in Lesson : session[s].is # "none" => SameRow(session[s], session[s])
    BY SessionRows DEF SameRow, LessonRow, TInv
  <2>3. \A a \in Assignment : (Made(a)' <=> Made(a)) /\ (InUse(a)' <=> InUse(a))
    BY <1>1 DEF Made, InUse
  <2> QED
    BY <1>1, <1>2, <2>1, <2>2, <2>3 DEF Guarantee
<1> QED
  BY <1>1, <1>4, <1>5, <1>6, WriteKeeps DEF TInv, Types

\* An assignment is made, or changed: what refers to it still fits.
LEMMA AssignmentWrites ==
    ASSUME TInv, NEW c \in Registrar, CreateTeachingAssignment(c) \/ UpdateTeachingAssignment(c)
    PROVE  TInv' /\ Guarantee(c)
<1> DEFINE j == registrar[c]
<1>1. /\ Ends(c) /\ UNCHANGED <<year, semester, weekly, session, leave>>
      /\ j.at = "commit" /\ j.op \in {"newAssignment", "assignment"}
  BY DEF CreateTeachingAssignment, UpdateTeachingAssignment, Ready, academicVars
<1>2. TheYear \in held[c]
  BY <1>1, AcademicLocks DEF TInv, Part, PlanPart, Claimed
<1>3. j.row \in CourseRow /\ j.row.is # "none" /\ j.row.days \subseteq semester
  <2>1. j.row \in CourseRow
    BY <1>1, JobFields DEF TInv, Types, NewAssignmentJob, AssignmentJob
  <2>2. j.row.is # "none"
    BY <2>1 DEF CourseRow
  <2>3. j.row.days \subseteq semester
    BY <1>1 DEF TInv, Part, PlanPart, Changeable
  <2> QED
    BY <2>1, <2>2, <2>3
\* One assignment may have a new row.
<1>4. \E a \in Assignment :
         /\ assignment' = assignment \/ assignment' = [assignment EXCEPT ![a] = j.row]
         /\ Made(a) => /\ TheAssignment(a) \in held[c]
                       /\ InUse(a) => /\ j.row.teacher = assignment[a].teacher
                                      /\ j.row.days = assignment[a].days
  <2>1. CASE CreateTeachingAssignment(c)
    BY <2>1 DEF CreateTeachingAssignment
  <2>2. CASE UpdateTeachingAssignment(c)
    <3>1. j.op = "assignment" /\ j.id \in Assignment
      BY <2>2, JobFields DEF UpdateTeachingAssignment, Ready, TInv, Types, AssignmentJob
    <3>2. Changeable(j.id, j.row, j.saw) /\ TheAssignment(j.id) \in held[c]
      BY <1>1, <3>1, AcademicLocks DEF TInv, Part, PlanPart, Claimed
    <3> QED
      BY <2>2, <3>1, <3>2 DEF UpdateTeachingAssignment, Changeable
  <2> QED
    BY <2>1, <2>2
<1>5. PICK a \in Assignment :
         /\ assignment' = assignment \/ assignment' = [assignment EXCEPT ![a] = j.row]
         /\ Made(a) => /\ TheAssignment(a) \in held[c]
                       /\ InUse(a) => /\ j.row.teacher = assignment[a].teacher
                                      /\ j.row.days = assignment[a].days
  BY <1>4
<1> HIDE DEF j
<1>6. /\ assignment' \in [Assignment -> {Absent} \cup CourseRow]
      /\ \A b \in Assignment : b # a => assignment'[b] = assignment[b]
      /\ assignment'[a] \in {assignment[a], j.row}
  BY <1>3, <1>5 DEF TInv, Types
<1>7. \A b \in Assignment : /\ Made(b) => Made(b)'
                            /\ Made(b) /\ InUse(b) => /\ assignment'[b].teacher = assignment[b].teacher
                                                      /\ assignment'[b].days = assignment[b].days
  BY <1>3, <1>5, <1>6 DEF Made
<1>8. PeriodsNest'
  BY <1>1, <1>3, <1>6 DEF TInv, PeriodsNest, Made
<1>9. Placed'
  <2>1. ASSUME NEW s \in Lesson, session[s].is # "none" PROVE Fits(session[s])'
    <3>1. session[s] \in LessonRow /\ Fits(session[s]) /\ session' = session
      BY <1>1, <2>1, SessionRows DEF TInv, Placed
    <3>2. session[s].of \in Assignment /\ InUse(session[s].of) /\ Made(session[s].of)
      BY <2>1, <3>1 DEF InUse, LessonRow, Fits
    <3>3. session[s].source # Nobody =>
            /\ session[s].sourceOf \in Assignment /\ InUse(session[s].sourceOf)
            /\ Made(session[s].sourceOf)
      BY <2>1, <3>1 DEF InUse, LessonRow, Fits, Paired
    <3> QED
      BY <1>7, <3>1, <3>2, <3>3 DEF Fits, Paired
  <2>2. ASSUME weekly.is # "none" PROVE WeeklyFits(weekly)'
    <3>1. weekly \in WeeklyRow /\ WeeklyFits(weekly) /\ weekly' = weekly
      BY <1>1, <2>2 DEF TInv, Placed, Types, Absent
    <3>2. weekly.of \in Assignment /\ InUse(weekly.of) /\ Made(weekly.of)
      BY <2>2, <3>1 DEF InUse, WeeklyRow, WeeklyFits
    <3> QED
      BY <1>7, <3>1, <3>2 DEF WeeklyFits
  <2> QED
    BY <1>1, <2>1, <2>2 DEF Placed
<1>10. Guarantee(c)
  <2>1. Others(c) /\ Entry(c)
    BY <1>1, Ending DEF TInv
  <2>2. \A s \in Lesson : session[s].is # "none" => SameRow(session[s], session[s])
    BY SessionRows DEF SameRow, LessonRow, TInv
  <2>3. \A b \in Assignment : InUse(b)' <=> InUse(b)
    BY <1>1 DEF InUse
  <2>4. \A b \in Assignment : Made(b) =>
          assignment'[b] = assignment[b] \/ TheAssignment(b) \in held[c]
    BY <1>5, <1>6
  <2> QED
    BY <1>1, <1>2, <1>7, <2>1, <2>2, <2>3, <2>4 DEF Guarantee
<1> QED
  BY <1>1, <1>6, <1>8, <1>9, <1>10, WriteKeeps DEF TInv, Types

-----------------------------------------------------------------------------
(* Weekly schedules.                                                         *)

\* The assignment a form names fits it.
LEMMA ResolvesFits ==
    ASSUME Types, NEW a \in Assignment, NEW t, NEW days, Resolves(a, t, days)
    PROVE  /\ Made(a) /\ assignment[a].teacher = t /\ t \in Teacher
           /\ days \subseteq assignment[a].days
<1>1. Made(a) /\ assignment[a].teacher = t /\ days \subseteq assignment[a].days
  BY DEF Resolves, Made
<1> QED
  BY <1>1, AssignmentRows DEF CourseRow

\* The assignment is locked and looked at again before the schedule is written.
LEMMA WeeklyReads ==
    ASSUME TInv, NEW c \in Registrar
    PROVE  /\ \A a \in Assignment, span \in Span, is \in {"on", "off"} :
                 AskWeekly(c, a, span, is) => Settles(c)
           /\ ResolveWeekly(c) => Settles(c)
<1>1. ASSUME NEW a \in Assignment, NEW span \in Span, NEW is \in {"on", "off"},
             AskWeekly(c, a, span, is)
      PROVE  Settles(c)
  <2> DEFINE s == Sorted("assignment", {a})
             need == IF weekly = Absent THEN AcademicRows \o s
                     ELSE <<TheWeekly>> \o AcademicRows \o s
             job == [op |-> "weekly", at |-> "read",
                     row |-> [is |-> is, of |-> a, teacher |-> assignment[a].teacher, days |-> span],
                     need |-> need]
  <2>1. /\ Made(a) /\ Comes(c) /\ Start(c, job)
        /\ weekly = Absent => \A d \in Registrar : registrar[d].op # "weekly"
    BY <1>1 DEF AskWeekly, TheWeekly
  <2>2. assignment[a].teacher \in Teacher
    BY <2>1, AssignmentRows DEF CourseRow, TInv
  <2>3. s \in Needs /\ TheAssignment(a) \in Elements(s)
    <3>1. IsFiniteSet({a}) /\ {a} \in SUBSET Nat
      BY FS_Singleton, Ids
    <3>2. \A i \in {a} : <<"assignment", i, "update">> \in Lock
      BY RowLocks DEF TheAssignment
    <3> QED
      BY <3>1, <3>2, SortedLocks DEF TheAssignment
  <2>4. /\ need \in Needs /\ TheAssignment(a) \in Elements(need)
        /\ weekly # Absent => TheWeekly \in Elements(need)
    <3> HIDE DEF s
    <3>1. /\ AcademicRows \o s \in Needs
          /\ Elements(AcademicRows \o s) = Elements(AcademicRows) \cup Elements(s)
      BY <2>3, AcademicLocks, JoinedLocks
    <3>2. <<TheWeekly>> \in Needs /\ Elements(<<TheWeekly>>) = {TheWeekly}
      BY AcademicLocks, RowLocks
    <3>3. /\ <<TheWeekly>> \o AcademicRows \in Needs
          /\ Elements(<<TheWeekly>> \o AcademicRows) = {TheWeekly} \cup Elements(AcademicRows)
      BY <3>2, AcademicLocks, JoinedLocks
    <3>4. /\ (<<TheWeekly>> \o AcademicRows) \o s \in Needs
          /\ Elements((<<TheWeekly>> \o AcademicRows) \o s) =
                {TheWeekly} \cup Elements(AcademicRows) \cup Elements(s)
      BY <2>3, <3>3, JoinedLocks
    <3> QED
      BY <2>3, <3>1, <3>4
  <2> HIDE DEF need
  <2>5. /\ job \in WeeklyJob /\ job.op = "weekly" /\ job.at = "read" /\ job.row.of = a
        /\ job.need = need
    BY <2>2, <2>4 DEF WeeklyJob, WeeklyRow
  <2>6. job \in Task
    BY <2>5 DEF Task
  <2>7. weekly.is = "none" <=> weekly = Absent
    BY DEF TInv, Types, WeeklyRow, Absent
  <2> HIDE DEF job
  <2>8. Quiet(c) /\ registrar'[c] = job /\ held' = held
    BY <2>1, <2>6, <2>7, Starts DEF TInv
  <2>9. assignment' = assignment /\ weekly' = weekly
    BY <2>8 DEF Quiet, recordVars
  <2>10. Made(a)'
    BY <2>1, <2>9 DEF Made
  <2>11. weekly = Absent => \A d \in Registrar \ {c} : registrar'[d].op # "weekly"
    BY <2>1, <2>8 DEF Quiet, Others
  <2>12. Part(c)'
    BY <2>4, <2>5, <2>7, <2>8, <2>9, <2>10, <2>11
       DEF Part, PlanPart, WeeklyPart, SessionPart, MovePart, LeavePart, Claimed
  <2>13. DayPart(c)'
    BY <2>5, <2>8 DEF DayPart
  <2> QED
    BY <2>8, <2>12, <2>13 DEF Settles
<1>2. ASSUME ResolveWeekly(c) PROVE Settles(c)
  <2> DEFINE j == registrar[c]
             need == IF weekly # Absent /\ weekly.teacher = j.row.teacher THEN <<>>
                     ELSE KeyShares({j.row.teacher})
             r == [j EXCEPT !.at = "write", !.need = need]
  <2>1. j.op = "weekly" /\ j.at = "read" /\ j.need = <<>>
    BY <1>2 DEF ResolveWeekly, Ready
  <2>2. j \in WeeklyJob /\ j.row \in WeeklyRow /\ j.row.of \in Assignment /\ j.row.teacher \in Teacher
    BY <2>1, JobFields DEF TInv, Types, WeeklyJob, WeeklyRow
  <2>3. CASE ~Resolves(j.row.of, j.row.teacher, j.row.days)
    BY <1>2, <2>3, Refusing DEF ResolveWeekly, Refuse, TInv, Settles
  <2>4. CASE Resolves(j.row.of, j.row.teacher, j.row.days)
    <3>1. Proceed(c, r)
      BY <1>2, <2>4 DEF ResolveWeekly
    <3>2. need \in Needs
      <4>1. IsFiniteSet({j.row.teacher})
        BY FS_Singleton
      <4> QED
        BY <2>2, <4>1, KeyShareLocks, AcademicLocks
    <3> HIDE DEF need
    <3>3. r \in WeeklyJob /\ r.op = "weekly" /\ r.at = "write" /\ r.row = j.row /\ r.need = need
      BY <2>1, <2>2, <3>2 DEF WeeklyJob
    <3>4. r \in Task
      BY <3>3 DEF Task
    <3> HIDE DEF r
    <3>5. Quiet(c) /\ registrar'[c] = r /\ held' = held
      BY <2>1, <3>1, <3>3, <3>4, Proceeds DEF TInv
    <3>6. WeeklyFits(j.row)
      BY <2>2, <2>4, ResolvesFits DEF TInv, WeeklyFits
    <3>7. assignment' = assignment /\ weekly' = weekly
      BY <3>5 DEF Quiet, recordVars
    <3>8. \A row : WeeklyFits(row) => WeeklyFits(row)' /\ Made(row.of)'
      BY <3>7 DEF WeeklyFits, Made
    <3>9. /\ TheAssignment(j.row.of) \in held[c]
          /\ \/ weekly.is # "none" /\ TheWeekly \in held[c]
             \/ weekly.is = "none" /\ \A d \in Registrar \ {c} : registrar[d].op # "weekly"
      BY <2>1, AcademicLocks DEF TInv, Part, WeeklyPart, Claimed
    <3>10. \A d \in Registrar \ {c} : registrar'[d] = registrar[d]
      BY <3>5 DEF Quiet, Others
    <3> HIDE DEF j
    <3>11. Part(c)'
      BY <3>3, <3>5, <3>6, <3>7, <3>8, <3>9, <3>10
         DEF Part, PlanPart, WeeklyPart, SessionPart, MovePart, LeavePart, Claimed
    <3>12. DayPart(c)'
      BY <3>3, <3>5 DEF DayPart
    <3> QED
      BY <3>5, <3>11, <3>12 DEF Settles
  <2> QED
    BY <2>3, <2>4
<1> QED
  BY <1>1, <1>2

\* The schedule written fits, and nobody made one meanwhile.
LEMMA WeeklyWrites ==
    ASSUME TInv, NEW c \in Registrar, WriteWeekly(c)
    PROVE  TInv' /\ Guarantee(c)
<1> DEFINE j == registrar[c]
<1>1. /\ Ends(c) /\ UNCHANGED <<year, semester, assignment, session, leave>>
      /\ j.at = "write" /\ j.op = "weekly" /\ j.need = <<>> /\ weekly' = j.row
  BY DEF WriteWeekly, Ready, academicVars
<1>2. j.row \in WeeklyRow /\ j.row.of \in Assignment /\ j.row.is # "none"
  BY <1>1, JobFields DEF TInv, Types, WeeklyJob, WeeklyRow
<1>3. /\ WeeklyFits(j.row) /\ TheAssignment(j.row.of) \in held[c]
      /\ weekly.is # "none" => TheWeekly \in held[c]
  BY <1>1, AcademicLocks DEF TInv, Part, WeeklyPart, Claimed
<1> HIDE DEF j
<1>4. PeriodsNest'
  BY <1>1 DEF TInv, PeriodsNest, Made
<1>5. Placed'
  BY <1>1, <1>3 DEF TInv, Placed, Fits, WeeklyFits, Made, Paired
<1>6. Guarantee(c)
  <2>1. Others(c) /\ Entry(c)
    BY <1>1, Ending DEF TInv
  <2>2. \A s \in Lesson : session[s].is # "none" => SameRow(session[s], session[s])
    BY SessionRows DEF SameRow, LessonRow, TInv
  <2>3. \A a \in Assignment : (Made(a)' <=> Made(a)) /\ (InUse(a)' => InUse(a) \/ a = j.row.of)
    BY <1>1 DEF Made, InUse
  <2> QED
    BY <1>1, <1>2, <1>3, <2>1, <2>2, <2>3 DEF Guarantee, j
<1> QED
  BY <1>1, <1>2, <1>4, <1>5, <1>6, WriteKeeps DEF TInv, Types

-----------------------------------------------------------------------------
(* Sessions: who acts, and the row that follows.                             *)

\* Whom Acting finds, and that it agrees with the leave it saw.
LEMMA ActingIs ==
    ASSUME leave.sub \in Sub, NEW a \in Assignment, NEW t \in Teacher, NEW d,
           NEW who \in Acting(a, t, d)
    PROVE  who \in Who /\ Acted(who, a) /\ WhoAgrees(who, t, d)
<1>1. t # Nobody /\ a # Nobody
  BY Ids
<1>2. CASE OnLeave(t, d) /\ leave.sub # Nobody
  <2>1. PICK b \in Assignment : StandsIn(b, leave.sub, d) /\ who = Acts(leave.sub, b, t, a, TRUE)
    BY <1>2 DEF Acting
  <2>2. leave.sub \in Teacher /\ leave.sub # Applicant
    BY <1>2 DEF Sub
  <2>3. /\ who \in Who /\ who.teacher = leave.sub /\ who.of = b /\ who.source = t
        /\ who.sourceOf = a /\ who.onLeave = TRUE
    BY <2>1, <2>2 DEF Acts, Who
  <2> QED
    BY <1>1, <1>2, <2>1, <2>2, <2>3 DEF Acted, Paired, WhoAgrees, StandsIn, Made
<1>3. CASE ~(OnLeave(t, d) /\ leave.sub # Nobody)
  <2>1. who = Acts(t, a, Nobody, Nobody, OnLeave(t, d))
    BY <1>3 DEF Acting
  <2>2. OnLeave(t, d) \in BOOLEAN
    BY DEF OnLeave
  <2>3. /\ who \in Who /\ who.of = a /\ who.source = Nobody /\ who.sourceOf = Nobody
        /\ who.onLeave = OnLeave(t, d)
    BY <2>1, <2>2 DEF Acts, Who
  <2> QED
    BY <1>3, <2>3 DEF Acted, Paired, WhoAgrees
<1> QED
  BY <1>2, <1>3

\* Who acts, read again with the assignment locked.
LEMMA RevalidatedIs ==
    ASSUME Types, NEW a \in Assignment, Made(a), NEW who \in Who, Acted(who, a)
    PROVE  LET w == Revalidated(who, a) IN
           /\ w \in Who /\ w.onLeave = who.onLeave /\ w.of = who.of
           /\ IF who.source = Nobody
              THEN /\ w.teacher = assignment[a].teacher /\ w.of = a
                   /\ w.source = Nobody /\ w.sourceOf = Nobody
              ELSE /\ w.teacher = who.teacher
                   /\ w.source = assignment[a].teacher /\ w.sourceOf = a
<1>1. assignment[a].teacher \in Teacher
  BY AssignmentRows DEF CourseRow
<1>2. CASE who.source = Nobody
  BY <1>1, <1>2 DEF Revalidated, Acts, Who, Acted
<1>3. CASE who.source # Nobody
  BY <1>1, <1>3 DEF Revalidated, Who
<1> QED
  BY <1>2, <1>3

\* The row made of it fits its assignments, and the leave.
LEMMA ActingRow ==
    ASSUME Types, NEW a \in Assignment, NEW who \in Who, Acted(who, a), NEW d, NEW t,
           NEW days, Resolves(a, t, days), d \in days, StillActs(who, d), NEW row \in LessonRow,
           LET w == Revalidated(who, a) IN
           /\ row.day = d /\ row.teacher = w.teacher /\ row.of = w.of
           /\ row.source = w.source /\ row.sourceOf = w.sourceOf /\ (w.onLeave => row.excused)
    PROVE  /\ Fits(row) /\ Refers(row) \subseteq {a, who.of}
           /\ FormalTeacher(row) = t /\ FormalAssignment(row) = a
           /\ WhoAgrees(who, t, d) => Agrees(row)
<1> DEFINE w == Revalidated(who, a)
<1>1. /\ Made(a) /\ assignment[a].teacher = t /\ t \in Teacher /\ d \in assignment[a].days
      /\ t # Nobody /\ a # Nobody
  BY ResolvesFits, Ids
<1>2. /\ w.onLeave = who.onLeave /\ w.of = who.of
      /\ IF who.source = Nobody
         THEN w.teacher = t /\ w.of = a /\ w.source = Nobody /\ w.sourceOf = Nobody
         ELSE w.teacher = who.teacher /\ w.source = t /\ w.sourceOf = a
  BY <1>1, RevalidatedIs
<1> HIDE DEF w
<1>3. FormalTeacher(row) = t /\ FormalAssignment(row) = a
  BY <1>1, <1>2 DEF FormalTeacher, FormalAssignment, w
<1>4. Refers(row) \subseteq {a, who.of}
  BY <1>2 DEF Refers, w
<1>5. Fits(row)
  <2>1. CASE who.source = Nobody
    BY <1>1, <1>2, <2>1 DEF Fits, Paired, w
  <2>2. CASE who.source # Nobody
    <3>1. /\ Made(who.of) /\ assignment[who.of].teacher = who.teacher
          /\ d \in assignment[who.of].days /\ who.teacher # Applicant
      BY <2>2 DEF Acted, StillActs, StandsIn, Made
    <3> QED
      BY <1>1, <1>2, <2>2, <3>1 DEF Fits, Paired, w
  <2> QED
    BY <2>1, <2>2
<1>6. WhoAgrees(who, t, d) => Agrees(row)
  <2> SUFFICES ASSUME WhoAgrees(who, t, d) PROVE Agrees(row)
    OBVIOUS
  <2>1. row.source = w.source /\ row.teacher = w.teacher /\ row.day = d /\ (w.onLeave => row.excused)
    BY DEF w
  <2> QED
    BY <1>1, <1>2, <1>3, <2>1 DEF WhoAgrees, Agrees
<1> QED
  BY <1>3, <1>4, <1>5, <1>6

\* The keys an insert of a session shares.
LEMMA SessionKeys ==
    ASSUME NEW t \in Teacher \cup {Nobody}, NEW u \in Teacher \cup {Nobody},
           NEW v \in Teacher, NEW p \in BOOLEAN, NEW q \in BOOLEAN
    PROVE  KeyShares((IF p THEN {} ELSE {t, u}) \cup (IF q THEN {v} ELSE {})) \in Needs
<1> DEFINE A == IF p THEN {} ELSE {t, u}
           B == IF q THEN {v} ELSE {}
<1>1. IsFiniteSet(A) /\ IsFiniteSet(B)
  BY FinitePair, FS_EmptySet, FS_Singleton
<1>2. IsFiniteSet(A \cup B)
  <2> HIDE DEF A, B
  <2> QED
    BY <1>1, FS_Union
<1>3. A \cup B \in SUBSET (Teacher \cup {Nobody})
  OBVIOUS
<1> QED
  BY <1>2, <1>3, KeyShareLocks

\* The assignments a session refers to.
LEMMA TwoAssignments ==
    ASSUME NEW a \in Assignment, NEW b \in Assignment
    PROVE  /\ Sorted("assignment", {a, b}) \in Needs
           /\ Elements(Sorted("assignment", {a, b})) = {TheAssignment(a), TheAssignment(b)}
<1>1. IsFiniteSet({a, b}) /\ {a, b} \in SUBSET Nat
  BY FinitePair, Ids
<1>2. \A i \in {a, b} : <<"assignment", i, "update">> \in Lock
  BY RowLocks DEF TheAssignment
<1> QED
  BY <1>1, <1>2, SortedLocks DEF TheAssignment

LEMMA SessionAsks ==
    ASSUME TInv, NEW c \in Registrar, NEW d \in Day
    PROVE  /\ \A a \in Assignment, t \in Teacher : AskSession(c, a, t, d) => Settles(c)
           /\ AskGenerate(c, d) => Settles(c)
<1>1. ASSUME NEW a \in Assignment, NEW t \in Teacher, AskSession(c, a, t, d) PROVE Settles(c)
  <2> DEFINE job == [op |-> "session", at |-> "discover", of |-> a, teacher |-> t,
                     day |-> d, saw |-> assignment[a].teacher, scheduled |-> FALSE,
                     need |-> LeaveDates(assignment[a].teacher, {d})]
  <2>1. Made(a) /\ Comes(c) /\ Start(c, job) /\ (t = assignment[a].teacher \/ Stale)
    BY <1>1 DEF AskSession
  <2>2. assignment[a].teacher \in Teacher
    BY <2>1, AssignmentRows DEF CourseRow, TInv
  <2>3. job.need \in Needs /\ Elements(job.need) = {DayOf(assignment[a].teacher, d)}
    BY <2>2, OneDay
  <2>4. /\ job \in DiscoverJob /\ job.op = "session" /\ job.at = "discover" /\ job.of = a
        /\ job.scheduled = FALSE /\ job.teacher = t /\ job.day = d
        /\ job.saw = assignment[a].teacher
    BY <2>2, <2>3 DEF DiscoverJob
  <2>5. job \in Task
    BY <2>4 DEF Task
  <2> HIDE DEF job
  <2>6. Quiet(c) /\ registrar'[c] = job /\ held' = held
    BY <2>1, <2>4, <2>5, Starts DEF TInv
  <2>7. Made(a)'
    BY <2>1, <2>6 DEF Quiet, recordVars, Made
  <2>8. Part(c)'
    BY <2>4, <2>6, <2>7
       DEF Part, PlanPart, WeeklyPart, SessionPart, MovePart, LeavePart
  <2>9. Days => DayPart(c)'
    BY <2>1, <2>3, <2>4, <2>6 DEF Days, DayPart, Claimed
  <2> QED
    BY <2>6, <2>8, <2>9 DEF Settles
<1>2. ASSUME AskGenerate(c, d) PROVE Settles(c)
  <2> DEFINE job == [op |-> "generate", at |-> "schedule", day |-> d, need |-> <<TheWeekly>>]
  <2>1. weekly # Absent /\ Comes(c) /\ Start(c, job)
    BY <1>2 DEF AskGenerate, TheWeekly
  <2>2. job.need \in Needs /\ Elements(job.need) = {TheWeekly}
    BY AcademicLocks, RowLocks
  <2>3. job \in GenerateJob /\ job.op = "generate"
    BY <2>2 DEF GenerateJob
  <2>4. job \in Task
    BY <2>3 DEF Task
  <2> HIDE DEF job
  <2>5. Quiet(c) /\ registrar'[c] = job /\ held' = held
    BY <2>1, <2>3, <2>4, Starts DEF TInv
  <2>6. weekly'.is # "none"
    BY <2>1, <2>5 DEF Quiet, recordVars, TInv, Types, WeeklyRow
  <2>7. Part(c)'
    BY <2>2, <2>3, <2>5, <2>6
       DEF Part, PlanPart, WeeklyPart, SessionPart, MovePart, LeavePart, Claimed
  <2>8. DayPart(c)'
    BY <2>3, <2>5 DEF DayPart
  <2> QED
    BY <2>5, <2>7, <2>8 DEF Settles
<1> QED
  BY <1>1, <1>2

LEMMA ReadScheduleKeeps ==
    ASSUME TInv, NEW c \in Registrar, ReadSchedule(c)
    PROVE  Settles(c)
<1> DEFINE j == registrar[c]
           q == LeaveDates(weekly.teacher, {j.day})
           job == [op |-> "session", at |-> "discover", of |-> weekly.of,
                   teacher |-> weekly.teacher, day |-> j.day, saw |-> weekly.teacher,
                   scheduled |-> TRUE, need |-> q \o AcademicRows]
<1>1. j.op = "generate" /\ j.at = "schedule" /\ j.need = <<>>
  BY DEF ReadSchedule, Ready
<1>2. CASE ~(weekly.is = "on" /\ j.day \in weekly.days)
  BY <1>2, Refusing DEF ReadSchedule, Refuse, TInv, Settles
<1>3. CASE weekly.is = "on" /\ j.day \in weekly.days
  <2>1. Proceed(c, job)
    BY <1>3 DEF ReadSchedule
  <2>2. j.day \in Day /\ weekly.is # "none" /\ weekly.of \in Assignment /\ weekly.teacher \in Teacher
    BY <1>1, <1>3, JobFields DEF TInv, Types, GenerateJob, WeeklyRow, Absent
  <2>3. Made(weekly.of) /\ TheWeekly \in held[c]
    BY <1>1, <2>2, AcademicLocks DEF TInv, Placed, WeeklyFits, Part, WeeklyPart, Claimed
  <2>4. q \in Needs /\ Elements(q) = {DayOf(weekly.teacher, j.day)}
    BY <2>2, OneDay
  <2>5. q \o AcademicRows \in Needs /\ DayOf(weekly.teacher, j.day) \in Elements(q \o AcademicRows)
    <3> HIDE DEF q
    <3> QED
      BY <2>4, AcademicLocks, JoinedLocks
  <2> HIDE DEF q
  <2>6. /\ job \in DiscoverJob /\ job.op = "session" /\ job.at = "discover" /\ job.of = weekly.of
        /\ job.teacher = weekly.teacher /\ job.saw = weekly.teacher /\ job.day = j.day
        /\ job.need = q \o AcademicRows
    BY <2>2, <2>5 DEF DiscoverJob
  <2>7. job \in Task
    BY <2>6 DEF Task
  <2> HIDE DEF job
  <2>8. Quiet(c) /\ registrar'[c] = job /\ held' = held
    BY <2>1, <2>6, <2>7, Proceeds DEF TInv
  <2>9. weekly' = weekly /\ Made(weekly.of)'
    BY <2>3, <2>8 DEF Quiet, recordVars, Made
  <2> HIDE DEF j
  <2>10. Part(c)'
    BY <1>3, <2>2, <2>3, <2>6, <2>8, <2>9
       DEF Part, PlanPart, WeeklyPart, SessionPart, MovePart, LeavePart
  <2>11. DayPart(c)'
    BY <2>5, <2>6, <2>8 DEF DayPart, Claimed
  <2> QED
    BY <2>8, <2>10, <2>11 DEF Settles
<1> QED
  BY <1>2, <1>3

LEMMA DiscoverActingKeeps ==
    ASSUME TInv, NEW c \in Registrar, DiscoverActing(c)
    PROVE  Settles(c)
<1> DEFINE j == registrar[c]
           rows == IF j.scheduled THEN <<>> ELSE AcademicRows
<1>1. j.op = "session" /\ j.at = "discover" /\ j.need = <<>>
  BY DEF DiscoverActing, Ready
<1>2. CASE Refuse(c)
  BY <1>2, Refusing DEF Refuse, TInv, Settles
<1>3. ASSUME NEW who \in Acting(j.of, j.saw, j.day),
             Proceed(c, [op |-> "session", at |-> "check", of |-> j.of,
                         teacher |-> j.teacher, day |-> j.day,
                         scheduled |-> j.scheduled, who |-> who,
                         need |-> rows \o Sorted("assignment", {j.of, who.of})])
      PROVE  Settles(c)
  <2> DEFINE s == Sorted("assignment", {j.of, who.of})
             job == [op |-> "session", at |-> "check", of |-> j.of, teacher |-> j.teacher,
                     day |-> j.day, scheduled |-> j.scheduled, who |-> who, need |-> rows \o s]
  <2>1. j \in DiscoverJob
    BY <1>1, JobFields DEF TInv, Types
  <2>2. /\ j.of \in Assignment /\ j.teacher \in Teacher /\ j.day \in Day /\ j.saw \in Teacher
        /\ j.scheduled \in BOOLEAN
    BY <2>1 DEF DiscoverJob
  <2>3. who \in Who /\ Acted(who, j.of) /\ WhoAgrees(who, j.saw, j.day) /\ who.of \in Assignment
    BY <1>3, <2>2, ActingIs DEF TInv, Types, Who
  <2>4. s \in Needs /\ Elements(s) = {TheAssignment(j.of), TheAssignment(who.of)}
    BY <2>2, <2>3, TwoAssignments
  <2>5. rows \in Needs
    BY AcademicLocks
  <2>6. rows \o s \in Needs /\ Elements(s) \subseteq Elements(rows \o s)
    <3> HIDE DEF rows, s
    <3> QED
      BY <2>4, <2>5, JoinedLocks
  <2> HIDE DEF rows, s
  <2>7. /\ job \in CheckJob /\ job.op = "session" /\ job.at = "check" /\ job.of = j.of
        /\ job.teacher = j.teacher /\ job.day = j.day /\ job.scheduled = j.scheduled
        /\ job.who = who /\ job.need = rows \o s
    BY <2>2, <2>3, <2>6 DEF CheckJob
  <2>8. job \in Task
    BY <2>7 DEF Task
  <2>9. Proceed(c, job)
    BY <1>3 DEF s
  <2> HIDE DEF job
  <2>10. Quiet(c) /\ registrar'[c] = job /\ held' = held
    BY <2>7, <2>8, <2>9, Proceeds DEF TInv
  <2>11. /\ weekly' = weekly /\ leave' = leave
         /\ \A a : Made(a)' <=> Made(a)
         /\ \A a : Acted(who, a)' <=> Acted(who, a)
         /\ \A t, d : WhoAgrees(who, t, d)' <=> WhoAgrees(who, t, d)
    BY <2>10 DEF Quiet, recordVars, Made, Acted, Paired, WhoAgrees, OnLeave
  <2>12. /\ Made(j.of)
         /\ j.scheduled => TheWeekly \in held[c] /\ weekly.is # "none" /\ j.day \in weekly.days
    BY <1>1 DEF TInv, Part, SessionPart
  <2>13. Days => j.saw = j.teacher /\ DayOf(j.teacher, j.day) \in held[c]
    BY <1>1, AcademicLocks DEF Days, DayPart, Claimed
  <2> HIDE DEF j
  <2>14. Part(c)'
    BY <2>3, <2>4, <2>6, <2>7, <2>10, <2>11, <2>12
       DEF Part, PlanPart, WeeklyPart, SessionPart, MovePart, LeavePart, Claimed
  <2>15. Days => DayPart(c)'
    BY <2>3, <2>7, <2>10, <2>11, <2>13 DEF DayPart
  <2> QED
    BY <2>10, <2>14, <2>15 DEF Settles
<1> QED
  BY <1>2, <1>3 DEF DiscoverActing

\* The session is checked with its assignments locked, and its row made.
LEMMA CheckSessionKeeps ==
    ASSUME TInv, NEW c \in Registrar, CheckSession(c)
    PROVE  Settles(c)
<1> DEFINE j == registrar[c]
           w == Revalidated(j.who, j.of)
           days == IF j.scheduled THEN weekly.days ELSE {j.day}
           row == SessionRow(w, j.day, j.scheduled)
           keys == KeyShares({w.teacher, w.source} \cup (IF w.onLeave THEN {j.teacher} ELSE {}))
           job == [op |-> "session", at |-> "insert", row |-> row, need |-> keys]
<1>1. j.op = "session" /\ j.at = "check" /\ j.need = <<>>
  BY DEF CheckSession, Ready
<1>2. CASE Refuse(c)
  BY <1>2, Refusing DEF Refuse, TInv, Settles
<1>3. CASE ~Refuse(c)
  <2>1. Resolves(j.of, j.teacher, days) /\ StillActs(j.who, j.day) /\ Proceed(c, job)
    BY <1>3 DEF CheckSession
  <2>2. j \in CheckJob
    BY <1>1, JobFields DEF TInv, Types
  <2>3. /\ j.of \in Assignment /\ j.teacher \in Teacher /\ j.day \in Day /\ j.who \in Who
        /\ j.who.of \in Assignment /\ j.scheduled \in BOOLEAN
    BY <2>2 DEF CheckJob, Who
  <2>4. /\ Made(j.of) /\ Acted(j.who, j.of)
        /\ TheAssignment(j.of) \in held[c] /\ TheAssignment(j.who.of) \in held[c]
        /\ j.scheduled => j.day \in weekly.days
    BY <1>1, AcademicLocks DEF TInv, Part, SessionPart, Claimed
  <2>5. w \in Who
    BY <2>3, <2>4, RevalidatedIs DEF TInv
  <2>6. j.day \in days
    BY <2>4
  <2>7. keys \in Needs
    <3>1. w.teacher \in Teacher /\ w.source \in Teacher \cup {Nobody} /\ w.onLeave \in BOOLEAN
      BY <2>5 DEF Who
    <3> HIDE DEF w
    <3>2. KeyShares((IF FALSE THEN {} ELSE {w.teacher, w.source})
                    \cup (IF w.onLeave THEN {j.teacher} ELSE {})) \in Needs
      BY <2>3, <3>1, SessionKeys
    <3> QED
      BY <3>2
  <2> HIDE DEF w, keys, days
  <2>8. /\ row \in LessonRow /\ row.day = j.day /\ row.teacher = w.teacher /\ row.of = w.of
        /\ row.source = w.source /\ row.sourceOf = w.sourceOf /\ row.excused = w.onLeave
    BY <2>3, <2>5 DEF LessonRow, SessionRow, Who
  <2> HIDE DEF row
  <2>9. /\ Fits(row) /\ Refers(row) \subseteq {j.of, j.who.of} /\ FormalTeacher(row) = j.teacher
        /\ WhoAgrees(j.who, j.teacher, j.day) => Agrees(row)
    BY <2>1, <2>3, <2>4, <2>6, <2>8, ActingRow DEF TInv, w
  <2>10. /\ job \in InsertJob /\ job.op = "session" /\ job.at = "insert" /\ job.row = row
    BY <2>7, <2>8 DEF InsertJob
  <2>11. job \in Task
    BY <2>10 DEF Task
  <2> HIDE DEF job
  <2>12. Quiet(c) /\ registrar'[c] = job /\ held' = held
    BY <2>1, <2>10, <2>11, Proceeds DEF TInv
  <2>13. assignment' = assignment /\ leave' = leave
    BY <2>12 DEF Quiet, recordVars
  <2>14. \A r : (Fits(r) => Fits(r)') /\ (Agrees(r) => Agrees(r)')
    BY <2>13 DEF Fits, Made, Paired, Agrees, OnLeave
  <2>15. Part(c)'
    BY <2>4, <2>9, <2>10, <2>12, <2>14
       DEF Part, PlanPart, WeeklyPart, SessionPart, MovePart, LeavePart, Refers
  <2>16. ASSUME Days PROVE DayPart(c)'
    <3>1. DayOf(j.teacher, j.day) \in held[c] /\ WhoAgrees(j.who, j.teacher, j.day)
      BY <1>1, <2>16 DEF Days, DayPart
    <3> QED
      BY <2>8, <2>9, <2>10, <2>12, <2>14, <3>1 DEF DayPart, DaysHeld, FormalTeacher
  <2> QED
    BY <2>12, <2>15, <2>16 DEF Settles
<1> QED
  BY <1>2, <1>3

\* A session that is left alone is the same row.
LEMMA SessionStays ==
    ASSUME NEW r \in LessonRow
    PROVE  SameRow(r, r)
BY DEF LessonRow, SameRow

\* A session of a request that holds what the row refers to.
LEMMA PutKeeps ==
    ASSUME TInv, NEW c \in Registrar, NEW s \in Lesson, NEW row \in LessonRow, Put(s, row),
           Ends(c), UNCHANGED <<year, semester, assignment, weekly, leave>>,
           Fits(row), \A a \in Refers(row) : TheAssignment(a) \in held[c],
           session[s].is = "none" \/ TheSession(s) \in held[c]
    PROVE  /\ TInv' /\ Guarantee(c) /\ \A x \in Lesson : x # s => session'[x] = session[x]
           /\ session'[s] \in {session[s], row}
<1>1. /\ session' \in [Lesson -> {Absent} \cup LessonRow]
      /\ \A x \in Lesson : x # s => session'[x] = session[x]
      /\ session'[s] \in {session[s], row}
  BY DEF Put, TInv, Types
<1>2. row.is # "none"
  BY DEF LessonRow
<1>3. PeriodsNest'
  BY DEF TInv, PeriodsNest, Made
<1>4. Placed'
  <2>1. \A r : (Fits(r) => Fits(r)') /\ (WeeklyFits(r) => WeeklyFits(r)')
    BY DEF Fits, WeeklyFits, Made, Paired
  <2>2. \A x \in Lesson : session'[x].is # "none" => Fits(session'[x])
    BY <1>1 DEF TInv, Placed
  <2>3. \A x \in Lesson : session'[x].is # "none" => Fits(session[x])'
    BY <2>2 DEF Fits, Made, Paired
  <2>4. weekly'.is # "none" => WeeklyFits(weekly)'
    BY <2>1 DEF TInv, Placed, WeeklyFits, Made
  <2> QED
    BY <2>3, <2>4 DEF Placed
<1>5. Guarantee(c)
  <2>1. Others(c) /\ Entry(c)
    BY Ending DEF TInv
  <2>2. \A x \in Lesson : session[x].is # "none" =>
          /\ session'[x].is # "none"
          /\ SameRow(session'[x], session[x]) \/ TheSession(x) \in held[c]
    BY <1>1, <1>2, SessionRows, SessionStays DEF TInv
  <2>3. \A a \in Assignment : Made(a)' <=> Made(a)
    BY DEF Made
  <2>4. \A a \in Assignment : InUse(a)' => InUse(a) \/ TheAssignment(a) \in held[c]
    <3> SUFFICES ASSUME NEW a \in Assignment, InUse(a)', ~InUse(a)
                 PROVE  TheAssignment(a) \in held[c]
      OBVIOUS
    <3>1. PICK x \in Lesson : session'[x].is # "none"
                              /\ a \in {session'[x].of, session'[x].sourceOf}
      BY DEF InUse
    <3>2. session'[x] = row
      BY <1>1, <3>1 DEF InUse
    <3>3. a \in Refers(row)
      BY <3>1, <3>2, Ids DEF Refers
    <3> QED
      BY <3>3
  <2> QED
    BY <2>1, <2>2, <2>3, <2>4 DEF Guarantee
<1>6. TInv'
  BY <1>1, <1>3, <1>4, <1>5, WriteKeeps DEF TInv, Types
<1> QED
  BY <1>1, <1>5, <1>6

LEMMA InsertSessionKeeps ==
    ASSUME TInv, NEW c \in Registrar, InsertSession(c)
    PROVE  /\ TInv' /\ Guarantee(c) /\ Ends(c) /\ leave' = leave
           /\ \E s \in Lesson : /\ session[s].is = "none"
                                /\ \A x \in Lesson : x # s => session'[x] = session[x]
                                /\ session'[s] \in {session[s], registrar[c].row}
<1> DEFINE j == registrar[c]
<1>1. /\ j.op = "session" /\ j.at = "insert" /\ Ends(c)
      /\ UNCHANGED <<year, semester, assignment, weekly, leave>>
  BY DEF InsertSession, Ready, academicVars
<1>2. PICK s \in Lesson : session[s] = Absent /\ Put(s, j.row)
  BY DEF InsertSession
<1>3. j.row \in LessonRow
  BY <1>1, JobFields DEF TInv, Types, InsertJob
<1>4. Fits(j.row) /\ \A a \in Refers(j.row) : TheAssignment(a) \in held[c]
  BY <1>1 DEF TInv, Part, SessionPart
<1>5. session[s].is = "none"
  BY <1>2 DEF Absent
<1> HIDE DEF j
<1>6. /\ TInv' /\ Guarantee(c) /\ \A x \in Lesson : x # s => session'[x] = session[x]
      /\ session'[s] \in {session[s], j.row}
  BY <1>1, <1>2, <1>3, <1>4, <1>5, PutKeeps
<1> QED
  BY <1>1, <1>5, <1>6 DEF j

-----------------------------------------------------------------------------
(* Sessions that move to another day.                                        *)

LEMMA FormalIs ==
    ASSUME NEW r \in LessonRow, Paired(r)
    PROVE  FormalTeacher(r) \in Teacher /\ FormalAssignment(r) \in Assignment
BY DEF LessonRow, Paired, FormalTeacher, FormalAssignment

\* A row that is as it was read refers to the same assignments.
LEMMA AsReadSame ==
    ASSUME Types, NEW s \in Lesson, session[s].is # "none", NEW saw \in LessonRow, AsRead(s, saw)
    PROVE  SameRow(session[s], saw)
BY SessionRows DEF AsRead, SameRow, LessonRow

LEMMA AskRescheduleKeeps ==
    ASSUME TInv, NEW c \in Registrar, NEW s \in Lesson, NEW d \in Day, AskReschedule(c, s, d)
    PROVE  Settles(c)
<1> DEFINE r == session[s]
           t == FormalTeacher(r)
           q == LeaveDates(t, {r.day, d})
           job == [op |-> "reschedule", at |-> "discover", id |-> s, day |-> d, saw |-> r,
                   need |-> q]
<1>1. Comes(c) /\ Start(c, job) /\ r # Absent
  BY DEF AskReschedule
<1>2. r \in LessonRow /\ r.is # "none" /\ r.day \in Day
  BY <1>1 DEF TInv, Types, LessonRow
<1>3. Fits(r)
  BY <1>2 DEF TInv, Placed
<1>4. /\ Paired(r) /\ t \in Teacher /\ FormalAssignment(r) \in Assignment
      /\ Made(FormalAssignment(r))
  <2>1. Paired(r) /\ Made(FormalAssignment(r))
    BY <1>3 DEF Fits, FormalAssignment
  <2> QED
    BY <1>2, <2>1, FormalIs
<1>5. q \in Needs /\ {DayOf(t, r.day), DayOf(t, d)} \subseteq Elements(q)
  <2>1. IsFiniteSet({r.day, d}) /\ {r.day, d} \in SUBSET Day
    BY <1>2, FinitePair
  <2> HIDE DEF r, t
  <2>2. q \in Needs /\ Elements(q) = {DayOf(t, x) : x \in {r.day, d}}
    BY <1>4, <2>1, LeaveDateLocks
  <2> QED
    BY <2>2
<1> HIDE DEF r, t, q
<1>6. /\ job \in MoveJob /\ job.op = "reschedule" /\ job.at = "discover" /\ job.id = s
      /\ job.day = d /\ job.saw = r /\ job.need = q
  BY <1>2, <1>5 DEF MoveJob
<1>7. job \in Task
  BY <1>6 DEF Task
<1> HIDE DEF job
<1>8. Quiet(c) /\ registrar'[c] = job /\ held' = held
  BY <1>1, <1>6, <1>7, Starts DEF TInv
<1>9. session' = session /\ \A a : Made(a)' <=> Made(a)
  BY <1>8 DEF Quiet, recordVars, Made
<1>10. Part(c)'
  BY <1>2, <1>4, <1>6, <1>8, <1>9
     DEF Part, PlanPart, WeeklyPart, SessionPart, MovePart, LeavePart, FormalAssignment, Paired, r
<1>11. DayPart(c)'
  <2>1. Elements(q) \subseteq Claimed(c)'
    BY <1>6, <1>8 DEF Claimed
  <2> QED
    BY <1>5, <1>6, <1>8, <1>9, <2>1 DEF DayPart, FormalAssignment, FormalTeacher, r, t
<1> QED
  BY <1>8, <1>10, <1>11 DEF Settles

LEMMA DiscoverRescheduledKeeps ==
    ASSUME TInv, NEW c \in Registrar, DiscoverRescheduled(c)
    PROVE  Settles(c)
<1> DEFINE j == registrar[c]
           a == FormalAssignment(j.saw)
           t == FormalTeacher(j.saw)
<1>1. j.op = "reschedule" /\ j.at = "discover" /\ j.need = <<>>
  BY DEF DiscoverRescheduled, Ready
<1>2. CASE Refuse(c)
  BY <1>2, Refusing DEF Refuse, TInv, Settles
<1>3. ASSUME NEW who \in Acting(a, assignment[a].teacher, j.day),
             Proceed(c, [op |-> "reschedule", at |-> "check", id |-> j.id,
                         day |-> j.day, saw |-> j.saw, who |-> who,
                         need |-> MutationRows({}, {a, who.of}, {j.id})])
      PROVE  Settles(c)
  <2> DEFINE need == MutationRows({}, {a, who.of}, {j.id})
             job == [op |-> "reschedule", at |-> "check", id |-> j.id, day |-> j.day,
                     saw |-> j.saw, who |-> who, need |-> need]
  <2>1. j \in MoveJob
    BY <1>1, JobFields DEF TInv, Types
  <2>2. j.id \in Lesson /\ j.day \in Day /\ j.saw \in LessonRow
    BY <2>1 DEF MoveJob
  <2>3. session[j.id].is # "none" /\ Paired(j.saw) /\ Made(a)
    BY <1>1 DEF TInv, Part, MovePart
  <2>4. a \in Assignment /\ t \in Teacher
    BY <2>2, <2>3, FormalIs
  <2>5. assignment[a].teacher \in Teacher
    BY <2>3, <2>4, AssignmentRows DEF TInv, CourseRow
  <2>6. who \in Who /\ Acted(who, a) /\ WhoAgrees(who, assignment[a].teacher, j.day)
        /\ who.of \in Assignment
    BY <1>3, <2>4, <2>5, ActingIs DEF TInv, Types, Who
  <2>7. /\ need \in Needs /\ TheAssignment(a) \in Elements(need)
        /\ TheAssignment(who.of) \in Elements(need) /\ TheSession(j.id) \in Elements(need)
    <3>1. IsFiniteSet({}) /\ IsFiniteSet({a, who.of})
      BY FS_EmptySet, FinitePair
    <3>2. {a, who.of} \in SUBSET Assignment /\ {j.id} \in SUBSET Lesson
      BY <2>2, <2>4, <2>6
    <3> HIDE DEF a, j
    <3> QED
      BY <3>1, <3>2, MutationLocks
  <2> HIDE DEF need
  <2>8. /\ job \in MoveCheckJob /\ job.op = "reschedule" /\ job.at = "check" /\ job.id = j.id
        /\ job.day = j.day /\ job.saw = j.saw /\ job.who = who /\ job.need = need
    BY <2>2, <2>6, <2>7 DEF MoveCheckJob
  <2>9. job \in Task
    BY <2>8 DEF Task
  <2>10. Proceed(c, job)
    BY <1>3 DEF need
  <2> HIDE DEF job
  <2>11. Quiet(c) /\ registrar'[c] = job /\ held' = held
    BY <2>8, <2>9, <2>10, Proceeds DEF TInv
  <2>12. /\ session' = session /\ leave' = leave /\ assignment' = assignment
         /\ \A b : Made(b)' <=> Made(b)
         /\ \A b : Acted(who, b)' <=> Acted(who, b)
         /\ \A u, d : WhoAgrees(who, u, d)' <=> WhoAgrees(who, u, d)
    BY <2>11 DEF Quiet, recordVars, Made, Acted, Paired, WhoAgrees, OnLeave
  <2>13. Elements(need) \subseteq Claimed(c)' /\ held'[c] = held[c] /\ held[c] \subseteq Claimed(c)'
    BY <2>8, <2>11 DEF Claimed
  <2>14. Part(c)'
    BY <2>3, <2>6, <2>7, <2>8, <2>11, <2>12, <2>13
       DEF Part, PlanPart, WeeklyPart, SessionPart, MovePart, LeavePart, FormalAssignment, Paired
  <2>15. ASSUME Days PROVE DayPart(c)'
    <3>1. /\ FormalAssignment(session[j.id]) = a /\ FormalTeacher(session[j.id]) = t
          /\ {DayOf(t, j.saw.day), DayOf(t, j.day)} \subseteq held[c]
      BY <1>1, <2>15, AcademicLocks DEF Days, DayPart, Claimed
    <3>2. t = assignment[a].teacher
      <4>1. Fits(session[j.id])
        BY <2>2, <2>3 DEF TInv, Placed
      <4> QED
        BY <3>1, <4>1 DEF Fits, FormalTeacher, FormalAssignment
    <3>3. WhoAgrees(who, t, j.day)
      BY <2>6, <3>2
    <3> QED
      BY <2>8, <2>11, <2>12, <2>13, <3>1, <3>3 DEF DayPart, FormalTeacher, FormalAssignment
  <2> QED
    BY <2>11, <2>14, <2>15 DEF Settles
<1> QED
  BY <1>2, <1>3 DEF DiscoverRescheduled

LEMMA CheckRescheduledKeeps ==
    ASSUME TInv, NEW c \in Registrar, CheckRescheduled(c)
    PROVE  Settles(c)
<1> DEFINE j == registrar[c]
           a == FormalAssignment(j.saw)
           t == FormalTeacher(j.saw)
           w == Revalidated(j.who, a)
           row == Rescheduled(session[j.id], w, j.day)
           keys == KeyShares((IF w.teacher = j.saw.teacher THEN {} ELSE {w.teacher, w.source})
                             \cup (IF w.onLeave THEN {t} ELSE {}))
           job == [op |-> "reschedule", at |-> "write", id |-> j.id, row |-> row, need |-> keys]
<1>1. j.op = "reschedule" /\ j.at = "check" /\ j.need = <<>>
  BY DEF CheckRescheduled, Ready
<1>2. CASE Refuse(c)
  BY <1>2, Refusing DEF Refuse, TInv, Settles
<1>3. CASE ~Refuse(c)
  <2>1. /\ AsRead(j.id, j.saw) /\ Resolves(a, t, {j.day}) /\ StillActs(j.who, j.day)
        /\ Proceed(c, job)
    BY <1>3 DEF CheckRescheduled
  <2>2. j \in MoveCheckJob
    BY <1>1, JobFields DEF TInv, Types
  <2>3. /\ j.id \in Lesson /\ j.day \in Day /\ j.saw \in LessonRow /\ j.who \in Who
        /\ j.who.of \in Assignment
    BY <2>2 DEF MoveCheckJob, Who
  <2>4. /\ session[j.id].is # "none" /\ Paired(j.saw) /\ Made(a) /\ Acted(j.who, a)
        /\ TheAssignment(a) \in held[c] /\ TheAssignment(j.who.of) \in held[c]
        /\ TheSession(j.id) \in held[c]
    BY <1>1, AcademicLocks DEF TInv, Part, MovePart, Claimed
  <2>5. a \in Assignment /\ t \in Teacher
    BY <2>3, <2>4, FormalIs
  <2>6. w \in Who
    BY <2>3, <2>4, <2>5, RevalidatedIs DEF TInv
  <2>7. keys \in Needs
    <3>1. w.teacher \in Teacher /\ w.source \in Teacher \cup {Nobody} /\ w.onLeave \in BOOLEAN
          /\ (w.teacher = j.saw.teacher) \in BOOLEAN
      BY <2>6 DEF Who
    <3> HIDE DEF w, t, j
    <3> QED
      BY <2>5, <3>1, SessionKeys
  <2>8. SameRow(session[j.id], j.saw) /\ session[j.id] \in LessonRow
    BY <2>1, <2>3, <2>4, AsReadSame, SessionRows DEF TInv
  <2> HIDE DEF w, keys
  <2>9. /\ row \in LessonRow /\ row.day = j.day /\ row.teacher = w.teacher /\ row.of = w.of
        /\ row.source = w.source /\ row.sourceOf = w.sourceOf /\ (w.onLeave => row.excused)
    <3> DEFINE old == session[j.id]
               base == SessionRow(w, j.day, old.scheduled)
               kept == w.onLeave \/ (old.excused /\ old.source = Nobody)
    <3>1. kept \in BOOLEAN /\ (w.onLeave => kept)
      OBVIOUS
    <3>2. /\ base \in LessonRow /\ base.day = j.day /\ base.teacher = w.teacher /\ base.of = w.of
          /\ base.source = w.source /\ base.sourceOf = w.sourceOf
      BY <2>3, <2>6, <2>8 DEF SessionRow, LessonRow, Who
    <3>3. row = [base EXCEPT !.excused = kept]
      BY DEF Rescheduled
    <3> HIDE DEF base, kept, row
    <3> QED
      BY <3>1, <3>2, <3>3 DEF LessonRow
  <2> HIDE DEF row
  <2>10. /\ Fits(row) /\ Refers(row) \subseteq {a, j.who.of}
         /\ FormalTeacher(row) = t /\ FormalAssignment(row) = a
         /\ WhoAgrees(j.who, t, j.day) => Agrees(row)
    <3> HIDE DEF a, t
    <3> QED
      BY <2>1, <2>3, <2>4, <2>5, <2>9, ActingRow DEF TInv, w
  <2>11. /\ job \in MoveWriteJob /\ job.op = "reschedule" /\ job.at = "write" /\ job.id = j.id
         /\ job.row = row
    BY <2>3, <2>7, <2>9 DEF MoveWriteJob
  <2>12. job \in Task
    BY <2>11 DEF Task
  <2> HIDE DEF job
  <2>13. Quiet(c) /\ registrar'[c] = job /\ held' = held
    BY <2>1, <2>11, <2>12, Proceeds DEF TInv
  <2>14. assignment' = assignment /\ leave' = leave /\ session' = session
    BY <2>13 DEF Quiet, recordVars
  <2>15. \A r : (Fits(r) => Fits(r)') /\ (Agrees(r) => Agrees(r)')
    BY <2>14 DEF Fits, Made, Paired, Agrees, OnLeave
  <2>16. Part(c)'
    BY <2>4, <2>10, <2>11, <2>13, <2>14, <2>15
       DEF Part, PlanPart, WeeklyPart, SessionPart, MovePart, LeavePart, Refers
  <2>17. ASSUME Days PROVE DayPart(c)'
    <3>1. /\ FormalAssignment(session[j.id]) = a /\ FormalTeacher(session[j.id]) = t
          /\ {DayOf(t, j.saw.day), DayOf(t, j.day)} \subseteq held[c]
          /\ WhoAgrees(j.who, t, j.day)
      BY <1>1, <2>17 DEF Days, DayPart
    <3>2. session[j.id].day = j.saw.day
      BY <2>8 DEF SameRow
    <3>3. DaysHeld(c, row) /\ DaysHeld(c, session[j.id]) /\ Agrees(row)
      BY <2>9, <2>10, <3>1, <3>2 DEF DaysHeld
    <3> HIDE DEF j, a, t
    <3> QED
      BY <2>10, <2>11, <2>13, <2>14, <2>15, <3>1, <3>3
         DEF DayPart, DaysHeld, FormalTeacher, FormalAssignment
  <2> QED
    BY <2>13, <2>16, <2>17 DEF Settles
<1> QED
  BY <1>2, <1>3

LEMMA WriteRescheduledKeeps ==
    ASSUME TInv, NEW c \in Registrar, WriteRescheduled(c)
    PROVE  LET j == registrar[c] IN
           /\ TInv' /\ Guarantee(c) /\ Ends(c) /\ leave' = leave
           /\ j.op = "reschedule" /\ j.at = "write" /\ j.id \in Lesson
           /\ session[j.id].is # "none"
           /\ \A x \in Lesson : x # j.id => session'[x] = session[x]
           /\ session'[j.id] \in {session[j.id], j.row}
<1> DEFINE j == registrar[c]
<1>1. /\ j.op = "reschedule" /\ j.at = "write" /\ Ends(c) /\ Put(j.id, j.row)
      /\ UNCHANGED <<year, semester, assignment, weekly, leave>>
  BY DEF WriteRescheduled, Ready, academicVars
<1>2. j.row \in LessonRow /\ j.id \in Lesson
  BY <1>1, JobFields DEF TInv, Types, MoveWriteJob
<1>3. /\ Fits(j.row) /\ \A a \in Refers(j.row) : TheAssignment(a) \in held[c]
      /\ TheSession(j.id) \in held[c] /\ session[j.id].is # "none"
  BY <1>1 DEF TInv, Part, MovePart
<1> HIDE DEF j
<1>4. /\ TInv' /\ Guarantee(c) /\ \A x \in Lesson : x # j.id => session'[x] = session[x]
      /\ session'[j.id] \in {session[j.id], j.row}
  BY <1>1, <1>2, <1>3, PutKeeps
<1> QED
  BY <1>1, <1>2, <1>3, <1>4 DEF j

-----------------------------------------------------------------------------
(* The leave.                                                                *)

\* Finitely many sessions refer to finitely many assignments.
LEMMA FiniteImage ==
    ASSUME NEW L \in SUBSET Lesson, NEW S, NEW f \in [L -> S]
    PROVE  IsFiniteSet({f[s] : s \in L})
<1> DEFINE T == {f[s] : s \in L}
<1>1. f \in Surjection(L, T)
  BY DEF Surjection
<1>2. IsFiniteSet(L)
  BY Ids
<1> HIDE DEF T
<1>3. IsFiniteSet(T)
  BY <1>1, <1>2, FS_Surjection
<1> QED
  BY <1>3 DEF T

LEMMA ListedSessions ==
    ASSUME Types
    PROVE  /\ LeaveSessions \in SUBSET Lesson
           /\ \A s \in LeaveSessions : session[s].is # "none" /\ OfLeave(session[s])
           /\ [s \in LeaveSessions |-> session[s]] \in Lists
<1>1. LeaveSessions \in SUBSET Lesson
  BY DEF LeaveSessions
<1>2. \A s \in LeaveSessions : session[s].is # "none" /\ OfLeave(session[s])
  BY DEF LeaveSessions, OfLeave
<1>3. \A s \in LeaveSessions : session[s] \in LessonRow
  BY <1>1, <1>2, SessionRows
<1>4. [s \in LeaveSessions |-> session[s]] \in [LeaveSessions -> LessonRow]
  BY <1>3
<1> QED
  BY <1>1, <1>2, <1>4 DEF Lists

LEMMA OneSub ==
    ASSUME NEW sub \in Sub
    PROVE  /\ Sorted("user", {sub} \ {Nobody}) \in Needs
           /\ sub # Nobody => sub \in Teacher /\ sub # Applicant
<1>1. IsFiniteSet({sub} \ {Nobody}) /\ {sub} \ {Nobody} \in SUBSET Teacher
  BY FS_Singleton, FS_Difference DEF Sub
<1>2. \A i \in {sub} \ {Nobody} : <<"user", i, "update">> \in Lock
  BY <1>1, RowLocks
<1>3. {sub} \ {Nobody} \in SUBSET Nat
  BY <1>1, Ids
<1>4. Sorted("user", {sub} \ {Nobody}) \in Needs
  BY <1>1, <1>2, <1>3, SortedLocks
<1> QED
  BY <1>4 DEF Sub

LEMMA ApplicantKey ==
    ASSUME NEW p \in BOOLEAN
    PROVE  KeyShares(IF p THEN {} ELSE {Applicant}) \in Needs
<1> DEFINE S == IF p THEN {} ELSE {Applicant}
<1>1. IsFiniteSet(S) /\ S \in SUBSET (Teacher \cup {Nobody})
  BY FS_EmptySet, FS_Singleton, Ids
<1> HIDE DEF S
<1>2. KeyShares(S) \in Needs
  BY <1>1, KeyShareLocks
<1> QED
  BY <1>2 DEF S

LEMMA LeaveAsks ==
    ASSUME TInv, NEW c \in Registrar
    PROVE  /\ \A sub \in Sub : AskApproval(c, sub) => Settles(c)
           /\ AskRevocation(c) => Settles(c)
<1>1. LeaveRow = <<TheLeave>> /\ LeaveRow \in Needs /\ Elements(LeaveRow) = {TheLeave}
  BY AcademicLocks, RowLocks DEF LeaveRow, TheLeave
<1>2. ASSUME NEW sub \in Sub, AskApproval(c, sub) PROVE Settles(c)
  <2> DEFINE job == [op |-> "approve", at |-> "pending", sub |-> sub, need |-> LeaveRow]
  <2>1. Comes(c) /\ Start(c, job)
    BY <1>2 DEF AskApproval
  <2>2. job \in ApproveJob /\ job.op = "approve" /\ job.at = "pending" /\ job.need = LeaveRow
    BY <1>1 DEF ApproveJob
  <2>3. job \in Task
    BY <2>2 DEF Task
  <2> HIDE DEF job
  <2>4. Quiet(c) /\ registrar'[c] = job /\ held' = held
    BY <2>1, <2>2, <2>3, Starts DEF TInv
  <2>5. Part(c)'
    BY <2>2, <2>4 DEF Part, PlanPart, WeeklyPart, SessionPart, MovePart, LeavePart
  <2>6. DayPart(c)'
    BY <1>1, <2>2, <2>4 DEF DayPart, Claimed
  <2> QED
    BY <2>4, <2>5, <2>6 DEF Settles
<1>3. ASSUME AskRevocation(c) PROVE Settles(c)
  <2> DEFINE q == LeaveDates(Applicant, {LeaveDay})
             job == [op |-> "revoke", at |-> "approved", need |-> LeaveRow \o q]
  <2>1. Comes(c) /\ Start(c, job)
    BY <1>3 DEF AskRevocation
  <2>2. q \in Needs /\ Elements(q) = {TheDay}
    BY OneDay, Ids DEF TheDay
  <2> HIDE DEF q
  <2>3. LeaveRow \o q \in Needs /\ Elements(LeaveRow \o q) = {TheLeave, TheDay}
    BY <1>1, <2>2, JoinedLocks
  <2>4. job \in RevokeJob /\ job.op = "revoke" /\ job.at = "approved" /\ job.need = LeaveRow \o q
    BY <2>3 DEF RevokeJob
  <2>5. job \in Task
    BY <2>4 DEF Task
  <2> HIDE DEF job
  <2>6. Quiet(c) /\ registrar'[c] = job /\ held' = held
    BY <2>1, <2>4, <2>5, Starts DEF TInv
  <2>7. Part(c)'
    BY <2>4, <2>6 DEF Part, PlanPart, WeeklyPart, SessionPart, MovePart, LeavePart
  <2>8. DayPart(c)'
    BY <2>3, <2>4, <2>6 DEF DayPart, Claimed, TheDay
  <2> QED
    BY <2>6, <2>7, <2>8 DEF Settles
<1> QED
  BY <1>2, <1>3

LEMMA ReadPendingKeeps ==
    ASSUME TInv, NEW c \in Registrar, ReadPending(c)
    PROVE  Settles(c)
<1> DEFINE j == registrar[c]
           q == LeaveDates(Applicant, {LeaveDay})
           u == Sorted("user", {j.sub} \ {Nobody})
           job == [op |-> "approve", at |-> "list", sub |-> j.sub, need |-> q \o u]
<1>1. j.op = "approve" /\ j.at = "pending" /\ j.need = <<>>
  BY DEF ReadPending, Ready
<1>2. CASE leave.is # "pending"
  BY <1>2, Refusing DEF ReadPending, Refuse, TInv, Settles
<1>3. CASE leave.is = "pending"
  <2>1. Proceed(c, job)
    BY <1>3 DEF ReadPending
  <2>2. j.sub \in Sub
    BY <1>1, JobFields DEF TInv, Types, ApproveJob
  <2>3. q \in Needs /\ Elements(q) = {TheDay}
    BY OneDay, Ids DEF TheDay
  <2>4. u \in Needs
    BY <2>2, OneSub
  <2> HIDE DEF q, u
  <2>5. q \o u \in Needs /\ TheDay \in Elements(q \o u)
    BY <2>3, <2>4, JoinedLocks
  <2>6. job \in ApproveJob /\ job.op = "approve" /\ job.at = "list" /\ job.need = q \o u
    BY <2>2, <2>5 DEF ApproveJob
  <2>7. job \in Task
    BY <2>6 DEF Task
  <2> HIDE DEF job
  <2>8. Quiet(c) /\ registrar'[c] = job /\ held' = held
    BY <2>1, <2>6, <2>7, Proceeds DEF TInv
  <2>9. leave' = leave
    BY <2>8 DEF Quiet, recordVars
  <2>10. Part(c)'
    BY <2>6, <2>8 DEF Part, PlanPart, WeeklyPart, SessionPart, MovePart, LeavePart
  <2>11. ASSUME Days PROVE DayPart(c)'
    <3>1. TheLeave \in held[c]
      BY <1>1, <2>11, AcademicLocks DEF Days, DayPart, Claimed
    <3> QED
      BY <1>3, <2>5, <2>6, <2>8, <2>9, <3>1 DEF DayPart, Claimed, TheDay
  <2> QED
    BY <2>8, <2>10, <2>11 DEF Settles
<1> QED
  BY <1>2, <1>3

LEMMA ListSessionsKeeps ==
    ASSUME TInv, NEW c \in Registrar, ListSessions(c)
    PROVE  Settles(c)
<1> DEFINE sub == registrar[c].sub
           stand == {a \in Assignment : StandsIn(a, sub, LeaveDay)}
           listed == LeaveSessions
           swaps == sub # Nobody /\ listed # {}
           by == IF swaps /\ stand # {} THEN Least(stand) ELSE Nobody
           rows == {by} \cup {FormalAssignment(session[s]) : s \in listed}
           need == IF swaps THEN MutationRows({}, rows, listed) ELSE <<>>
           job == [op |-> "approve", at |-> "check", sub |-> sub, by |-> by,
                   saw |-> [s \in listed |-> session[s]], need |-> need]
<1>1. registrar[c].op = "approve" /\ registrar[c].at = "list" /\ registrar[c].need = <<>>
  BY DEF ListSessions, Ready
<1>2. CASE swaps /\ stand = {}
  BY <1>2, Refusing DEF ListSessions, Refuse, TInv, Settles
<1>3. CASE ~(swaps /\ stand = {})
  <2>1. Proceed(c, job)
    BY <1>3 DEF ListSessions
  <2>2. sub \in Sub
    BY <1>1, JobFields DEF TInv, Types, ApproveJob
  <2>3. /\ listed \in SUBSET Lesson /\ [s \in listed |-> session[s]] \in Lists
        /\ \A s \in listed : session[s].is # "none" /\ OfLeave(session[s])
    BY ListedSessions DEF TInv
  <2>4. ASSUME swaps PROVE by \in stand
    <3>1. stand # {} /\ stand \in SUBSET Nat
      BY <1>3, <2>4, Ids
    <3> QED
      BY <2>4, <3>1, HasLeast
  <2>5. by \in Assignment \cup {Nobody} /\ (swaps => by \in Assignment /\ Made(by))
    BY <2>4 DEF StandsIn, Made
  <2>6. \A s \in listed : FormalAssignment(session[s]) \in Assignment
    BY <2>3, SessionRows, FormalIs DEF TInv, Placed, Fits
  <2>7. /\ need \in Needs
        /\ swaps => /\ TheAssignment(by) \in Elements(need)
                    /\ \A s \in listed : TheSession(s) \in Elements(need)
    <3>1. CASE swaps
      <4> DEFINE f == [s \in listed |-> FormalAssignment(session[s])]
      <4>1. f \in [listed -> Assignment] /\ {f[s] : s \in listed} =
              {FormalAssignment(session[s]) : s \in listed}
        BY <2>6
      <4>2. IsFiniteSet({FormalAssignment(session[s]) : s \in listed})
        <5> HIDE DEF f
        <5>1. IsFiniteSet({f[s] : s \in listed})
          BY <2>3, <4>1, FiniteImage
        <5> QED
          BY <4>1, <5>1
      <4>3. rows \in SUBSET Assignment /\ IsFiniteSet(rows) /\ by \in rows
        <5>1. IsFiniteSet({by})
          BY FS_Singleton
        <5>2. IsFiniteSet(rows)
          BY <4>2, <5>1, FS_Union
        <5> QED
          BY <2>5, <2>6, <3>1, <5>2
      <4>4. IsFiniteSet({})
        BY FS_EmptySet
      <4>5. need = MutationRows({}, rows, listed)
        BY <3>1
      <4> HIDE DEF rows, need, listed, by
      <4> QED
        BY <2>3, <4>3, <4>4, <4>5, MutationLocks
    <3>2. CASE ~swaps
      BY <3>2, AcademicLocks
    <3> QED
      BY <3>1, <3>2
  <2> HIDE DEF need, by
  <2>8. /\ job \in ApproveListJob /\ job.op = "approve" /\ job.at = "check" /\ job.sub = sub
        /\ job.by = by /\ job.need = need /\ DOMAIN job.saw = listed
        /\ \A s \in listed : job.saw[s] = session[s]
    BY <2>2, <2>3, <2>5, <2>7 DEF ApproveListJob
  <2>9. job \in Task
    BY <2>8 DEF Task
  <2>10. sub # Nobody /\ listed # {} => swaps
    OBVIOUS
  <2> HIDE DEF job, swaps
  <2>11. Quiet(c) /\ registrar'[c] = job /\ held' = held
    BY <2>1, <2>8, <2>9, Proceeds DEF TInv
  <2>12. session' = session /\ leave' = leave /\ LeaveSessions' = listed
         /\ \A a : Made(a)' <=> Made(a)
    BY <2>11 DEF Quiet, recordVars, LeaveSessions, Made
  <2> HIDE DEF listed
  <2>13. Part(c)'
    BY <2>3, <2>5, <2>7, <2>8, <2>10, <2>11, <2>12
       DEF Part, PlanPart, WeeklyPart, SessionPart, MovePart, LeavePart, Claimed, OfLeave
  <2>14. ASSUME Days PROVE DayPart(c)'
    <3>1. leave.is = "pending" /\ TheLeave \in held[c] /\ TheDay \in held[c]
      BY <1>1, <2>14, AcademicLocks DEF Days, DayPart, Claimed, TheDay
    <3> QED
      BY <2>8, <2>11, <2>12, <3>1 DEF DayPart, Claimed, TheDay
  <2> QED
    BY <2>11, <2>13, <2>14 DEF Settles
<1> QED
  BY <1>2, <1>3

LEMMA CheckApprovalKeeps ==
    ASSUME TInv, NEW c \in Registrar, CheckApproval(c)
    PROVE  Settles(c)
<1> DEFINE j == registrar[c]
           need == KeyShares(IF DOMAIN j.saw = {} THEN {} ELSE {Applicant})
           job == [j EXCEPT !.at = "write", !.need = need]
<1>1. j.op = "approve" /\ j.at = "check" /\ j.need = <<>>
  BY DEF CheckApproval, Ready
<1>2. CASE Refuse(c)
  BY <1>2, Refusing DEF Refuse, TInv, Settles
<1>3. CASE ~Refuse(c)
  <2>1. /\ Proceed(c, job)
        /\ \A s \in DOMAIN j.saw : j.sub # Nobody =>
             AsRead(s, j.saw[s]) /\ StandsIn(j.by, j.sub, LeaveDay)
    BY <1>3 DEF CheckApproval
  <2>2. j \in ApproveListJob
    BY <1>1, JobFields DEF TInv, Types
  <2>3. DOMAIN j.saw \subseteq Lesson /\ \A s \in DOMAIN j.saw : j.saw[s] \in LessonRow
    BY <2>2 DEF ApproveListJob, Lists
  <2>4. \A s \in DOMAIN j.saw :
          /\ session[s].is # "none" /\ OfLeave(j.saw[s])
          /\ j.sub # Nobody => /\ j.by \in Assignment /\ Made(j.by)
                               /\ TheAssignment(j.by) \in held[c] /\ TheSession(s) \in held[c]
                               /\ SameRow(session[s], j.saw[s])
    <3> SUFFICES ASSUME NEW s \in DOMAIN j.saw
                 PROVE  /\ session[s].is # "none" /\ OfLeave(j.saw[s])
                        /\ j.sub # Nobody =>
                             /\ j.by \in Assignment /\ Made(j.by)
                             /\ TheAssignment(j.by) \in held[c] /\ TheSession(s) \in held[c]
                             /\ SameRow(session[s], j.saw[s])
      OBVIOUS
    <3>1. /\ session[s].is # "none" /\ OfLeave(j.saw[s])
          /\ j.sub # Nobody => /\ j.by \in Assignment /\ Made(j.by)
                               /\ TheAssignment(j.by) \in held[c] /\ TheSession(s) \in held[c]
      BY <1>1, AcademicLocks DEF TInv, Part, LeavePart, Claimed
    <3>2. j.sub # Nobody => SameRow(session[s], j.saw[s])
      BY <2>1, <2>3, <3>1, AsReadSame DEF TInv
    <3> QED
      BY <3>1, <3>2
  <2>5. need \in Needs
    <3>1. (DOMAIN j.saw = {}) \in BOOLEAN
      OBVIOUS
    <3> QED
      BY <3>1, ApplicantKey
  <2> HIDE DEF need
  <2>6. /\ job \in ApproveListJob /\ job.op = "approve" /\ job.at = "write" /\ job.sub = j.sub
        /\ job.by = j.by /\ job.saw = j.saw
    BY <1>1, <2>2, <2>5 DEF ApproveListJob
  <2>7. job \in Task
    BY <2>6 DEF Task
  <2> HIDE DEF job
  <2>8. Quiet(c) /\ registrar'[c] = job /\ held' = held
    BY <2>1, <2>6, <2>7, Proceeds DEF TInv
  <2>9. /\ session' = session /\ leave' = leave /\ LeaveSessions' = LeaveSessions
        /\ \A a : Made(a)' <=> Made(a)
        /\ \A a, t, d : StandsIn(a, t, d)' <=> StandsIn(a, t, d)
    BY <2>8 DEF Quiet, recordVars, LeaveSessions, Made, StandsIn
  <2>10. Part(c)'
    BY <2>1, <2>4, <2>6, <2>8, <2>9
       DEF Part, PlanPart, WeeklyPart, SessionPart, MovePart, LeavePart, Claimed, OfLeave, SameRow
  <2>11. ASSUME Days PROVE DayPart(c)'
    <3>1. /\ leave.is = "pending" /\ TheLeave \in held[c] /\ TheDay \in held[c]
          /\ DOMAIN j.saw = LeaveSessions
      BY <1>1, <2>11 DEF Days, DayPart, TheDay
    <3> QED
      BY <2>6, <2>8, <2>9, <3>1 DEF DayPart, Claimed, TheDay
  <2> QED
    BY <2>8, <2>10, <2>11 DEF Settles
<1> QED
  BY <1>2, <1>3

\* The applicant's session on the leave's day, as its row has it.
LEMMA LeaveRows ==
    ASSUME Types, NEW r \in LessonRow, Fits(r), OfLeave(r)
    PROVE  LET a == FormalAssignment(r) IN
           /\ FormalTeacher(r) = Applicant /\ r.day = LeaveDay
           /\ a \in Assignment /\ Made(a) /\ assignment[a].teacher = Applicant
           /\ LeaveDay \in assignment[a].days
           /\ a \in {r.of, r.sourceOf}
<1>1. Applicant # Nobody
  BY Ids
<1>2. Paired(r)
  BY DEF Fits
<1>3. FormalAssignment(r) \in Assignment
  BY <1>2, FormalIs
<1> QED
  BY <1>1, <1>3 DEF Fits, OfLeave, FormalTeacher, FormalAssignment

\* The sessions in L have new rows, of a request that holds what they refer to.
LEMMA RowsKeep ==
    ASSUME TInv, NEW c \in Registrar, Ends(c), UNCHANGED <<year, semester, assignment, weekly>>,
           leave' \in [is : {"pending", "approved", "ended"}, sub : Sub],
           NEW L \in SUBSET Lesson, session' \in [Lesson -> {Absent} \cup LessonRow],
           \A s \in Lesson \ L : session'[s] = session[s],
           \A s \in L :
               /\ session[s].is # "none" /\ session'[s].is # "none" /\ Fits(session'[s])
               /\ SameRow(session'[s], session[s]) \/ TheSession(s) \in held[c]
               /\ \A a \in Assignment : a \in {session'[s].of, session'[s].sourceOf} =>
                     InUse(a) \/ TheAssignment(a) \in held[c]
    PROVE  TInv' /\ Guarantee(c)
<1>1. PeriodsNest'
  BY DEF TInv, PeriodsNest, Made
<1>2. Placed'
  <2>1. \A s \in Lesson : session'[s].is # "none" => Fits(session'[s])
    BY DEF TInv, Placed
  <2>2. \A s \in Lesson : session'[s].is # "none" => Fits(session[s])'
    BY <2>1 DEF Fits, Made, Paired
  <2>3. weekly'.is # "none" => WeeklyFits(weekly)'
    BY DEF TInv, Placed, WeeklyFits, Made
  <2> QED
    BY <2>2, <2>3 DEF Placed
<1>3. Guarantee(c)
  <2>1. Others(c) /\ Entry(c)
    BY Ending DEF TInv
  <2>2. \A s \in Lesson : session[s].is # "none" =>
          /\ session'[s].is # "none"
          /\ SameRow(session'[s], session[s]) \/ TheSession(s) \in held[c]
    BY SessionRows, SessionStays DEF TInv
  <2>3. \A a \in Assignment : Made(a)' <=> Made(a)
    BY DEF Made
  <2>4. \A a \in Assignment : InUse(a)' => InUse(a) \/ TheAssignment(a) \in held[c]
    <3> SUFFICES ASSUME NEW a \in Assignment, InUse(a)', ~InUse(a)
                 PROVE  TheAssignment(a) \in held[c]
      OBVIOUS
    <3>1. PICK s \in Lesson : session'[s].is # "none"
                              /\ a \in {session'[s].of, session'[s].sourceOf}
      BY DEF InUse
    <3>2. s \in L
      BY <3>1 DEF InUse
    <3> QED
      BY <3>1, <3>2
  <2> QED
    BY <2>1, <2>2, <2>3, <2>4 DEF Guarantee
<1> QED
  BY <1>1, <1>2, <1>3, WriteKeeps DEF TInv, Types

\* What the approval writes: the sessions excused, and with a substitute.
LEMMA WriteApprovalKeeps ==
    ASSUME TInv, NEW c \in Registrar, WriteApproval(c)
    PROVE  LET j == registrar[c] IN
           /\ TInv' /\ Guarantee(c) /\ j.op = "approve" /\ j.at = "write" /\ j.sub \in Sub
           /\ leave' = [is |-> "approved", sub |-> j.sub]
           /\ DOMAIN j.saw \subseteq Lesson
           /\ \A s \in Lesson \ DOMAIN j.saw : session'[s] = session[s]
           /\ \A s \in DOMAIN j.saw :
                /\ session[s].is # "none" /\ session'[s] \in LessonRow /\ session'[s].excused
                /\ IF j.sub = Nobody
                   THEN /\ SameRow(session'[s], session[s])
                   ELSE /\ session'[s].teacher = j.sub /\ session'[s].source = Applicant
                        /\ session'[s].day = LeaveDay /\ OfLeave(session[s])
                        /\ session'[s].sourceOf = FormalAssignment(session[s])
                        /\ FormalTeacher(session[s]) = Applicant
<1> DEFINE j == registrar[c]
           L == DOMAIN j.saw
<1>1. /\ j.op = "approve" /\ j.at = "write" /\ j.need = <<>> /\ Ends(c)
      /\ UNCHANGED <<year, semester, assignment, weekly>>
      /\ leave' = [is |-> "approved", sub |-> j.sub]
      /\ session' = [s \in Lesson |->
              IF s \notin L THEN session[s]
              ELSE IF j.sub = Nobody THEN [session[s] EXCEPT !.excused = TRUE]
              ELSE Swapped(session[s], j.by, j.sub)]
  BY DEF WriteApproval, Ready, academicVars
<1>2. j \in ApproveListJob
  BY <1>1, JobFields DEF TInv, Types
<1>3. L \subseteq Lesson /\ j.sub \in Sub /\ \A s \in L : j.saw[s] \in LessonRow
  BY <1>2 DEF ApproveListJob, Lists
<1>4. j.sub # Nobody => j.sub \in Teacher /\ j.sub # Applicant
  BY <1>3, OneSub
<1>5. ASSUME NEW s \in L
      PROVE  /\ session[s].is # "none" /\ session'[s] \in LessonRow /\ session'[s].is # "none"
             /\ session'[s].excused /\ Fits(session'[s])
             /\ SameRow(session'[s], session[s]) \/ TheSession(s) \in held[c]
             /\ \A a \in Assignment : a \in {session'[s].of, session'[s].sourceOf} =>
                   InUse(a) \/ TheAssignment(a) \in held[c]
             /\ IF j.sub = Nobody
                THEN /\ SameRow(session'[s], session[s])
                ELSE /\ session'[s].teacher = j.sub /\ session'[s].source = Applicant
                     /\ session'[s].day = LeaveDay /\ OfLeave(session[s])
                     /\ session'[s].sourceOf = FormalAssignment(session[s])
                     /\ FormalTeacher(session[s]) = Applicant
  <2> DEFINE old == session[s]
             new == session'[s]
  <2>1. s \in Lesson /\ old.is # "none" /\ old \in LessonRow /\ Fits(old) /\ OfLeave(j.saw[s])
    BY <1>1, <1>3, SessionRows DEF TInv, Part, LeavePart, Placed
  <2>2. \A a \in {old.of, old.sourceOf} : InUse(a)
    BY <2>1 DEF InUse
  <2>3. CASE j.sub = Nobody
    <3>1. new = [old EXCEPT !.excused = TRUE]
      BY <1>1, <2>1, <2>3
    <3> HIDE DEF old, new
    <3>2. new \in LessonRow /\ new.excused /\ SameRow(new, old)
      BY <2>1, <3>1 DEF LessonRow, SameRow
    <3>3. Fits(new) /\ new.is # "none"
      BY <2>1, <3>2 DEF Fits, Paired, SameRow
    <3> QED
      BY <2>1, <2>2, <2>3, <3>2, <3>3 DEF old, new, SameRow
  <2>4. CASE j.sub # Nobody
    <3>1. new = Swapped(old, j.by, j.sub)
      BY <1>1, <2>1, <2>4
    <3>2. /\ SameRow(old, j.saw[s]) /\ TheSession(s) \in held[c]
          /\ StandsIn(j.by, j.sub, LeaveDay) /\ TheAssignment(j.by) \in held[c]
          /\ j.by \in Assignment /\ Made(j.by)
      BY <1>1, <2>4 DEF TInv, Part, LeavePart
    <3>3. OfLeave(old)
      BY <2>1, <3>2 DEF SameRow, OfLeave
    <3> HIDE DEF old, new, j
    <3>4. LET a == FormalAssignment(old) IN
          /\ FormalTeacher(old) = Applicant /\ old.day = LeaveDay
          /\ a \in Assignment /\ Made(a) /\ assignment[a].teacher = Applicant
          /\ LeaveDay \in assignment[a].days /\ a \in {old.of, old.sourceOf}
      BY <2>1, <3>3, LeaveRows DEF TInv
    <3>5. /\ new \in LessonRow /\ new.excused /\ new.is # "none" /\ new.teacher = j.sub
          /\ new.of = j.by /\ new.source = Applicant /\ new.sourceOf = FormalAssignment(old)
          /\ new.day = LeaveDay
      BY <1>4, <2>1, <2>4, <3>1, <3>2, <3>4, Ids DEF Swapped, LessonRow
    <3>6. Fits(new)
      BY <1>4, <2>4, <3>2, <3>4, <3>5, Ids DEF Fits, Paired, StandsIn
    <3>7. \A a \in Assignment : a \in {new.of, new.sourceOf} =>
             InUse(a) \/ TheAssignment(a) \in held[c]
      BY <2>2, <3>2, <3>4, <3>5
    <3> QED
      BY <2>1, <2>4, <3>2, <3>3, <3>4, <3>5, <3>6, <3>7 DEF old, new
  <2> QED
    BY <2>3, <2>4
<1>6. \A s \in Lesson \ L : session'[s] = session[s]
  BY <1>1
<1>7. session' \in [Lesson -> {Absent} \cup LessonRow]
  <2>1. \A s \in Lesson : session'[s] \in {Absent} \cup LessonRow
    BY <1>5, <1>6 DEF TInv, Types
  <2>2. DOMAIN session' = Lesson /\ session' = [s \in DOMAIN session' |-> session'[s]]
    BY <1>1
  <2> QED
    BY <2>1, <2>2
<1>8. leave' \in [is : {"pending", "approved", "ended"}, sub : Sub]
  BY <1>1, <1>3
<1> HIDE DEF L, j
<1>9. TInv' /\ Guarantee(c)
  BY <1>1, <1>3, <1>5, <1>6, <1>7, <1>8, RowsKeep
<1> QED
  BY <1>1, <1>3, <1>5, <1>6, <1>9 DEF L, j

LEMMA ListSubstitutedKeeps ==
    ASSUME TInv, NEW c \in Registrar, ListSubstituted(c)
    PROVE  Settles(c)
<1> DEFINE listed == LeaveSessions
           rows == ({session[s].of : s \in listed} \cup {session[s].sourceOf : s \in listed})
                   \ {Nobody}
           a == Sorted("assignment", rows)
           q == Sorted("session", listed)
           k == KeyShares(IF \E s \in listed : session[s].source = Applicant
                          THEN {Applicant} ELSE {})
           job == [op |-> "revoke", at |-> "write", saw |-> [s \in listed |-> session[s]],
                   need |-> (a \o q) \o k]
<1>1. registrar[c].op = "revoke" /\ registrar[c].at = "approved" /\ registrar[c].need = <<>>
  BY DEF ListSubstituted, Ready
<1>2. CASE Refuse(c)
  BY <1>2, Refusing DEF Refuse, TInv, Settles
<1>3. CASE ~Refuse(c)
  <2>1. Proceed(c, job) /\ leave.is = "approved"
    BY <1>3 DEF ListSubstituted
  <2>2. /\ listed \in SUBSET Lesson /\ [s \in listed |-> session[s]] \in Lists
        /\ \A s \in listed : session[s].is # "none" /\ OfLeave(session[s])
    BY ListedSessions DEF TInv
  <2>3. \A s \in listed : /\ session[s].of \in Assignment
                          /\ session[s].sourceOf \in Assignment \cup {Nobody}
    BY <2>2, SessionRows DEF TInv, LessonRow
  <2>4. a \in Needs
    <3> DEFINE f == [s \in listed |-> session[s].of]
               g == [s \in listed |-> session[s].sourceOf]
               F == {f[s] : s \in listed}
               G == {g[s] : s \in listed}
    <3>1. rows = (F \cup G) \ {Nobody}
      OBVIOUS
    <3>2. IsFiniteSet(F) /\ IsFiniteSet(G)
      <4>1. listed \in SUBSET Lesson
        BY <2>2
      <4>2. f \in [listed -> Assignment] /\ g \in [listed -> Assignment \cup {Nobody}]
        BY <2>3
      <4> HIDE DEF f, g, listed
      <4>3. IsFiniteSet({f[s] : s \in listed})
        BY <4>1, <4>2, FiniteImage
      <4>4. IsFiniteSet({g[s] : s \in listed})
        BY <4>1, <4>2, FiniteImage
      <4> QED
        BY <4>3, <4>4
    <3>3. rows \in SUBSET Assignment
      BY <2>3
    <3> HIDE DEF F, G, rows
    <3>4. IsFiniteSet(rows)
      <4>1. IsFiniteSet(F \cup G)
        BY <3>2, FS_Union
      <4> QED
        BY <3>1, <4>1, FS_Difference
    <3>5. \A i \in rows : <<"assignment", i, "update">> \in Lock
      BY <3>3, RowLocks DEF TheAssignment
    <3> QED
      BY <3>3, <3>4, <3>5, Ids, SortedLocks
  <2>5. q \in Needs /\ \A s \in listed : TheSession(s) \in Elements(q)
    <3> HIDE DEF listed
    <3>1. \A i \in listed : <<"session", i, "update">> \in Lock
      BY <2>2, RowLocks DEF TheSession
    <3>2. q \in Needs /\ Elements(q) = {<<"session", i, "update">> : i \in listed}
      BY <2>2, <3>1, Ids, SortedLocks
    <3> QED
      BY <3>2 DEF TheSession
  <2>6. k \in Needs
    <3> DEFINE p == ~\E s \in listed : session[s].source = Applicant
    <3>1. k = KeyShares(IF p THEN {} ELSE {Applicant}) /\ p \in BOOLEAN
      OBVIOUS
    <3> HIDE DEF p, k
    <3> QED
      BY <3>1, ApplicantKey
  <2> HIDE DEF a, q, k
  <2>7. (a \o q) \o k \in Needs /\ \A s \in listed : TheSession(s) \in Elements((a \o q) \o k)
    <3>1. a \o q \in Needs /\ Elements(a \o q) = Elements(a) \cup Elements(q)
      BY <2>4, <2>5, JoinedLocks
    <3>2. /\ (a \o q) \o k \in Needs
          /\ Elements((a \o q) \o k) = Elements(a \o q) \cup Elements(k)
      BY <2>6, <3>1, JoinedLocks
    <3> QED
      BY <2>5, <3>1, <3>2
  <2>8. /\ job \in RevokeListJob /\ job.op = "revoke" /\ job.at = "write"
        /\ job.need = (a \o q) \o k /\ DOMAIN job.saw = listed
        /\ \A s \in listed : job.saw[s] = session[s]
    BY <2>2, <2>7 DEF RevokeListJob
  <2>9. job \in Task
    BY <2>8 DEF Task
  <2> HIDE DEF job
  <2>10. Quiet(c) /\ registrar'[c] = job /\ held' = held
    BY <2>1, <2>8, <2>9, Proceeds DEF TInv
  <2>11. session' = session /\ leave' = leave /\ LeaveSessions' = listed
    BY <2>10 DEF Quiet, recordVars, LeaveSessions
  <2> HIDE DEF listed
  <2>12. Part(c)'
    BY <2>2, <2>7, <2>8, <2>10, <2>11
       DEF Part, PlanPart, WeeklyPart, SessionPart, MovePart, LeavePart, Claimed, OfLeave
  <2>13. ASSUME Days PROVE DayPart(c)'
    <3>1. TheLeave \in held[c] /\ TheDay \in held[c]
      BY <1>1, <2>13, AcademicLocks DEF Days, DayPart, Claimed, TheDay
    <3> QED
      BY <2>1, <2>8, <2>10, <2>11, <3>1 DEF DayPart, Claimed, TheDay
  <2> QED
    BY <2>10, <2>12, <2>13 DEF Settles
<1> QED
  BY <1>2, <1>3

\* What the revocation writes: the sessions are the applicant's again.
LEMMA RevokeLeaveKeeps ==
    ASSUME TInv, NEW c \in Registrar, RevokeLeave(c), ~Refuse(c)
    PROVE  LET j == registrar[c] IN
           /\ TInv' /\ Guarantee(c) /\ j.op = "revoke" /\ j.at = "write"
           /\ leave' = [is |-> "ended", sub |-> Nobody]
           /\ DOMAIN j.saw \subseteq Lesson
           /\ \A s \in Lesson \ DOMAIN j.saw : session'[s] = session[s]
           /\ \A s \in DOMAIN j.saw :
                /\ session[s].is # "none" /\ session'[s] \in LessonRow
                /\ OfLeave(session[s]) /\ FormalTeacher(session[s]) = Applicant
                /\ session'[s].source = Nobody /\ session'[s].teacher = Applicant
                /\ session'[s].of = FormalAssignment(session[s])
<1> DEFINE j == registrar[c]
           L == DOMAIN j.saw
<1>1. /\ j.op = "revoke" /\ j.at = "write" /\ j.need = <<>> /\ Ends(c)
      /\ UNCHANGED <<year, semester, assignment, weekly>>
      /\ leave' = [is |-> "ended", sub |-> Nobody]
      /\ \A s \in L : AsRead(s, j.saw[s])
      /\ session' = [s \in Lesson |-> IF s \in L THEN Restored(session[s]) ELSE session[s]]
  BY DEF RevokeLeave, Ready, academicVars
<1>2. j \in RevokeListJob
  BY <1>1, JobFields DEF TInv, Types
<1>3. L \subseteq Lesson /\ \A s \in L : j.saw[s] \in LessonRow
  BY <1>2 DEF RevokeListJob, Lists
<1>4. ASSUME NEW s \in L
      PROVE  /\ session[s].is # "none" /\ session'[s] \in LessonRow /\ session'[s].is # "none"
             /\ Fits(session'[s]) /\ TheSession(s) \in held[c]
             /\ \A a \in Assignment : a \in {session'[s].of, session'[s].sourceOf} => InUse(a)
             /\ OfLeave(session[s]) /\ FormalTeacher(session[s]) = Applicant
             /\ session'[s].source = Nobody /\ session'[s].teacher = Applicant
             /\ session'[s].of = FormalAssignment(session[s])
  <2> DEFINE old == session[s]
             new == session'[s]
  <2>1. /\ s \in Lesson /\ old.is # "none" /\ old \in LessonRow /\ Fits(old)
        /\ OfLeave(j.saw[s]) /\ TheSession(s) \in held[c]
    BY <1>1, <1>3, SessionRows, AcademicLocks DEF TInv, Part, LeavePart, Placed, Claimed
  <2>2. \A a \in {old.of, old.sourceOf} : InUse(a)
    BY <2>1 DEF InUse
  <2>3. SameRow(old, j.saw[s])
    BY <1>1, <1>3, <2>1, AsReadSame DEF TInv
  <2>4. OfLeave(old) /\ new = Restored(old)
    BY <1>1, <2>1, <2>3 DEF SameRow, OfLeave
  <2> HIDE DEF old, new, j
  <2>5. LET a == FormalAssignment(old) IN
        /\ FormalTeacher(old) = Applicant /\ old.day = LeaveDay
        /\ a \in Assignment /\ Made(a) /\ assignment[a].teacher = Applicant
        /\ LeaveDay \in assignment[a].days /\ a \in {old.of, old.sourceOf}
    BY <2>1, <2>4, LeaveRows DEF TInv
  <2>6. /\ new \in LessonRow /\ new.is # "none" /\ new.teacher = Applicant
        /\ new.of = FormalAssignment(old) /\ new.source = Nobody /\ new.sourceOf = Nobody
        /\ new.day = LeaveDay
    BY <2>1, <2>4, <2>5, Ids DEF Restored, LessonRow
  <2>7. Fits(new)
    BY <2>5, <2>6 DEF Fits, Paired
  <2>8. \A a \in Assignment : a \in {new.of, new.sourceOf} => InUse(a)
    BY <2>2, <2>5, <2>6, Ids
  <2> QED
    BY <2>1, <2>4, <2>5, <2>6, <2>7, <2>8 DEF old, new
<1>5. \A s \in Lesson \ L : session'[s] = session[s]
  BY <1>1
<1>6. session' \in [Lesson -> {Absent} \cup LessonRow]
  <2>1. \A s \in Lesson : session'[s] \in {Absent} \cup LessonRow
    BY <1>4, <1>5 DEF TInv, Types
  <2>2. DOMAIN session' = Lesson /\ session' = [s \in DOMAIN session' |-> session'[s]]
    BY <1>1
  <2> QED
    BY <2>1, <2>2
<1>7. leave' \in [is : {"pending", "approved", "ended"}, sub : Sub]
  BY <1>1 DEF Sub
<1> HIDE DEF L, j
<1>8. TInv' /\ Guarantee(c)
  BY <1>1, <1>3, <1>4, <1>5, <1>6, <1>7, RowsKeep
<1> QED
  BY <1>1, <1>3, <1>4, <1>5, <1>8 DEF L, j

-----------------------------------------------------------------------------
(* The days of the leave.                                                    *)

\* A leave is of one teacher and one day: whoever holds another day, or this
\* one, sees no change of it.
LEMMA DayRelied ==
    ASSUME TInv, Days, NEW c \in Registrar, Guarantee(c), DayGuarantee(c)
    PROVE  \A d \in Registrar \ {c} : DayPart(d)'
<1> SUFFICES ASSUME NEW d \in Registrar, d # c PROVE DayPart(d)'
  OBVIOUS
<1>1. Part(d) /\ DayPart(d)
  BY DEF TInv, Days
<1>2. registrar'[d] = registrar[d] /\ held'[d] = held[d] /\ Claimed(d)' = Claimed(d)
  BY DEF Guarantee, Others, Claimed
<1>3. /\ TheLeave \in held[d] => TheLeave \notin held[c]
      /\ TheDay \in held[d] => TheDay \notin held[c]
      /\ \A s : TheSession(s) \in held[d] => TheSession(s) \notin held[c]
  BY HeldByOne DEF TInv, TheLeave, TheDay, DayOf, TheSession
<1> DEFINE j == registrar[d]
<1>4. j \in Task
  BY DEF TInv, Types
<1>5. TheLeave \in held[d] \/ TheDay \in held[d] => leave' = leave
  BY <1>3 DEF DayGuarantee
<1>6. TheDay \in held[d] => LeaveSessions' = LeaveSessions
  BY <1>3 DEF DayGuarantee
<1>7. \A t, x : DayOf(t, x) \in held[d] =>
        /\ OnLeave(t, x)' <=> OnLeave(t, x)
        /\ OnLeave(t, x) => leave' = leave
  BY <1>5 DEF OnLeave, TheDay
<1>8. \A row : DayOf(FormalTeacher(row), row.day) \in held[d] /\ Agrees(row) => Agrees(row)'
  BY <1>7 DEF Agrees, FormalTeacher
<1>9. \A who, t, x : DayOf(t, x) \in held[d] /\ WhoAgrees(who, t, x) => WhoAgrees(who, t, x)'
  BY <1>7 DEF WhoAgrees
<1>10. j.op = "reschedule" =>
         /\ FormalTeacher(session'[j.id]) = FormalTeacher(session[j.id])
         /\ FormalAssignment(session'[j.id]) = FormalAssignment(session[j.id])
  <2>1. j.op = "reschedule" => j.id \in Lesson /\ session[j.id].is # "none"
    BY <1>1, <1>4, JobFields DEF Part, MovePart
  <2> QED
    BY <2>1 DEF DayGuarantee
<1>11. j.op = "reschedule" /\ j.at = "write" => session'[j.id].day = session[j.id].day
  <2>1. j.op = "reschedule" /\ j.at = "write" =>
          j.id \in Lesson /\ session[j.id].is # "none" /\ TheSession(j.id) \in held[d]
    BY <1>1, <1>4, JobFields DEF Part, MovePart
  <2> QED
    BY <1>3, <2>1 DEF Guarantee, SameRow
<1> HIDE DEF j
<1>12. j.op = "session" => DayPart(d)'
  <2>1. /\ j.op = "session" /\ j.at = "discover" =>
             j.saw = j.teacher /\ DayOf(j.teacher, j.day) \in Claimed(d)
        /\ j.op = "session" /\ j.at = "check" =>
             DayOf(j.teacher, j.day) \in held[d] /\ WhoAgrees(j.who, j.teacher, j.day)
        /\ j.op = "session" /\ j.at = "insert" =>
             DayOf(FormalTeacher(j.row), j.row.day) \in held[d] /\ Agrees(j.row)
    BY <1>1 DEF DayPart, DaysHeld, j
  <2> QED
    BY <1>2, <1>8, <1>9, <2>1 DEF DayPart, DaysHeld, FormalTeacher, j
<1>13. j.op = "reschedule" => DayPart(d)'
  <2>1. j.op = "reschedule" =>
        /\ j.at \in {"discover", "check"} =>
             /\ FormalAssignment(session[j.id]) = FormalAssignment(j.saw)
             /\ FormalTeacher(session[j.id]) = FormalTeacher(j.saw)
             /\ {DayOf(FormalTeacher(j.saw), j.saw.day),
                 DayOf(FormalTeacher(j.saw), j.day)} \subseteq Claimed(d)
        /\ j.at = "check" =>
             /\ {DayOf(FormalTeacher(j.saw), j.saw.day),
                 DayOf(FormalTeacher(j.saw), j.day)} \subseteq held[d]
             /\ WhoAgrees(j.who, FormalTeacher(j.saw), j.day)
        /\ j.at = "write" =>
             /\ FormalTeacher(session[j.id]) = FormalTeacher(j.row)
             /\ FormalAssignment(session[j.id]) = FormalAssignment(j.row)
             /\ DayOf(FormalTeacher(j.row), j.row.day) \in held[d]
             /\ DayOf(FormalTeacher(session[j.id]), session[j.id].day) \in held[d]
             /\ Agrees(j.row)
    BY <1>1 DEF DayPart, DaysHeld, j
  <2> QED
    BY <1>2, <1>8, <1>9, <1>10, <1>11, <2>1
       DEF DayPart, DaysHeld, FormalTeacher, FormalAssignment, j
<1>14. j.op \in {"approve", "revoke"} => DayPart(d)'
  BY <1>1, <1>2, <1>5, <1>6 DEF DayPart, TheDay, j
<1>15. j.op \notin {"session", "reschedule", "approve", "revoke"} => DayPart(d)'
  BY <1>2 DEF DayPart, j
<1> QED
  BY <1>12, <1>13, <1>14, <1>15

\* What Days says stays true while sessions and leave are left alone.
LEMMA SameDays ==
    ASSUME TInv, Days, NEW c \in Registrar, Guarantee(c), session' = session, leave' = leave,
           DayPart(c)'
    PROVE  Days'
<1>1. DayGuarantee(c)
  BY DEF DayGuarantee, LeaveSessions
<1>2. \A d \in Registrar : DayPart(d)'
  BY <1>1, DayRelied
<1>3. LeaveAndSessionsAgree'
  BY DEF Days, LeaveAndSessionsAgree, OnLeave
<1> QED
  BY <1>2, <1>3 DEF Days

LEMMA TakeDays ==
    ASSUME TInv, Days, NEW c \in Registrar, Take(c)
    PROVE  DayPart(c)'
<1> DEFINE j == registrar[c]
           r == registrar'[c]
<1>1. /\ Claimed(c)' = Claimed(c) /\ held[c] \subseteq held'[c] /\ SameBut(r, j)
      /\ Quiet(c) /\ j.need # <<>>
  BY TakeKeeps
<1>2. session' = session /\ leave' = leave /\ LeaveSessions' = LeaveSessions
  BY <1>1 DEF Quiet, recordVars, LeaveSessions
<1>3. /\ \A row : Agrees(row)' <=> Agrees(row)
      /\ \A who, t, d : WhoAgrees(who, t, d)' <=> WhoAgrees(who, t, d)
  BY <1>2 DEF Agrees, WhoAgrees, OnLeave, FormalTeacher
<1>4. DayPart(c) /\ j.op # "idle"
  BY <1>1, JobFields DEF Days, TInv, Types
<1>5. r.op = j.op /\ r.at = j.at
  BY <1>1, <1>4 DEF SameBut
<1> HIDE DEF j, r
<1>6. j.op = "session" => DayPart(c)'
  BY <1>1, <1>3, <1>4, <1>5 DEF DayPart, SameBut, DaysHeld, FormalTeacher, j, r
<1>7. j.op = "reschedule" => DayPart(c)'
  BY <1>1, <1>2, <1>3, <1>4, <1>5
     DEF DayPart, SameBut, DaysHeld, FormalTeacher, FormalAssignment, j, r
<1>8. j.op \in {"approve", "revoke"} => DayPart(c)'
  BY <1>1, <1>2, <1>4, <1>5 DEF DayPart, SameBut, j, r
<1>9. j.op \notin {"session", "reschedule", "approve", "revoke"} => DayPart(c)'
  BY <1>5 DEF DayPart, j, r
<1> QED
  BY <1>6, <1>7, <1>8, <1>9

\* A session made or moved, by a request that holds its days.
LEMMA OneSessionDays ==
    ASSUME TInv, Days, NEW c \in Registrar, Guarantee(c), DayPart(c)', leave' = leave,
           NEW s \in Lesson, NEW row \in LessonRow,
           \A x \in Lesson : x # s => session'[x] = session[x],
           session'[s] \in {session[s], row}, Fits(row), Agrees(row), DaysHeld(c, row),
           session[s].is # "none" =>
               /\ DaysHeld(c, session[s])
               /\ FormalTeacher(row) = FormalTeacher(session[s])
               /\ FormalAssignment(row) = FormalAssignment(session[s])
    PROVE  Days'
<1>1. LeaveSessions' = LeaveSessions \/ TheDay \in held[c]
  <2> SUFFICES ASSUME LeaveSessions' # LeaveSessions PROVE TheDay \in held[c]
    OBVIOUS
  <2>1. \A x \in Lesson : x # s => (x \in LeaveSessions' <=> x \in LeaveSessions)
    BY DEF LeaveSessions
  <2>2. s \in LeaveSessions' \/ s \in LeaveSessions
    BY <2>1 DEF LeaveSessions
  <2>3. session'[s] = row /\ (OfLeave(row) \/ (session[s].is # "none" /\ OfLeave(session[s])))
    BY <2>1, <2>2 DEF LeaveSessions, OfLeave
  <2>4. CASE OfLeave(row)
    BY <2>4, LeaveRows DEF TInv, DaysHeld, TheDay
  <2>5. CASE session[s].is # "none" /\ OfLeave(session[s])
    BY <2>5, LeaveRows, SessionRows DEF TInv, Placed, DaysHeld, TheDay
  <2> QED
    BY <2>3, <2>4, <2>5
<1>2. DayGuarantee(c)
  BY <1>1 DEF DayGuarantee
<1>3. \A d \in Registrar : DayPart(d)'
  BY <1>2, DayRelied
<1>4. LeaveAndSessionsAgree'
  <2>1. \A r : Agrees(r)' <=> Agrees(r)
    BY DEF Agrees, OnLeave, FormalTeacher
  <2>2. \A x \in Lesson : session'[x].is # "none" => Agrees(session'[x])
    BY DEF Days, LeaveAndSessionsAgree, Agrees
  <2>3. \A x \in Lesson : session'[x].is # "none" => Agrees(session[x])'
    BY <2>2 DEF Agrees, OnLeave, FormalTeacher
  <2> QED
    BY <2>3 DEF LeaveAndSessionsAgree, Agrees
<1> QED
  BY <1>3, <1>4 DEF Days

LEMMA InsertDays ==
    ASSUME TInv, Days, NEW c \in Registrar, InsertSession(c), Guarantee(c)
    PROVE  Days'
<1> DEFINE j == registrar[c]
<1>1. j.op = "session" /\ j.at = "insert"
  BY DEF InsertSession, Ready
<1>2. j.row \in LessonRow
  BY <1>1, JobFields DEF TInv, Types, InsertJob
<1>3. Fits(j.row) /\ Agrees(j.row) /\ DaysHeld(c, j.row)
  BY <1>1 DEF TInv, Part, SessionPart, Days, DayPart
<1>4. Ends(c) /\ leave' = leave
  BY InsertSessionKeeps
<1>5. PICK s \in Lesson :
        /\ session[s].is = "none"
        /\ \A x \in Lesson : x # s => session'[x] = session[x]
        /\ session'[s] \in {session[s], j.row}
  BY InsertSessionKeeps
<1>6. DayPart(c)'
  BY <1>4, Ending DEF TInv
<1> HIDE DEF j
<1> QED
  BY <1>2, <1>3, <1>4, <1>5, <1>6, OneSessionDays

LEMMA RescheduleDays ==
    ASSUME TInv, Days, NEW c \in Registrar, WriteRescheduled(c), Guarantee(c)
    PROVE  Days'
<1> DEFINE j == registrar[c]
<1>1. /\ j.op = "reschedule" /\ j.at = "write" /\ Ends(c) /\ leave' = leave
      /\ j.id \in Lesson /\ session[j.id].is # "none"
      /\ \A x \in Lesson : x # j.id => session'[x] = session[x]
      /\ session'[j.id] \in {session[j.id], j.row}
  BY WriteRescheduledKeeps
<1>2. j.row \in LessonRow
  BY <1>1, JobFields DEF TInv, Types, MoveWriteJob
<1>3. Fits(j.row)
  BY <1>1 DEF TInv, Part, MovePart
<1>4. /\ Agrees(j.row) /\ DaysHeld(c, j.row) /\ DaysHeld(c, session[j.id])
      /\ FormalTeacher(j.row) = FormalTeacher(session[j.id])
      /\ FormalAssignment(j.row) = FormalAssignment(session[j.id])
  BY <1>1 DEF Days, DayPart
<1>5. DayPart(c)'
  BY <1>1, Ending DEF TInv
<1> HIDE DEF j
<1> QED
  BY <1>1, <1>2, <1>3, <1>4, <1>5, OneSessionDays

\* The approval: the sessions of the day agree with the leave that begins.
LEMMA ApprovalDays ==
    ASSUME TInv, Days, NEW c \in Registrar, WriteApproval(c)
    PROVE  Days'
<1> DEFINE j == registrar[c]
           L == LeaveSessions
<1>1. /\ j.op = "approve" /\ j.at = "write" /\ j.sub \in Sub /\ Guarantee(c)
      /\ leave' = [is |-> "approved", sub |-> j.sub] /\ DOMAIN j.saw \subseteq Lesson
      /\ \A s \in Lesson \ DOMAIN j.saw : session'[s] = session[s]
      /\ \A s \in DOMAIN j.saw :
           /\ session[s].is # "none" /\ session'[s] \in LessonRow /\ session'[s].excused
           /\ IF j.sub = Nobody
              THEN /\ SameRow(session'[s], session[s])
              ELSE /\ session'[s].teacher = j.sub /\ session'[s].source = Applicant
                   /\ session'[s].day = LeaveDay /\ OfLeave(session[s])
                   /\ session'[s].sourceOf = FormalAssignment(session[s])
                   /\ FormalTeacher(session[s]) = Applicant
  BY WriteApprovalKeeps
<1>2. leave.is = "pending" /\ {TheLeave, TheDay} \subseteq held[c] /\ DOMAIN j.saw = L
  BY <1>1 DEF Days, DayPart, TheDay
<1>3. DayPart(c)'
  BY Ending DEF TInv, WriteApproval
<1>4. Applicant # Nobody
  BY Ids
<1> HIDE DEF j
<1>5. DayGuarantee(c)
  <2> SUFFICES ASSUME NEW s \in Lesson, session[s].is # "none"
               PROVE  /\ FormalTeacher(session'[s]) = FormalTeacher(session[s])
                      /\ FormalAssignment(session'[s]) = FormalAssignment(session[s])
    BY <1>2 DEF DayGuarantee
  <2>1. CASE s \notin L
    BY <1>1, <1>2, <2>1
  <2>2. CASE s \in L /\ j.sub = Nobody
    BY <1>1, <1>2, <2>2 DEF SameRow, FormalTeacher, FormalAssignment
  <2>3. CASE s \in L /\ j.sub # Nobody
    BY <1>1, <1>2, <1>4, <2>3 DEF FormalTeacher, FormalAssignment
  <2> QED
    BY <2>1, <2>2, <2>3
<1>6. \A d \in Registrar : DayPart(d)'
  BY <1>1, <1>3, <1>5, DayRelied
\* Before the approval nobody is on leave, and so nobody is with a substitute.
<1>7. \A s \in Lesson : session[s].is # "none" =>
        session[s].source = Nobody /\ FormalTeacher(session[s]) = session[s].teacher
  BY <1>2 DEF Days, LeaveAndSessionsAgree, OnLeave, FormalTeacher
<1>8. LeaveAndSessionsAgree'
  <2> SUFFICES ASSUME NEW s \in Lesson, session'[s].is # "none"
               PROVE  LET r == session'[s]
                          t == FormalTeacher(r)
                          away == t = Applicant /\ r.day = LeaveDay
                      IN  /\ away => r.excused
                          /\ away /\ j.sub # Nobody => r.teacher = j.sub
                          /\ r.source # Nobody => away /\ j.sub = r.teacher
    BY <1>1 DEF LeaveAndSessionsAgree, OnLeave, FormalTeacher
  <2>1. CASE s \notin L
    <3>1. session'[s] = session[s]
      BY <1>1, <1>2, <2>1
    <3>2. ~(session[s].teacher = Applicant /\ session[s].day = LeaveDay)
      BY <2>1, <3>1 DEF LeaveSessions
    <3> QED
      BY <1>7, <3>1, <3>2
  <2>2. CASE s \in L /\ j.sub = Nobody
    <3>1. session'[s].source = Nobody /\ session'[s].excused
      BY <1>1, <1>2, <1>7, <2>2 DEF SameRow
    <3> QED
      BY <2>2, <3>1
  <2>3. CASE s \in L /\ j.sub # Nobody
    BY <1>1, <1>2, <1>4, <2>3 DEF FormalTeacher
  <2> QED
    BY <2>1, <2>2, <2>3
<1> QED
  BY <1>6, <1>8 DEF Days

\* The revocation: no session is with a substitute any more.
LEMMA RevocationDays ==
    ASSUME TInv, Days, NEW c \in Registrar, RevokeLeave(c), ~Refuse(c)
    PROVE  Days'
<1> DEFINE j == registrar[c]
           L == LeaveSessions
<1>1. /\ j.op = "revoke" /\ j.at = "write" /\ Guarantee(c)
      /\ leave' = [is |-> "ended", sub |-> Nobody] /\ DOMAIN j.saw \subseteq Lesson
      /\ \A s \in Lesson \ DOMAIN j.saw : session'[s] = session[s]
      /\ \A s \in DOMAIN j.saw :
           /\ session[s].is # "none" /\ session'[s] \in LessonRow
           /\ OfLeave(session[s]) /\ FormalTeacher(session[s]) = Applicant
           /\ session'[s].source = Nobody /\ session'[s].teacher = Applicant
           /\ session'[s].of = FormalAssignment(session[s])
  BY RevokeLeaveKeeps
<1>2. leave.is = "approved" /\ {TheLeave, TheDay} \subseteq held[c] /\ DOMAIN j.saw = L
  BY <1>1 DEF Days, DayPart, TheDay
<1>3. DayPart(c)'
  BY Ending DEF TInv, RevokeLeave, Refuse
<1> HIDE DEF j
<1>4. DayGuarantee(c)
  <2> SUFFICES ASSUME NEW s \in Lesson, session[s].is # "none"
               PROVE  /\ FormalTeacher(session'[s]) = FormalTeacher(session[s])
                      /\ FormalAssignment(session'[s]) = FormalAssignment(session[s])
    BY <1>2 DEF DayGuarantee
  <2>1. CASE s \notin L
    BY <1>1, <1>2, <2>1
  <2>2. CASE s \in L
    BY <1>1, <1>2, <2>2 DEF FormalTeacher, FormalAssignment
  <2> QED
    BY <2>1, <2>2
<1>5. \A d \in Registrar : DayPart(d)'
  BY <1>1, <1>3, <1>4, DayRelied
<1>6. LeaveAndSessionsAgree'
  <2> SUFFICES ASSUME NEW s \in Lesson, session'[s].is # "none"
               PROVE  session'[s].source = Nobody
    BY <1>1 DEF LeaveAndSessionsAgree, OnLeave, FormalTeacher
  <2>1. CASE s \notin L
    <3>1. session'[s] = session[s]
      BY <1>1, <1>2, <2>1
    <3>2. session[s].source # Nobody =>
            session[s].source = Applicant /\ session[s].day = LeaveDay
      BY <3>1 DEF Days, LeaveAndSessionsAgree, OnLeave, FormalTeacher
    <3> QED
      BY <2>1, <3>1, <3>2 DEF LeaveSessions
  <2>2. CASE s \in L
    BY <1>1, <1>2, <2>2
  <2> QED
    BY <2>1, <2>2
<1> QED
  BY <1>5, <1>6 DEF Days

-----------------------------------------------------------------------------
(* The theorems.                                                             *)

\* A step that settles keeps both invariants.
LEMMA SettlesKeeps ==
    ASSUME TInv, NEW c \in Registrar, Settles(c)
    PROVE  TInv' /\ (Days => Days')
<1>1. Quiet(c) /\ Part(c)' /\ (Days => DayPart(c)') /\ Guarantee(c)
  BY QuietGuarantee DEF Settles, TInv
<1>2. session' = session /\ leave' = leave
  BY <1>1 DEF Quiet, recordVars
<1> QED
  BY <1>1, <1>2, QuietKeeps, SameDays

LEMMA RefuseSettles ==
    ASSUME TInv, NEW c \in Registrar, Ends(c), UNCHANGED recordVars
    PROVE  Settles(c)
BY Refusing DEF Settles, TInv

\* Every step keeps TInv, and with it what Days says if forms are fresh.
LEMMA StepKeeps ==
    ASSUME TInv, NEW c \in Registrar,
           \/ Take(c) \/ GiveUp(c)
           \/ Calendar(c) \/ Assignments(c) \/ Schedules(c) \/ Sessions(c) \/ LeaveReview(c)
    PROVE  TInv' /\ (Days => Days')
<1>1. CASE Take(c)
  <2>1. Settles(c)
    BY <1>1, TakeKeeps, TakeDays DEF Settles
  <2> QED
    BY <2>1, SettlesKeeps
<1>2. CASE GiveUp(c)
  BY <1>2, RefuseSettles, SettlesKeeps DEF GiveUp
<1>3. CASE Calendar(c)
  <2>1. CASE UpdateAcademicYear(c) \/ UpdateSemester(c)
    <3>1. TInv' /\ Guarantee(c) /\ session' = session /\ leave' = leave /\ Ends(c)
      BY <2>1, CalendarWrites DEF UpdateAcademicYear, UpdateSemester
    <3> QED
      BY <3>1, Ending, SameDays DEF TInv
  <2>2. CASE ~(UpdateAcademicYear(c) \/ UpdateSemester(c))
    BY <1>3, <2>2, CalendarReads, SettlesKeeps DEF Calendar
  <2> QED
    BY <2>1, <2>2
<1>4. CASE Assignments(c)
  <2>1. CASE CreateTeachingAssignment(c) \/ UpdateTeachingAssignment(c)
    <3>1. TInv' /\ Guarantee(c) /\ session' = session /\ leave' = leave /\ Ends(c)
      BY <2>1, AssignmentWrites DEF CreateTeachingAssignment, UpdateTeachingAssignment
    <3> QED
      BY <3>1, Ending, SameDays DEF TInv
  <2>2. CASE ~(CreateTeachingAssignment(c) \/ UpdateTeachingAssignment(c))
    BY <1>4, <2>2, AssignmentReads, SettlesKeeps DEF Assignments
  <2> QED
    BY <2>1, <2>2
<1>5. CASE Schedules(c)
  <2>1. CASE WriteWeekly(c)
    <3>1. TInv' /\ Guarantee(c) /\ session' = session /\ leave' = leave /\ Ends(c)
      BY <2>1, WeeklyWrites DEF WriteWeekly
    <3> QED
      BY <3>1, Ending, SameDays DEF TInv
  <2>2. CASE ~WriteWeekly(c)
    BY <1>5, <2>2, WeeklyReads, SettlesKeeps DEF Schedules
  <2> QED
    BY <2>1, <2>2
<1>6. CASE Sessions(c)
  <2>1. CASE InsertSession(c)
    BY <2>1, InsertSessionKeeps, InsertDays
  <2>2. CASE WriteRescheduled(c)
    BY <2>2, WriteRescheduledKeeps, RescheduleDays
  <2>3. ASSUME NEW d \in Day,
               \/ AskGenerate(c, d)
               \/ \E a \in Assignment, t \in Teacher : AskSession(c, a, t, d)
               \/ \E s \in Lesson : AskReschedule(c, s, d)
        PROVE  TInv' /\ (Days => Days')
    BY <2>3, SessionAsks, AskRescheduleKeeps, SettlesKeeps
  <2>4. CASE ReadSchedule(c) \/ DiscoverActing(c) \/ CheckSession(c)
             \/ DiscoverRescheduled(c) \/ CheckRescheduled(c)
    BY <2>4, ReadScheduleKeeps, DiscoverActingKeeps, CheckSessionKeeps,
       DiscoverRescheduledKeeps, CheckRescheduledKeeps, SettlesKeeps
  <2> QED
    BY <1>6, <2>1, <2>2, <2>3, <2>4 DEF Sessions
<1>7. CASE LeaveReview(c)
  <2>1. CASE WriteApproval(c)
    BY <2>1, WriteApprovalKeeps, ApprovalDays
  <2>2. CASE RevokeLeave(c)
    <3>1. CASE Refuse(c)
      BY <3>1, RefuseSettles, SettlesKeeps DEF Refuse
    <3>2. CASE ~Refuse(c)
      BY <2>2, <3>2, RevokeLeaveKeeps, RevocationDays
    <3> QED
      BY <3>1, <3>2
  <2>3. ASSUME NEW sub \in Sub, AskApproval(c, sub) PROVE TInv' /\ (Days => Days')
    BY <2>3, LeaveAsks, SettlesKeeps
  <2>4. CASE AskRevocation(c) \/ ReadPending(c) \/ ListSessions(c) \/ CheckApproval(c)
             \/ ListSubstituted(c)
    BY <2>4, LeaveAsks, ReadPendingKeeps, ListSessionsKeeps, CheckApprovalKeeps,
       ListSubstitutedKeeps, SettlesKeeps
  <2> QED
    BY <1>7, <2>1, <2>2, <2>3, <2>4 DEF LeaveReview, Sub
<1> QED
  BY <1>1, <1>2, <1>3, <1>4, <1>5, <1>6, <1>7

LEMMA StutterKeeps ==
    ASSUME TInv, UNCHANGED timetableVars
    PROVE  TInv' /\ (Days => Days')
<1>1. /\ year' = year /\ semester' = semester /\ assignment' = assignment /\ weekly' = weekly
      /\ session' = session /\ leave' = leave /\ registrar' = registrar /\ held' = held
      /\ asked' = asked
  BY DEF timetableVars, recordVars, academicVars
<1>2. Types' /\ Exclusive' /\ PeriodsNest' /\ LeaveSessions' = LeaveSessions
  BY <1>1 DEF TInv, Types, Exclusive, Clash, PeriodsNest, Made, LeaveSessions
<1>3. /\ \A a : Made(a)' <=> Made(a)
      /\ \A a : InUse(a)' <=> InUse(a)
      /\ \A r : (Fits(r)' <=> Fits(r)) /\ (WeeklyFits(r)' <=> WeeklyFits(r))
      /\ \A r : Agrees(r)' <=> Agrees(r)
      /\ \A who, a : Acted(who, a)' <=> Acted(who, a)
      /\ \A who, t, d : WhoAgrees(who, t, d)' <=> WhoAgrees(who, t, d)
      /\ \A a, t, d : StandsIn(a, t, d)' <=> StandsIn(a, t, d)
      /\ \A c : Claimed(c)' = Claimed(c)
  BY <1>1 DEF Made, InUse, Fits, WeeklyFits, Paired, Agrees, OnLeave, FormalTeacher, Acted,
              WhoAgrees, StandsIn, Claimed
<1>4. /\ \A span : SemesterMayBe(span)' <=> SemesterMayBe(span)
      /\ \A a, r, saw : Changeable(a, r, saw)' <=> Changeable(a, r, saw)
  BY <1>1, <1>3 DEF SemesterMayBe, Changeable
<1>5. Placed'
  BY <1>1, <1>3 DEF TInv, Placed, Fits, WeeklyFits, Made, Paired
<1>6. ASSUME NEW c \in Registrar PROVE Part(c)'
  <2>1. Part(c)
    BY DEF TInv
  <2>2. PlanPart(c)'
    BY <1>1, <1>3, <1>4, <2>1 DEF Part, PlanPart
  <2>3. WeeklyPart(c)'
    BY <1>1, <1>3, <2>1 DEF Part, WeeklyPart
  <2>4. SessionPart(c)'
    BY <1>1, <1>3, <2>1 DEF Part, SessionPart, Refers
  <2>5. MovePart(c)'
    BY <1>1, <1>3, <2>1 DEF Part, MovePart, Refers, FormalAssignment, Paired
  <2>6. LeavePart(c)'
    BY <1>1, <1>3, <2>1 DEF Part, LeavePart, SameRow, OfLeave
  <2> QED
    BY <2>2, <2>3, <2>4, <2>5, <2>6 DEF Part
<1>7. ASSUME Days PROVE Days'
  <2>1. LeaveAndSessionsAgree'
    BY <1>1, <1>7 DEF Days, LeaveAndSessionsAgree, OnLeave, FormalTeacher
  <2>2. ASSUME NEW c \in Registrar PROVE DayPart(c)'
    BY <1>1, <1>2, <1>3, <1>7 DEF Days, DayPart, DaysHeld, FormalTeacher, FormalAssignment
  <2> QED
    BY <1>7, <2>1, <2>2 DEF Days
<1> QED
  BY <1>2, <1>5, <1>6, <1>7 DEF TInv

\* The row of a session of assignment a, of teacher t, as it acts on day d.
LEMMA FirstRow ==
    ASSUME leave.sub \in Sub, NEW a \in Assignment, NEW d \in Day, assignment[a].is = "on",
           assignment[a].teacher = Applicant, d \in assignment[a].days,
           NEW who \in Acting(a, Applicant, d)
    PROVE  LET row == SessionRow(who, d, FALSE) IN
           row \in LessonRow /\ Fits(row) /\ Agrees(row)
<1> DEFINE row == SessionRow(who, d, FALSE)
<1>1. who \in Who /\ Acted(who, a) /\ WhoAgrees(who, Applicant, d) /\ Applicant # Nobody
      /\ a # Nobody /\ Applicant \in Teacher
  BY ActingIs, Ids
<1>2. /\ row \in LessonRow /\ row.day = d /\ row.teacher = who.teacher /\ row.of = who.of
      /\ row.source = who.source /\ row.sourceOf = who.sourceOf /\ row.excused = who.onLeave
  BY <1>1 DEF SessionRow, LessonRow, Who
<1>3. CASE OnLeave(Applicant, d) /\ leave.sub # Nobody
  <2>1. PICK b \in Assignment : /\ StandsIn(b, leave.sub, d)
                               /\ who = Acts(leave.sub, b, Applicant, a, TRUE)
    BY <1>3 DEF Acting
  <2>2. who.teacher = leave.sub /\ who.of = b /\ who.source = Applicant /\ who.sourceOf = a
    BY <2>1 DEF Acts
  <2>3. leave.sub # Applicant
    BY <1>1 DEF Sub
  <2> HIDE DEF row
  <2>4. Fits(row)
    BY <1>1, <1>2, <2>1, <2>2, <2>3 DEF Fits, Paired, StandsIn, Made
  <2>5. Agrees(row)
    BY <1>1, <1>2, <1>3, <2>2 DEF Agrees, FormalTeacher, WhoAgrees
  <2> QED
    BY <1>2, <2>4, <2>5 DEF row
<1>4. CASE ~(OnLeave(Applicant, d) /\ leave.sub # Nobody)
  <2>1. who = Acts(Applicant, a, Nobody, Nobody, OnLeave(Applicant, d))
    BY <1>4 DEF Acting
  <2>2. who.teacher = Applicant /\ who.of = a /\ who.source = Nobody /\ who.sourceOf = Nobody
    BY <2>1 DEF Acts
  <2> HIDE DEF row
  <2>3. Fits(row)
    BY <1>2, <2>2 DEF Fits, Paired, Made
  <2>4. Agrees(row)
    BY <1>1, <1>2, <1>4, <2>2 DEF Agrees, FormalTeacher, WhoAgrees
  <2> QED
    BY <1>2, <2>3, <2>4 DEF row
<1> QED
  BY <1>3, <1>4

\* The school years TimetableInit begins with satisfy both.
LEMMA InitKeeps == TimetableInit => TInv /\ (~Stale => Days)
<1> SUFFICES ASSUME TimetableInit PROVE TInv /\ (~Stale => Days)
  OBVIOUS
<1> DEFINE first == Least(Assignment)
           taught(t, days) == [is |-> "on", teacher |-> t, days |-> days]
<1>1. first \in Assignment
  BY HasLeast, Ids, TimetableAssumption
<1>2. Day \in Span /\ {LeaveDay} \in Span /\ \A d \in {LeaveDay} : d \in Day
  <2>1. 1 \in Day /\ LastDay \in Day /\ LeaveDay \in Day /\ LeaveDay \in Nat
    BY Ids, TimetableAssumption DEF Day
  <2>2. Day = 1 .. LastDay /\ {LeaveDay} = LeaveDay .. LeaveDay
    BY <2>1 DEF Day
  <2> QED
    BY <2>1, <2>2 DEF Span
<1>3. PICK days \in {Day, {LeaveDay}} :
        /\ assignment \in [Assignment -> {Absent} \cup {taught(t, days) : t \in Teacher}]
        /\ \A a \in Assignment : assignment[a] = taught(Applicant, days) <=> a = first
        /\ weekly \in {Absent, [is |-> "on", of |-> first, teacher |-> Applicant, days |-> Day]}
        /\ session \in {[s \in Lesson |-> Absent]} \cup
              {[s \in Lesson |-> IF s = Least(Lesson) THEN SessionRow(x[1], x[2], FALSE)
                                 ELSE Absent] :
                  x \in UNION {Acting(first, Applicant, d) \X {d} : d \in Day}}
        /\ days # Day => /\ weekly = Absent
                         /\ session = [s \in Lesson |-> Absent]
  BY DEF TimetableInit
<1>4. /\ year = Day /\ semester = Day /\ asked = 0
      /\ leave \in [is : {"pending", "approved", "ended"}, sub : Sub]
      /\ registrar = [c \in Registrar |-> Waiting] /\ held = [c \in Registrar |-> {}]
  BY DEF TimetableInit, Sub
<1>5. \A t \in Teacher : taught(t, days) \in CourseRow
  BY <1>2 DEF CourseRow
<1>6. assignment[first] = taught(Applicant, days)
  BY <1>1, <1>3
<1> HIDE DEF first
<1>7. assignment \in [Assignment -> {Absent} \cup CourseRow]
  BY <1>3, <1>5
<1>8. assignment[first].is = "on" /\ assignment[first].teacher = Applicant
      /\ assignment[first].days = days
  BY <1>6
<1>9. weekly \in {Absent} \cup WeeklyRow /\ (weekly.is # "none" => WeeklyFits(weekly))
  <2>1. CASE weekly = Absent
    BY <2>1 DEF Absent
  <2>2. CASE weekly # Absent
    <3>1. days = Day /\ weekly = [is |-> "on", of |-> first, teacher |-> Applicant, days |-> Day]
      BY <1>3, <2>2
    <3>2. weekly \in WeeklyRow
      BY <1>1, <1>2, <3>1, Ids DEF WeeklyRow
    <3>3. WeeklyFits(weekly)
      BY <1>8, <3>1 DEF WeeklyFits, Made
    <3> QED
      BY <3>2, <3>3
  <2> QED
    BY <2>1, <2>2
<1>10. Waiting \in Task /\ Waiting.op = "idle"
  <2>1. Waiting \in IdleJob /\ Waiting.op = "idle"
    BY DEF Waiting, IdleJob
  <2> QED
    BY <2>1 DEF Task
<1>11. /\ session \in [Lesson -> {Absent} \cup LessonRow]
       /\ \A s \in Lesson : session[s].is # "none" => Fits(session[s]) /\ Agrees(session[s])
  <2>1. CASE session = [s \in Lesson |-> Absent]
    BY <2>1 DEF Absent
  <2>2. ASSUME NEW d \in Day, NEW who \in Acting(first, Applicant, d), days = Day,
               session = [s \in Lesson |-> IF s = Least(Lesson) THEN SessionRow(who, d, FALSE)
                                           ELSE Absent]
        PROVE  /\ session \in [Lesson -> {Absent} \cup LessonRow]
               /\ \A s \in Lesson : session[s].is # "none" => Fits(session[s]) /\ Agrees(session[s])
    <3> DEFINE row == SessionRow(who, d, FALSE)
    <3>1. d \in assignment[first].days
      BY <1>8, <2>2
    <3>2. leave.sub \in Sub
      BY <1>4
    <3>3. row \in LessonRow /\ Fits(row) /\ Agrees(row)
      BY <1>1, <1>8, <2>2, <3>1, <3>2, FirstRow
    <3> HIDE DEF row
    <3>4. session = [s \in Lesson |-> IF s = Least(Lesson) THEN row ELSE Absent]
      BY <2>2 DEF row
    <3>5. \A s \in Lesson : session[s] = row \/ session[s] = Absent
      BY <3>4
    <3> QED
      BY <3>3, <3>4, <3>5 DEF Absent
  <2>3. CASE session # [s \in Lesson |-> Absent]
    <3> DEFINE with(x) == [s \in Lesson |-> IF s = Least(Lesson) THEN SessionRow(x[1], x[2], FALSE)
                                           ELSE Absent]
               pairs   == UNION {Acting(first, Applicant, d) \X {d} : d \in Day}
    <3>1. days = Day /\ session \in {with(x) : x \in pairs}
      BY <1>3, <2>3
    <3>2. PICK x \in pairs : session = with(x)
      <4> HIDE DEF with, pairs
      <4> QED
        BY <3>1
    <3>3. PICK d \in Day : x \in Acting(first, Applicant, d) \X {d}
      <4>1. x \in UNION {Acting(first, Applicant, d) \X {d} : d \in Day}
        BY <3>2
      <4> QED
        BY <4>1
    <3>4. x[1] \in Acting(first, Applicant, d) /\ x[2] = d
      BY <3>3
    <3>5. session = [s \in Lesson |-> IF s = Least(Lesson) THEN SessionRow(x[1], d, FALSE)
                                      ELSE Absent]
      BY <3>2, <3>4
    <3> HIDE DEF with, pairs
    <3> QED
      BY <2>2, <3>1, <3>4, <3>5
  <2> QED
    BY <2>1, <2>3
<1>12. Types
  BY <1>2, <1>4, <1>7, <1>9, <1>10, <1>11, Ids DEF Types
<1>13. PeriodsNest
  BY <1>2, <1>3, <1>4 DEF PeriodsNest, Made, Absent
<1>14. Exclusive
  BY <1>4 DEF Exclusive
<1>15. \A c \in Registrar : Part(c) /\ DayPart(c)
  BY <1>4, <1>10 DEF Part, PlanPart, WeeklyPart, SessionPart, MovePart, LeavePart, DayPart
<1>16. LeaveAndSessionsAgree
  BY <1>11 DEF LeaveAndSessionsAgree, Agrees
<1> QED
  BY <1>9, <1>11, <1>12, <1>13, <1>14, <1>15, <1>16 DEF TInv, Placed, Days

\* The invariant, and what it says of days when forms are filled in from the
\* rows as they are.
LEMMA TimetableInvHolds == TimetableSpec => []TInv
<1>1. TimetableInit => TInv
  BY InitKeeps
<1>2. TInv /\ [TimetableNext]_timetableVars => TInv'
  <2> SUFFICES ASSUME TInv, [TimetableNext]_timetableVars PROVE TInv'
    OBVIOUS
  <2>1. CASE TimetableNext
    BY <2>1, StepKeeps DEF TimetableNext
  <2>2. CASE UNCHANGED timetableVars
    BY <2>2, StutterKeeps
  <2> QED
    BY <2>1, <2>2
<1> QED
  BY <1>1, <1>2, PTL DEF TimetableSpec

\* The variables have their types, for any teachers, assignments, sessions,
\* days and requests.
THEOREM TimetableTyped == TimetableSpec => []TimetableTypeOK
<1>1. TInv => TimetableTypeOK
  BY DEF TInv, Types, TimetableTypeOK, CourseRow, WeeklyRow, LessonRow, Sub
<1> QED
  BY <1>1, TimetableInvHolds, PTL

\* The year covers its semester and the semester its assignments, however the
\* requests that change them are interleaved (updateAcademicYear, updateSemester
\* and the assignments' handlers all lock the AcademicYear row).
THEOREM PeriodsStayNested == TimetableSpec => []PeriodsNest
<1>1. TInv => PeriodsNest
  BY DEF TInv
<1> QED
  BY <1>1, TimetableInvHolds, PTL

\* Sessions and the schedule agree with the assignments they refer to, also
\* when a form was filled in from rows that changed since: the request holds
\* the assignments when it checks them and until it writes.
THEOREM AssignmentsInUseHold == TimetableSpec => []UsedAssignmentsHold
<1>1. TInv => UsedAssignmentsHold
  BY DEF TInv, Placed, Fits, WeeklyFits, UsedAssignmentsHold
<1> QED
  BY <1>1, TimetableInvHolds, PTL

\* The sessions of a day agree with the leave of that day, when requests name
\* the teacher the assignment has (~Stale): then whoever writes a session holds
\* the day of its formal teacher.
THEOREM SessionsFollowLeave ==
    ASSUME ~Stale
    PROVE  TimetableSpec => []LeaveAndSessionsAgree
<1>1. TimetableInit => Days
  BY InitKeeps
<1>2. TInv /\ Days /\ [TimetableNext]_timetableVars => Days'
  <2> SUFFICES ASSUME TInv, Days, [TimetableNext]_timetableVars PROVE Days'
    OBVIOUS
  <2>1. CASE TimetableNext
    BY <2>1, StepKeeps DEF TimetableNext
  <2>2. CASE UNCHANGED timetableVars
    BY <2>2, StutterKeeps
  <2> QED
    BY <2>1, <2>2
<1>3. Days => LeaveAndSessionsAgree
  BY DEF Days
<1> QED
  BY <1>1, <1>2, <1>3, TimetableInvHolds, PTL DEF TimetableSpec

-----------------------------------------------------------------------------
(* The order of locks.                                                       *)

\* The order schedule-mutation-lock.ts:17-33 gives, User rows left out: the
\* leave or the schedule, the days, the year, the semester, assignments and
\* sessions, those of a kind by their ids.
Row(l) == l[1] # "user"
Tier(l) == IF l[1] \in {"leave", "weekly"} THEN 1
           ELSE IF l[1] = "day" THEN 2
           ELSE IF l[1] = "year" THEN 3
           ELSE IF l[1] = "semester" THEN 4
           ELSE IF l[1] = "assignment" THEN 5 ELSE 6
Place(l) == IF l[1] = "day" THEN l[2][2]
            ELSE IF l[1] \in {"assignment", "session"} THEN l[2] ELSE 0
Below(l, m) == Row(l) /\ Row(m) =>
    Tier(l) < Tier(m) \/ (Tier(l) = Tier(m) /\ Place(l) < Place(m))

Rising(q) == \A i, j \in DOMAIN q : i < j => Below(q[i], q[j])
\* A list of locks above tier lo, up to tier hi.
Run(q, lo, hi) ==
    Rising(q) /\ \A l \in Elements(q) : Row(l) => lo < Tier(l) /\ Tier(l) <= hi

\* How far up a request goes before its next step.
Top(j) == IF j.op = "generate" \/ (j.op = "approve" /\ j.at = "pending") THEN 1
          ELSE IF j.op = "session" /\ j.at = "discover" THEN IF j.scheduled THEN 4 ELSE 2
          ELSE IF \/ j.op = "reschedule" /\ j.at = "discover"
                  \/ j.op = "approve" /\ j.at = "list"
                  \/ j.op = "revoke" /\ j.at = "approved" THEN 2
          ELSE 6

OrderPart(c) ==
    LET j == registrar[c] IN
    /\ j.op = "idle" => held[c] = {}
    /\ Rising(j.need)
    /\ \A l \in held[c], m \in Elements(j.need) : Below(l, m)
    /\ \A l \in Claimed(c) : Row(l) => Tier(l) <= Top(j)
InOrderOfLocks == \A c \in Registrar : OrderPart(c)

LEMMA Tiers ==
    /\ \A l : Tier(l) \in 1 .. 6
    /\ \A t, d, k : LET l == <<"day", <<t, d>>, k>> IN Row(l) /\ Tier(l) = 2 /\ Place(l) = d
    /\ \A a, k : LET l == <<"assignment", a, k>> IN Row(l) /\ Tier(l) = 5 /\ Place(l) = a
    /\ \A s, k : LET l == <<"session", s, k>> IN Row(l) /\ Tier(l) = 6 /\ Place(l) = s
    /\ \A t, k : ~Row(<<"user", t, k>>)
    /\ Tier(TheYear) = 3 /\ Tier(TheWeekly) = 1 /\ Tier(TheLeave) = 1
    /\ Tier(<<"semester", "it", "update">>) = 4
<1>1. \A l : Tier(l) \in 1 .. 6
  BY DEF Tier
<1>2. \A t, d, k : LET l == <<"day", <<t, d>>, k>> IN Row(l) /\ Tier(l) = 2 /\ Place(l) = d
  BY DEF Row, Tier, Place
<1>3. \A a, k : LET l == <<"assignment", a, k>> IN Row(l) /\ Tier(l) = 5 /\ Place(l) = a
  BY DEF Row, Tier, Place
<1>4. \A s, k : LET l == <<"session", s, k>> IN Row(l) /\ Tier(l) = 6 /\ Place(l) = s
  BY DEF Row, Tier, Place
<1>5. \A t, k : ~Row(<<"user", t, k>>)
  BY DEF Row
<1>6. /\ Tier(TheYear) = 3 /\ Tier(TheWeekly) = 1 /\ Tier(TheLeave) = 1
      /\ Tier(<<"semester", "it", "update">>) = 4
  BY DEF Tier, TheYear, TheWeekly, TheLeave
<1> QED
  BY <1>1, <1>2, <1>3, <1>4, <1>5, <1>6

\* One list after another of higher tiers.
LEMMA RunJoined ==
    ASSUME NEW p \in Needs, NEW q \in Needs, NEW lo \in Nat, NEW mid \in Nat, NEW hi \in Nat,
           lo <= mid, mid <= hi, Run(p, lo, mid), Run(q, mid, hi)
    PROVE  p \o q \in Needs /\ Run(p \o q, lo, hi)
<1>1. p \o q \in Needs /\ Elements(p \o q) = Elements(p) \cup Elements(q)
  BY JoinedLocks
<1>2. /\ DOMAIN (p \o q) = 1 .. (Len(p) + Len(q)) /\ Len(p) \in Nat /\ Len(q) \in Nat
      /\ DOMAIN p = 1 .. Len(p) /\ DOMAIN q = 1 .. Len(q)
      /\ \A i \in 1 .. Len(p) : (p \o q)[i] = p[i]
      /\ \A i \in 1 .. Len(q) : (p \o q)[Len(p) + i] = q[i]
  BY DEF Needs
<1>3. \A l \in Elements(p \o q) : Row(l) => lo < Tier(l) /\ Tier(l) <= hi
  BY <1>1, Tiers DEF Run
<1>4. Rising(p \o q)
  <2> SUFFICES ASSUME NEW i \in DOMAIN (p \o q), NEW j \in DOMAIN (p \o q), i < j
               PROVE  Below((p \o q)[i], (p \o q)[j])
    BY DEF Rising
  <2>1. CASE j <= Len(p)
    <3>1. i \in DOMAIN p /\ j \in DOMAIN p /\ (p \o q)[i] = p[i] /\ (p \o q)[j] = p[j]
      BY <1>2, <2>1
    <3> QED
      BY <3>1 DEF Run, Rising
  <2>2. CASE i > Len(p)
    <3>1. /\ i - Len(p) \in DOMAIN q /\ j - Len(p) \in DOMAIN q /\ i - Len(p) < j - Len(p)
          /\ i = Len(p) + (i - Len(p)) /\ j = Len(p) + (j - Len(p))
      BY <1>2, <2>2
    <3>2. (p \o q)[i] = q[i - Len(p)] /\ (p \o q)[j] = q[j - Len(p)]
      BY <1>2, <3>1
    <3> QED
      BY <3>1, <3>2 DEF Run, Rising
  <2>3. CASE i <= Len(p) /\ j > Len(p)
    <3>1. /\ i \in DOMAIN p /\ j - Len(p) \in DOMAIN q /\ j = Len(p) + (j - Len(p))
      BY <1>2, <2>3
    <3>2. (p \o q)[i] = p[i] /\ (p \o q)[j] = q[j - Len(p)]
      BY <1>2, <3>1
    <3>3. p[i] \in Elements(p) /\ q[j - Len(p)] \in Elements(q)
      BY <3>1 DEF Elements
    <3>4. /\ Row(p[i]) => Tier(p[i]) <= mid
          /\ Row(q[j - Len(p)]) => mid < Tier(q[j - Len(p)])
      BY <3>3 DEF Run
    <3>5. Tier(p[i]) \in Nat /\ Tier(q[j - Len(p)]) \in Nat
      BY Tiers
    <3> QED
      BY <3>2, <3>4, <3>5 DEF Below
  <2> QED
    BY <1>2, <2>1, <2>2, <2>3
<1> QED
  BY <1>1, <1>3, <1>4 DEF Run

LEMMA RunWidens ==
    ASSUME NEW q, NEW lo \in Nat, NEW hi \in Nat, NEW x \in Nat, NEW y \in Nat,
           Run(q, lo, hi), x <= lo, hi <= y
    PROVE  Run(q, x, y)
<1>1. \A l \in Elements(q) : Row(l) => x < Tier(l) /\ Tier(l) <= y
  BY Tiers DEF Run
<1> QED
  BY <1>1 DEF Run

\* The lists the handlers take.
LEMMA SortedRun ==
    ASSUME NEW ids \in SUBSET Nat, IsFiniteSet(ids)
    PROVE  Run(Sorted("assignment", ids), 4, 5) /\ Run(Sorted("session", ids), 5, 6)
<1> DEFINE s == InOrder(ids)
<1>1. s \in Seq(ids) /\ Ascending(s)
  BY OrderedIds
<1> HIDE DEF s
<1>2. \A i, j \in DOMAIN s : s[i] \in Nat /\ (i < j => s[i] < s[j])
  <2>1. \A i \in DOMAIN s : s[i] \in ids
    BY <1>1
  <2> QED
    BY <1>1, <2>1 DEF Ascending
<1>3. Sorted("assignment", ids) = [i \in DOMAIN s |-> <<"assignment", s[i], "update">>]
  BY DEF Sorted, s
<1>4. Sorted("session", ids) = [i \in DOMAIN s |-> <<"session", s[i], "update">>]
  BY DEF Sorted, s
<1>5. Run(Sorted("assignment", ids), 4, 5)
  <2>1. Rising(Sorted("assignment", ids))
    BY <1>2, <1>3, Tiers DEF Rising, Below
  <2>2. \A l \in Elements(Sorted("assignment", ids)) : Tier(l) = 5
    BY <1>3, Tiers DEF Elements
  <2> QED
    BY <2>1, <2>2 DEF Run
<1>6. Run(Sorted("session", ids), 5, 6)
  <2>1. Rising(Sorted("session", ids))
    BY <1>2, <1>4, Tiers DEF Rising, Below
  <2>2. \A l \in Elements(Sorted("session", ids)) : Tier(l) = 6
    BY <1>4, Tiers DEF Elements
  <2> QED
    BY <2>1, <2>2 DEF Run
<1> QED
  BY <1>5, <1>6

LEMMA UserRun ==
    ASSUME NEW users, NEW lo, NEW hi
    PROVE  Run(Sorted("user", users), lo, hi) /\ Run(KeyShares(users), lo, hi)
<1>1. ASSUME NEW s, NEW k, NEW q, q = [i \in DOMAIN s |-> <<"user", s[i], k>>]
      PROVE  Run(q, lo, hi)
  <2>1. \A i \in DOMAIN q : ~Row(q[i])
    BY <1>1, Tiers
  <2> QED
    BY <2>1 DEF Run, Rising, Below, Elements
<1>2. Sorted("user", users) =
        [i \in DOMAIN InOrder(users) |-> <<"user", InOrder(users)[i], "update">>]
  BY DEF Sorted
<1>3. KeyShares(users) =
        [i \in DOMAIN InOrder(users \ {Nobody}) |-> <<"user", InOrder(users \ {Nobody})[i], "key">>]
  BY DEF KeyShares
<1>4. Run(Sorted("user", users), lo, hi)
  BY <1>1, <1>2
<1>5. Run(KeyShares(users), lo, hi)
  BY <1>1, <1>3
<1> QED
  BY <1>4, <1>5

LEMMA DaysRun ==
    ASSUME NEW t, NEW days \in SUBSET Day, IsFiniteSet(days)
    PROVE  Run(LeaveDates(t, days), 1, 2)
<1> DEFINE s == InOrder(days)
<1>1. s \in Seq(days) /\ Ascending(s)
  BY OrderedIds, Ids
<1> HIDE DEF s
<1>2. \A i, j \in DOMAIN s : s[i] \in Nat /\ (i < j => s[i] < s[j])
  <2>1. \A i \in DOMAIN s : s[i] \in days
    BY <1>1
  <2> QED
    BY <1>1, <2>1, Ids DEF Ascending
<1>3. LeaveDates(t, days) = [i \in DOMAIN s |-> <<"day", <<t, s[i]>>, "update">>]
  BY DEF LeaveDates, s
<1>4. Rising(LeaveDates(t, days))
  BY <1>2, <1>3, Tiers DEF Rising, Below
<1>5. \A l \in Elements(LeaveDates(t, days)) : Tier(l) = 2
  BY <1>3, Tiers DEF Elements
<1> QED
  BY <1>4, <1>5 DEF Run

LEMMA SingleRun ==
    /\ \A l : Run(<<l>>, Tier(l) - 1, Tier(l))
    /\ \A lo, hi : Run(<<>>, lo, hi)
    /\ Run(AcademicRows, 2, 4)
<1>1. ASSUME NEW l PROVE Run(<<l>>, Tier(l) - 1, Tier(l))
  <2>1. DOMAIN <<l>> = {1} /\ <<l>>[1] = l /\ Tier(l) \in Nat
    BY Tiers
  <2> QED
    BY <2>1 DEF Run, Rising, Elements
<1>2. \A lo, hi : Run(<<>>, lo, hi)
  BY DEF Run, Rising, Elements
<1>3. Run(AcademicRows, 2, 4)
  <2>1. AcademicRows = <<TheYear, <<"semester", "it", "update">>>>
    BY DEF AcademicRows, TheYear
  <2>2. DOMAIN AcademicRows = {1, 2} /\ AcademicRows[1] = TheYear
        /\ AcademicRows[2] = <<"semester", "it", "update">>
    BY <2>1
  <2>3. Rising(AcademicRows)
    BY <2>2, Tiers DEF Rising, Below
  <2>4. \A l \in Elements(AcademicRows) : 2 < Tier(l) /\ Tier(l) <= 4
    BY <2>2, Tiers DEF Elements
  <2> QED
    BY <2>3, <2>4 DEF Run
<1> QED
  BY <1>1, <1>2, <1>3

\* lockScheduleMutationRows keeps the order (schedule-mutation-lock.ts:54-60).
LEMMA MutationRun ==
    ASSUME NEW users \in SUBSET Teacher, IsFiniteSet(users),
           NEW assignments \in SUBSET Assignment, IsFiniteSet(assignments),
           NEW sessions \in SUBSET Lesson
    PROVE  Run(MutationRows(users, assignments, sessions), 2, 6)
<1> DEFINE u == Sorted("user", users)
           a == Sorted("assignment", assignments)
           s == Sorted("session", sessions)
<1>1. u \in Needs /\ Run(u, 2, 2)
  BY SortedLocks, Ids, RowLocks, UserRun
<1>2. a \in Needs
  BY SortedLocks, Ids, RowLocks DEF TheAssignment
<1>3. s \in Needs
  BY SortedLocks, Ids, RowLocks DEF TheSession
<1>4. Run(a, 4, 5)
  <2>1. assignments \in SUBSET Nat
    BY Ids
  <2> QED
    BY <2>1, SortedRun
<1>5. Run(s, 5, 6)
  <2>1. sessions \in SUBSET Nat /\ IsFiniteSet(sessions)
    BY Ids
  <2> QED
    BY <2>1, SortedRun
<1>6. MutationRows(users, assignments, sessions) = ((u \o AcademicRows) \o a) \o s
  BY DEF MutationRows
<1> HIDE DEF u, a, s
<1>7. u \o AcademicRows \in Needs /\ Run(u \o AcademicRows, 2, 4)
  BY <1>1, AcademicLocks, SingleRun, RunJoined
<1>8. (u \o AcademicRows) \o a \in Needs /\ Run((u \o AcademicRows) \o a, 2, 5)
  BY <1>2, <1>4, <1>7, RunJoined
<1>9. Run(((u \o AcademicRows) \o a) \o s, 2, 6)
  BY <1>3, <1>5, <1>8, RunJoined
<1> QED
  BY <1>6, <1>9

-----------------------------------------------------------------------------
(* What a step takes next.                                                   *)

\* The three ways of a step that is not Take.
Enters(c)  == /\ Comes(c)
              /\ \E job : Start(c, job) /\ Run(job.need, 0, Top(job))
Goes(c)    == /\ registrar[c].need = <<>>
              /\ \E job :
                    /\ Proceed(c, job) /\ job.op # "idle"
                    /\ Run(job.need, Top(registrar[c]), Top(job))
                    /\ Top(registrar[c]) <= Top(job)
Leads(c)   == Enters(c) \/ Goes(c) \/ Ends(c)

LEMMA Tops == \A j : Top(j) \in 1 .. 6
BY DEF Top

LEMMA LeadsKeeps ==
    ASSUME TInv, InOrderOfLocks, NEW c \in Registrar, Leads(c)
    PROVE  InOrderOfLocks'
<1>1. /\ registrar \in [Registrar -> Task] /\ held \in [Registrar -> SUBSET Lock]
      /\ OrderPart(c)
  BY DEF TInv, Types, InOrderOfLocks
<1>2. \A d \in Registrar \ {c} : registrar'[d] = registrar[d] /\ held'[d] = held[d]
  BY <1>1 DEF Leads, Enters, Goes, Start, Proceed, Ends
<1>3. \A d \in Registrar \ {c} : OrderPart(d)'
  BY <1>2 DEF InOrderOfLocks, OrderPart, Claimed
<1>4. CASE Enters(c)
  <2>1. PICK job : Start(c, job) /\ Run(job.need, 0, Top(job))
    BY <1>4 DEF Enters
  <2>2. registrar'[c] = job /\ held'[c] = held[c] /\ held[c] = {}
    BY <1>1, <1>4, <2>1 DEF Start, Enters, Comes, OrderPart, Waiting
  <2>3. Claimed(c)' = Elements(job.need)
    BY <2>2 DEF Claimed
  <2> QED
    BY <1>3, <2>1, <2>2, <2>3 DEF OrderPart, InOrderOfLocks, Run
<1>5. CASE Goes(c)
  <2>1. PICK job : /\ Proceed(c, job) /\ job.op # "idle"
                     /\ Run(job.need, Top(registrar[c]), Top(job))
                     /\ Top(registrar[c]) <= Top(job)
    BY <1>5 DEF Goes
  <2>2. registrar'[c] = job /\ held'[c] = held[c] /\ Claimed(c) = held[c]
    BY <1>1, <1>5, <2>1, AcademicLocks DEF Proceed, Goes, Claimed
  <2>3. Claimed(c)' = held[c] \cup Elements(job.need)
    BY <2>2 DEF Claimed
  <2>4. /\ \A l : Tier(l) \in Nat
        /\ Top(registrar[c]) \in Nat /\ Top(job) \in Nat
    BY Tiers, Tops
  <2>5. \A l \in held[c] : Row(l) => Tier(l) <= Top(registrar[c])
    BY <1>1, <2>2 DEF OrderPart
  <2>6. \A m \in Elements(job.need) : Row(m) => Top(registrar[c]) < Tier(m) /\ Tier(m) <= Top(job)
    BY <2>1 DEF Run
  <2>7. \A l \in held[c], m \in Elements(job.need) : Below(l, m)
    BY <2>4, <2>5, <2>6 DEF Below
  <2>8. \A l \in Claimed(c)' : Row(l) => Tier(l) <= Top(job)
    BY <2>1, <2>3, <2>4, <2>5, <2>6
  <2> QED
    BY <1>3, <2>1, <2>2, <2>7, <2>8 DEF OrderPart, InOrderOfLocks, Run
<1>6. CASE Ends(c)
  <2>1. registrar'[c] = Waiting /\ held'[c] = {} /\ Waiting.need = <<>>
    BY <1>1, <1>6 DEF Ends, Waiting
  <2>2. Claimed(c)' = {}
    BY <2>1, AcademicLocks DEF Claimed
  <2>3. Rising(<<>>) /\ Elements(<<>>) = {}
    BY AcademicLocks DEF Rising
  <2> QED
    BY <1>3, <2>1, <2>2, <2>3 DEF OrderPart, InOrderOfLocks
<1> QED
  BY <1>4, <1>5, <1>6 DEF Leads

\* The next lock of a list is below the rest of it.
LEMMA TakeInOrder ==
    ASSUME TInv, InOrderOfLocks, NEW c \in Registrar, Take(c)
    PROVE  InOrderOfLocks'
<1> DEFINE q == registrar[c].need
           l == Head(q)
<1>1. /\ Quiet(c) /\ Claimed(c)' = Claimed(c) /\ SameBut(registrar'[c], registrar[c])
      /\ q # <<>>
  BY TakeKeeps
<1>2. \A d \in Registrar \ {c} : OrderPart(d)'
  BY <1>1 DEF Quiet, Others, InOrderOfLocks, OrderPart, Claimed
<1>3. registrar[c] \in Task /\ q \in Seq(Lock)
  BY JobFields DEF TInv, Types, Needs
<1>4. held'[c] = held[c] \cup {l}
  BY DEF Take, TInv, Types
<1>5. registrar'[c].need = Tail(q)
  BY <1>3, JobFields DEF Take, TInv, Types
<1>6. OrderPart(c)
  BY DEF InOrderOfLocks
<1> HIDE DEF q
<1>7. /\ Len(q) \in Nat /\ Len(q) >= 1 /\ DOMAIN q = 1 .. Len(q) /\ l = q[1]
      /\ DOMAIN Tail(q) = 1 .. (Len(q) - 1)
      /\ \A i \in 1 .. (Len(q) - 1) : Tail(q)[i] = q[i + 1]
  BY <1>1, <1>3
<1>8. Rising(q) /\ \A k \in held[c], m \in Elements(q) : Below(k, m)
  BY <1>6 DEF OrderPart, q
<1>9. Rising(Tail(q))
  <2> SUFFICES ASSUME NEW i \in DOMAIN Tail(q), NEW j \in DOMAIN Tail(q), i < j
               PROVE  Below(Tail(q)[i], Tail(q)[j])
    BY DEF Rising
  <2>1. i + 1 \in DOMAIN q /\ j + 1 \in DOMAIN q /\ i + 1 < j + 1
    BY <1>7
  <2> QED
    BY <1>7, <1>8, <2>1 DEF Rising
<1>10. \A m \in Elements(Tail(q)) : Below(l, m) /\ m \in Elements(q)
  <2> SUFFICES ASSUME NEW i \in DOMAIN Tail(q)
               PROVE  Below(l, Tail(q)[i]) /\ Tail(q)[i] \in Elements(q)
    BY DEF Elements
  <2>1. 1 \in DOMAIN q /\ i + 1 \in DOMAIN q /\ 1 < i + 1 /\ Tail(q)[i] = q[i + 1]
    BY <1>7
  <2> QED
    BY <1>7, <1>8, <2>1 DEF Rising, Elements
<1>11. \A k \in held'[c], m \in Elements(Tail(q)) : Below(k, m)
  BY <1>4, <1>8, <1>10
<1>12. /\ registrar[c].op # "idle"
       /\ Top(registrar'[c]) = Top(registrar[c])
       /\ registrar'[c].op = registrar[c].op
  <2>1. registrar[c].op # "idle"
    BY <1>1, <1>3, JobFields DEF q
  <2> QED
    BY <1>1, <2>1 DEF SameBut, Top
<1>13. \A k \in Claimed(c)' : Row(k) => Tier(k) <= Top(registrar'[c])
  BY <1>1, <1>6, <1>12 DEF OrderPart
<1>14. OrderPart(c)'
  BY <1>5, <1>9, <1>11, <1>12, <1>13 DEF OrderPart
<1> QED
  BY <1>2, <1>14 DEF InOrderOfLocks

\* Calendar, assignments and the schedule.
LEMMA PlanLeads ==
    ASSUME TInv, NEW c \in Registrar, NEW a \in Assignment, NEW t \in Teacher, NEW span, NEW is,
           \/ AskYear(c, span) \/ AskSemester(c, span) \/ AskCreateAssignment(c, t, span)
           \/ AskUpdateAssignment(c, a, is, t, span)
    PROVE  Enters(c)
<1>1. Comes(c)
  BY DEF AskYear, AskSemester, AskCreateAssignment, AskUpdateAssignment
<1>2. ASSUME NEW job, Start(c, job), job.op \in {"year", "semester", "newAssignment", "assignment"},
             Run(job.need, 2, 6)
      PROVE  Enters(c)
  <2>1. Top(job) = 6
    BY <1>2 DEF Top
  <2> QED
    BY <1>1, <1>2, <2>1, RunWidens DEF Enters
<1>3. CASE AskYear(c, span)
  <2> DEFINE job == [op |-> "year", at |-> "check", days |-> span, need |-> <<Head(AcademicRows)>>]
  <2>1. Start(c, job)
    BY <1>3 DEF AskYear
  <2>2. Run(<<TheYear>>, 2, 3)
    BY SingleRun, Tiers
  <2>3. job.op = "year" /\ Run(job.need, 2, 6)
    BY <2>2, AcademicLocks, RunWidens
  <2> HIDE DEF job
  <2> QED
    BY <1>2, <2>1, <2>3
<1>4. CASE AskSemester(c, span)
  <2> DEFINE job == [op |-> "semester", at |-> "check", days |-> span, need |-> AcademicRows]
  <2>1. Start(c, job)
    BY <1>4 DEF AskSemester
  <2>2. job.op = "semester" /\ Run(job.need, 2, 6)
    BY SingleRun, RunWidens
  <2> HIDE DEF job
  <2> QED
    BY <1>2, <2>1, <2>2
<1>5. CASE AskCreateAssignment(c, t, span)
  <2> DEFINE job == [op |-> "newAssignment", at |-> "check",
                     row |-> [is |-> "on", teacher |-> t, days |-> span],
                     need |-> MutationRows({t}, {}, {})]
  <2>1. Start(c, job)
    BY <1>5 DEF AskCreateAssignment
  <2>2. Run(MutationRows({t}, {}, {}), 2, 6)
    BY MutationRun, FS_Singleton, FS_EmptySet
  <2>3. job.op = "newAssignment" /\ Run(job.need, 2, 6)
    BY <2>2
  <2> HIDE DEF job
  <2> QED
    BY <1>2, <2>1, <2>3
<1>6. CASE AskUpdateAssignment(c, a, is, t, span)
  <2> DEFINE q == MutationRows({assignment[a].teacher, t}, {a}, {})
             job == [op |-> "assignment", at |-> "check", id |-> a,
                     row |-> [is |-> is, teacher |-> t, days |-> span],
                     saw |-> assignment[a].teacher, need |-> q]
  <2>1. Start(c, job)
    BY <1>6 DEF AskUpdateAssignment
  <2>2. assignment[a].teacher \in Teacher
    BY <1>6, AssignmentRows DEF AskUpdateAssignment, TInv, CourseRow
  <2>3. Run(q, 2, 6)
    BY <2>2, MutationRun, FinitePair, FS_Singleton
  <2>4. job.op = "assignment" /\ Run(job.need, 2, 6)
    BY <2>3
  <2> HIDE DEF job, q
  <2> QED
    BY <1>2, <2>1, <2>4
<1> QED
  BY <1>3, <1>4, <1>5, <1>6

\* The last check of a request leads to no lock at all, or to User rows.
LEMMA LastLeads ==
    ASSUME NEW c \in Registrar, registrar[c].need = <<>>, NEW job, Proceed(c, job),
           job.op # "idle", Top(job) = 6,
           job.need = <<>> \/ \E users : job.need = KeyShares(users)
    PROVE  Leads(c)
<1>1. Run(job.need, Top(registrar[c]), Top(job))
  BY SingleRun, UserRun
<1>2. Top(registrar[c]) <= Top(job)
  BY Tops
<1> QED
  BY <1>1, <1>2 DEF Leads, Goes

LEMMA PassesLeads ==
    ASSUME TInv, NEW c \in Registrar, Passes(c), registrar[c].need = <<>>,
           registrar[c].op \in {"year", "semester", "newAssignment", "assignment"}
    PROVE  Leads(c)
<1> DEFINE job == [registrar[c] EXCEPT !.at = "commit"]
<1>1. registrar[c] \in Task
  BY DEF TInv, Types
<1>2. job.op = registrar[c].op /\ job.need = registrar[c].need
  BY <1>1, JobFields DEF PeriodJob, NewAssignmentJob, AssignmentJob
<1>3. Proceed(c, job)
  BY DEF Passes
<1> HIDE DEF job
<1>4. Top(job) = 6
  BY <1>2 DEF Top
<1> QED
  BY <1>2, <1>3, <1>4, LastLeads

LEMMA CheckLeads ==
    ASSUME TInv, NEW c \in Registrar,
           CheckAcademicYear(c) \/ CheckSemester(c) \/ CheckNewAssignment(c) \/ CheckAssignment(c)
    PROVE  Leads(c)
<1>1. /\ registrar[c].need = <<>>
      /\ registrar[c].op \in {"year", "semester", "newAssignment", "assignment"}
      /\ Passes(c) \/ Refuse(c)
  BY DEF CheckAcademicYear, CheckSemester, CheckNewAssignment, CheckAssignment, Ready
<1> QED
  BY <1>1, PassesLeads DEF Refuse, Leads

\* Whatever writes ends.
LEMMA WriteLeads ==
    ASSUME NEW c \in Registrar,
           \/ GiveUp(c) \/ UpdateAcademicYear(c) \/ UpdateSemester(c)
           \/ CreateTeachingAssignment(c) \/ UpdateTeachingAssignment(c) \/ WriteWeekly(c)
           \/ InsertSession(c) \/ WriteRescheduled(c) \/ WriteApproval(c) \/ RevokeLeave(c)
    PROVE  Leads(c)
BY DEF GiveUp, UpdateAcademicYear, UpdateSemester, CreateTeachingAssignment,
       UpdateTeachingAssignment, WriteWeekly, InsertSession, WriteRescheduled, WriteApproval,
       RevokeLeave, Refuse, Leads

LEMMA WeeklyLeads ==
    ASSUME TInv, NEW c \in Registrar, NEW a \in Assignment, NEW span, NEW is,
           AskWeekly(c, a, span, is) \/ ResolveWeekly(c)
    PROVE  Leads(c)
<1>1. CASE AskWeekly(c, a, span, is)
  <2> DEFINE s == Sorted("assignment", {a})
             q == IF weekly = Absent THEN AcademicRows \o s
                  ELSE <<<<"weekly", "it", "update">>>> \o AcademicRows \o s
             job == [op |-> "weekly", at |-> "read",
                     row |-> [is |-> is, of |-> a, teacher |-> assignment[a].teacher,
                              days |-> span],
                     need |-> q]
  <2>1. Comes(c) /\ Start(c, job)
    BY <1>1 DEF AskWeekly
  <2>2. job.need = q /\ Top(job) = 6
    BY DEF Top
  <2> HIDE DEF job
  <2>3. s \in Needs /\ Run(s, 4, 5)
    <3>1. {a} \in SUBSET Nat /\ IsFiniteSet({a})
      BY Ids, FS_Singleton
    <3> QED
      BY <3>1, SortedLocks, SortedRun, RowLocks DEF TheAssignment
  <2>4. <<TheWeekly>> \in Needs /\ Run(<<TheWeekly>>, 0, 1)
    BY SingleRun, Tiers, AcademicLocks
  <2> HIDE DEF s
  <2>5. AcademicRows \o s \in Needs /\ Run(AcademicRows \o s, 2, 5)
    BY <2>3, AcademicLocks, SingleRun, RunJoined
  <2>6. <<TheWeekly>> \o AcademicRows \in Needs /\ Run(<<TheWeekly>> \o AcademicRows, 0, 4)
    <3>1. Run(<<TheWeekly>>, 0, 2)
      BY <2>4, RunWidens
    <3> QED
      BY <2>4, <3>1, AcademicLocks, SingleRun, RunJoined
  <2>7. Run((<<TheWeekly>> \o AcademicRows) \o s, 0, 5)
    BY <2>3, <2>6, RunJoined
  <2>8. q = AcademicRows \o s \/ q = (<<TheWeekly>> \o AcademicRows) \o s
    <3>1. <<<<"weekly", "it", "update">>>> \o AcademicRows \o s
            = (<<TheWeekly>> \o AcademicRows) \o s
      BY DEF TheWeekly
    <3>2. CASE weekly = Absent
      BY <3>2
    <3>3. CASE weekly # Absent
      BY <3>1, <3>3
    <3> QED
      BY <3>2, <3>3
  <2> HIDE DEF q
  <2>9. Run(q, 0, 6)
    <3>1. Run(AcademicRows \o s, 0, 6)
      BY <2>5, RunWidens
    <3>2. Run((<<TheWeekly>> \o AcademicRows) \o s, 0, 6)
      BY <2>7, RunWidens
    <3> QED
      BY <2>8, <3>1, <3>2
  <2> QED
    BY <2>1, <2>2, <2>9 DEF Enters, Leads
<1>2. CASE ResolveWeekly(c)
  <2> DEFINE j == registrar[c]
             q == IF weekly # Absent /\ weekly.teacher = j.row.teacher THEN <<>>
                  ELSE KeyShares({j.row.teacher})
             job == [j EXCEPT !.at = "write", !.need = q]
  <2>1. j.op = "weekly" /\ j.need = <<>> /\ (Proceed(c, job) \/ Refuse(c))
    BY <1>2 DEF ResolveWeekly, Ready
  <2>2. j \in WeeklyJob
    BY <2>1, JobFields DEF TInv, Types
  <2>3. job.op = "weekly" /\ job.need = q
    BY <2>2 DEF WeeklyJob
  <2>4. q = <<>> \/ \E users : q = KeyShares(users)
    OBVIOUS
  <2> HIDE DEF job, q
  <2>5. Top(job) = 6
    BY <2>3 DEF Top
  <2> QED
    BY <2>1, <2>3, <2>4, <2>5, LastLeads DEF Refuse, Leads
<1> QED
  BY <1>1, <1>2

\* Sessions: days, year and semester, assignments, session.
LEMMA AskSessionLeads ==
    ASSUME TInv, NEW c \in Registrar, NEW d \in Day
    PROVE  /\ \A a \in Assignment, t \in Teacher : AskSession(c, a, t, d) => Leads(c)
           /\ AskGenerate(c, d) => Leads(c)
<1>1. ASSUME NEW a \in Assignment, NEW t \in Teacher, AskSession(c, a, t, d) PROVE Leads(c)
  <2> DEFINE q == LeaveDates(assignment[a].teacher, {d})
             job == [op |-> "session", at |-> "discover", of |-> a, teacher |-> t,
                     day |-> d, saw |-> assignment[a].teacher, scheduled |-> FALSE,
                     need |-> q]
  <2>1. Comes(c) /\ Start(c, job)
    BY <1>1 DEF AskSession
  <2>2. Run(q, 1, 2)
    BY DaysRun, FS_Singleton
  <2> HIDE DEF q
  <2>3. job.need = q /\ Top(job) = 2
    BY DEF Top
  <2> HIDE DEF job
  <2>4. Run(q, 0, 2)
    BY <2>2, RunWidens
  <2> QED
    BY <2>1, <2>3, <2>4 DEF Leads, Enters
<1>2. ASSUME AskGenerate(c, d) PROVE Leads(c)
  <2> DEFINE job == [op |-> "generate", at |-> "schedule", day |-> d, need |-> <<TheWeekly>>]
  <2>1. Comes(c) /\ Start(c, job)
    BY <1>2 DEF AskGenerate, TheWeekly
  <2>2. job.need = <<TheWeekly>> /\ Top(job) = 1
    BY DEF Top
  <2> HIDE DEF job
  <2>3. Run(<<TheWeekly>>, 0, 1)
    BY SingleRun, Tiers
  <2> QED
    BY <2>1, <2>2, <2>3 DEF Leads, Enters
<1> QED
  BY <1>1, <1>2

LEMMA ReadScheduleLeads ==
    ASSUME TInv, NEW c \in Registrar, ReadSchedule(c)
    PROVE  Leads(c)
<1> DEFINE j == registrar[c]
           q == LeaveDates(weekly.teacher, {j.day})
           job == [op |-> "session", at |-> "discover", of |-> weekly.of,
                   teacher |-> weekly.teacher, day |-> j.day, saw |-> weekly.teacher,
                   scheduled |-> TRUE, need |-> q \o AcademicRows]
<1>1. j.op = "generate" /\ j.at = "schedule" /\ j.need = <<>>
  BY DEF ReadSchedule, Ready
<1>2. CASE ~(weekly.is = "on" /\ j.day \in weekly.days)
  BY <1>2 DEF ReadSchedule, Refuse, Leads
<1>3. CASE weekly.is = "on" /\ j.day \in weekly.days
  <2>1. Proceed(c, job)
    BY <1>3 DEF ReadSchedule
  <2>2. j.day \in Day /\ weekly.teacher \in Teacher
    BY <1>1, <1>3, JobFields DEF TInv, Types, GenerateJob, WeeklyRow, Absent
  <2>3. q \in Needs /\ Run(q, 1, 2)
    BY <2>2, OneDay, DaysRun, FS_Singleton
  <2> HIDE DEF q
  <2>4. Run(q \o AcademicRows, 1, 4)
    BY <2>3, AcademicLocks, SingleRun, RunJoined
  <2>5. job.op = "session" /\ job.need = q \o AcademicRows /\ Top(job) = 4
    BY DEF Top
  <2> HIDE DEF job
  <2>6. Top(j) = 1
    BY <1>1 DEF Top
  <2>7. Run(job.need, Top(j), Top(job)) /\ Top(j) <= Top(job) /\ job.op # "idle"
    BY <2>4, <2>5, <2>6
  <2> QED
    BY <1>1, <2>1, <2>7 DEF Leads, Goes
<1> QED
  BY <1>2, <1>3

LEMMA DiscoverActingLeads ==
    ASSUME TInv, NEW c \in Registrar, DiscoverActing(c)
    PROVE  Leads(c)
<1> DEFINE j == registrar[c]
           rows == IF j.scheduled THEN <<>> ELSE AcademicRows
<1>1. j.op = "session" /\ j.at = "discover" /\ j.need = <<>>
  BY DEF DiscoverActing, Ready
<1>2. CASE Refuse(c)
  BY <1>2 DEF Refuse, Leads
<1>3. ASSUME NEW who \in Acting(j.of, j.saw, j.day),
             Proceed(c, [op |-> "session", at |-> "check", of |-> j.of,
                         teacher |-> j.teacher, day |-> j.day,
                         scheduled |-> j.scheduled, who |-> who,
                         need |-> rows \o Sorted("assignment", {j.of, who.of})])
      PROVE  Leads(c)
  <2> DEFINE s == Sorted("assignment", {j.of, who.of})
             job == [op |-> "session", at |-> "check", of |-> j.of, teacher |-> j.teacher,
                     day |-> j.day, scheduled |-> j.scheduled, who |-> who, need |-> rows \o s]
  <2>1. j \in DiscoverJob
    BY <1>1, JobFields DEF TInv, Types
  <2>2. /\ j.of \in Assignment /\ j.teacher \in Teacher /\ j.day \in Day /\ j.saw \in Teacher
        /\ j.scheduled \in BOOLEAN
    BY <2>1 DEF DiscoverJob
  <2>3. who.of \in Assignment
    BY <1>3, <2>2, ActingIs DEF TInv, Types, Who
  <2>4. s \in Needs /\ Run(s, 4, 5)
    <3>1. IsFiniteSet({j.of, who.of}) /\ {j.of, who.of} \in SUBSET Nat
      BY <2>2, <2>3, FinitePair, Ids
    <3>2. s \in Needs
      BY <2>2, <2>3, TwoAssignments
    <3> QED
      BY <3>1, <3>2, SortedRun
  <2> HIDE DEF s
  <2>5. rows \in Needs /\ Run(rows, IF j.scheduled THEN 4 ELSE 2, 4)
    BY AcademicLocks, SingleRun
  <2>6. Top(j) = IF j.scheduled THEN 4 ELSE 2
    BY <1>1 DEF Top
  <2> HIDE DEF rows
  <2>7. Run(rows \o s, Top(j), 5)
    BY <2>4, <2>5, <2>6, RunJoined
  <2>8. Proceed(c, job)
    BY <1>3 DEF s
  <2>9. job.op = "session" /\ job.need = rows \o s /\ Top(job) = 6
    BY DEF Top
  <2> HIDE DEF job, j
  <2>10. Run(rows \o s, Top(j), 6) /\ Top(j) <= 6
    BY <2>6, <2>7, RunWidens
  <2> QED
    BY <1>1, <2>8, <2>9, <2>10 DEF Leads, Goes, j
<1> QED
  BY <1>2, <1>3 DEF DiscoverActing

LEMMA CheckSessionLeads ==
    ASSUME NEW c \in Registrar, CheckSession(c)
    PROVE  Leads(c)
<1> DEFINE j == registrar[c]
           w == Revalidated(j.who, j.of)
           keys == KeyShares({w.teacher, w.source} \cup (IF w.onLeave THEN {j.teacher} ELSE {}))
           job == [op |-> "session", at |-> "insert", row |-> SessionRow(w, j.day, j.scheduled),
                   need |-> keys]
<1>1. j.need = <<>> /\ (Refuse(c) \/ Proceed(c, job))
  BY DEF CheckSession, Ready
<1>2. \E users : keys = KeyShares(users)
  OBVIOUS
<1> HIDE DEF keys
<1>3. job.op = "session" /\ job.need = keys /\ Top(job) = 6
  BY DEF Top
<1> HIDE DEF job
<1> QED
  BY <1>1, <1>2, <1>3, LastLeads DEF Refuse, Leads

LEMMA AskRescheduleLeads ==
    ASSUME TInv, NEW c \in Registrar, NEW s \in Lesson, NEW d \in Day, AskReschedule(c, s, d)
    PROVE  Leads(c)
<1> DEFINE r == session[s]
           t == FormalTeacher(r)
           q == LeaveDates(t, {r.day, d})
           job == [op |-> "reschedule", at |-> "discover", id |-> s, day |-> d, saw |-> r,
                   need |-> q]
<1>1. Comes(c) /\ Start(c, job) /\ r # Absent
  BY DEF AskReschedule
<1>2. r.day \in Day
  BY <1>1 DEF TInv, Types, LessonRow
<1>3. Run(q, 1, 2)
  <2>1. IsFiniteSet({r.day, d}) /\ {r.day, d} \in SUBSET Day
    BY <1>2, FinitePair
  <2> HIDE DEF r, t
  <2> QED
    BY <2>1, DaysRun
<1> HIDE DEF q
<1>4. job.need = q /\ Top(job) = 2
  BY DEF Top
<1> HIDE DEF job
<1>5. Run(q, 0, 2)
  BY <1>3, RunWidens
<1> QED
  BY <1>1, <1>4, <1>5 DEF Leads, Enters

LEMMA DiscoverRescheduledLeads ==
    ASSUME TInv, NEW c \in Registrar, DiscoverRescheduled(c)
    PROVE  Leads(c)
<1> DEFINE j == registrar[c]
           a == FormalAssignment(j.saw)
<1>1. j.op = "reschedule" /\ j.at = "discover" /\ j.need = <<>>
  BY DEF DiscoverRescheduled, Ready
<1>2. CASE Refuse(c)
  BY <1>2 DEF Refuse, Leads
<1>3. ASSUME NEW who \in Acting(a, assignment[a].teacher, j.day),
             Proceed(c, [op |-> "reschedule", at |-> "check", id |-> j.id,
                         day |-> j.day, saw |-> j.saw, who |-> who,
                         need |-> MutationRows({}, {a, who.of}, {j.id})])
      PROVE  Leads(c)
  <2> DEFINE need == MutationRows({}, {a, who.of}, {j.id})
             job == [op |-> "reschedule", at |-> "check", id |-> j.id, day |-> j.day,
                     saw |-> j.saw, who |-> who, need |-> need]
  <2>1. j \in MoveJob
    BY <1>1, JobFields DEF TInv, Types
  <2>2. j.id \in Lesson /\ j.saw \in LessonRow
    BY <2>1 DEF MoveJob
  <2>3. Paired(j.saw) /\ Made(a)
    BY <1>1 DEF TInv, Part, MovePart
  <2>4. a \in Assignment
    BY <2>2, <2>3, FormalIs
  <2>5. assignment[a].teacher \in Teacher
    BY <2>3, <2>4, AssignmentRows DEF TInv, CourseRow
  <2>6. who.of \in Assignment
    BY <1>3, <2>4, <2>5, ActingIs DEF TInv, Types, Who
  <2>7. Run(need, 2, 6)
    <3>1. IsFiniteSet({}) /\ IsFiniteSet({a, who.of})
      BY FS_EmptySet, FinitePair
    <3>2. {a, who.of} \in SUBSET Assignment /\ {j.id} \in SUBSET Lesson
      BY <2>2, <2>4, <2>6
    <3> HIDE DEF a, j
    <3> QED
      BY <3>1, <3>2, MutationRun
  <2>8. Proceed(c, job)
    BY <1>3
  <2> HIDE DEF need
  <2>9. job.op = "reschedule" /\ job.need = need /\ Top(job) = 6
    BY DEF Top
  <2> HIDE DEF job
  <2>10. Top(j) = 2
    BY <1>1 DEF Top
  <2> QED
    BY <1>1, <2>7, <2>8, <2>9, <2>10 DEF Leads, Goes
<1> QED
  BY <1>2, <1>3 DEF DiscoverRescheduled

LEMMA CheckRescheduledLeads ==
    ASSUME NEW c \in Registrar, CheckRescheduled(c)
    PROVE  Leads(c)
<1> DEFINE j == registrar[c]
           a == FormalAssignment(j.saw)
           w == Revalidated(j.who, a)
           keys == KeyShares((IF w.teacher = j.saw.teacher THEN {} ELSE {w.teacher, w.source})
                             \cup (IF w.onLeave THEN {FormalTeacher(j.saw)} ELSE {}))
           job == [op |-> "reschedule", at |-> "write", id |-> j.id,
                   row |-> Rescheduled(session[j.id], w, j.day), need |-> keys]
<1>1. j.need = <<>> /\ (Refuse(c) \/ Proceed(c, job))
  BY DEF CheckRescheduled, Ready
<1>2. \E users : keys = KeyShares(users)
  OBVIOUS
<1> HIDE DEF keys
<1>3. job.op = "reschedule" /\ job.need = keys /\ Top(job) = 6
  BY DEF Top
<1> HIDE DEF job
<1> QED
  BY <1>1, <1>2, <1>3, LastLeads DEF Refuse, Leads

\* The leave, its days, a User row; then assignments and sessions.
LEMMA LeaveAsksLead ==
    ASSUME TInv, NEW c \in Registrar
    PROVE  /\ \A sub : AskApproval(c, sub) => Leads(c)
           /\ AskRevocation(c) => Leads(c)
<1>1. LeaveRow = <<TheLeave>> /\ LeaveRow \in Needs /\ Run(LeaveRow, 0, 1)
  <2>1. LeaveRow = <<TheLeave>>
    BY DEF LeaveRow, TheLeave
  <2>2. Run(<<TheLeave>>, 0, 1)
    BY SingleRun, Tiers
  <2> QED
    BY <2>1, <2>2, AcademicLocks
<1>2. ASSUME NEW sub, AskApproval(c, sub) PROVE Leads(c)
  <2> DEFINE job == [op |-> "approve", at |-> "pending", sub |-> sub, need |-> LeaveRow]
  <2>1. Comes(c) /\ Start(c, job)
    BY <1>2 DEF AskApproval
  <2>2. job.need = LeaveRow /\ Top(job) = 1
    BY DEF Top
  <2> HIDE DEF job
  <2> QED
    BY <1>1, <2>1, <2>2 DEF Leads, Enters
<1>3. ASSUME AskRevocation(c) PROVE Leads(c)
  <2> DEFINE q == LeaveDates(Applicant, {LeaveDay})
             job == [op |-> "revoke", at |-> "approved", need |-> LeaveRow \o q]
  <2>1. Comes(c) /\ Start(c, job)
    BY <1>3 DEF AskRevocation
  <2>2. q \in Needs /\ Run(q, 1, 2)
    BY OneDay, Ids, DaysRun, FS_Singleton
  <2> HIDE DEF q
  <2>3. Run(LeaveRow \o q, 0, 2)
    BY <1>1, <2>2, RunJoined
  <2>4. job.need = LeaveRow \o q /\ Top(job) = 2
    BY DEF Top
  <2> HIDE DEF job
  <2> QED
    BY <2>1, <2>3, <2>4 DEF Leads, Enters
<1> QED
  BY <1>2, <1>3

LEMMA ReadPendingLeads ==
    ASSUME TInv, NEW c \in Registrar, ReadPending(c)
    PROVE  Leads(c)
<1> DEFINE j == registrar[c]
           q == LeaveDates(Applicant, {LeaveDay})
           u == Sorted("user", {j.sub} \ {Nobody})
           job == [op |-> "approve", at |-> "list", sub |-> j.sub, need |-> q \o u]
<1>1. j.op = "approve" /\ j.at = "pending" /\ j.need = <<>>
  BY DEF ReadPending, Ready
<1>2. CASE leave.is # "pending"
  BY <1>2 DEF ReadPending, Refuse, Leads
<1>3. CASE leave.is = "pending"
  <2>1. Proceed(c, job)
    BY <1>3 DEF ReadPending
  <2>2. j.sub \in Sub
    BY <1>1, JobFields DEF TInv, Types, ApproveJob
  <2>3. q \in Needs /\ Run(q, 1, 2)
    BY OneDay, Ids, DaysRun, FS_Singleton
  <2>4. u \in Needs /\ Run(u, 2, 2)
    BY <2>2, OneSub, UserRun
  <2> HIDE DEF q, u
  <2>5. Run(q \o u, 1, 2)
    BY <2>3, <2>4, RunJoined
  <2>6. job.op = "approve" /\ job.need = q \o u /\ Top(job) = 2
    BY DEF Top
  <2> HIDE DEF job
  <2>7. Top(j) = 1
    BY <1>1 DEF Top
  <2>8. Run(job.need, Top(j), Top(job)) /\ Top(j) <= Top(job) /\ job.op # "idle"
    BY <2>5, <2>6, <2>7
  <2> QED
    BY <1>1, <2>1, <2>8 DEF Leads, Goes
<1> QED
  BY <1>2, <1>3

LEMMA ListSessionsLeads ==
    ASSUME TInv, NEW c \in Registrar, ListSessions(c)
    PROVE  Leads(c)
<1> DEFINE sub == registrar[c].sub
           stand == {a \in Assignment : StandsIn(a, sub, LeaveDay)}
           listed == LeaveSessions
           swaps == sub # Nobody /\ listed # {}
           by == IF swaps /\ stand # {} THEN Least(stand) ELSE Nobody
           rows == {by} \cup {FormalAssignment(session[s]) : s \in listed}
           need == IF swaps THEN MutationRows({}, rows, listed) ELSE <<>>
           job == [op |-> "approve", at |-> "check", sub |-> sub, by |-> by,
                   saw |-> [s \in listed |-> session[s]], need |-> need]
<1>1. registrar[c].op = "approve" /\ registrar[c].at = "list" /\ registrar[c].need = <<>>
  BY DEF ListSessions, Ready
<1>2. CASE swaps /\ stand = {}
  BY <1>2 DEF ListSessions, Refuse, Leads
<1>3. CASE ~(swaps /\ stand = {})
  <2>1. Proceed(c, job)
    BY <1>3 DEF ListSessions
  <2>2. /\ listed \in SUBSET Lesson
        /\ \A s \in listed : session[s].is # "none"
    BY ListedSessions DEF TInv
  <2>3. \A s \in listed : FormalAssignment(session[s]) \in Assignment
    BY <2>2, SessionRows, FormalIs DEF TInv, Placed, Fits
  <2>4. Run(need, 2, 6)
    <3>1. CASE swaps
      <4> DEFINE f == [s \in listed |-> FormalAssignment(session[s])]
      <4>1. f \in [listed -> Assignment] /\ {f[s] : s \in listed} =
              {FormalAssignment(session[s]) : s \in listed}
        BY <2>3
      <4>2. IsFiniteSet({FormalAssignment(session[s]) : s \in listed})
        <5> HIDE DEF f
        <5>1. IsFiniteSet({f[s] : s \in listed})
          BY <2>2, <4>1, FiniteImage
        <5> QED
          BY <4>1, <5>1
      <4>3. by \in Assignment
        <5>1. stand # {} /\ stand \in SUBSET Nat
          BY <1>3, <3>1, Ids
        <5>2. by \in stand
          BY <3>1, <5>1, HasLeast
        <5> QED
          BY <5>2
      <4>4. IsFiniteSet(rows)
        <5>1. IsFiniteSet({by})
          BY FS_Singleton
        <5> QED
          BY <4>2, <5>1, FS_Union
      <4>5. rows \in SUBSET Assignment
        BY <2>3, <4>3
      <4>6. IsFiniteSet({})
        BY FS_EmptySet
      <4>7. need = MutationRows({}, rows, listed)
        BY <3>1
      <4> HIDE DEF rows, need, listed, by
      <4> QED
        BY <2>2, <4>4, <4>5, <4>6, <4>7, MutationRun
    <3>2. CASE ~swaps
      BY <3>2, SingleRun
    <3> QED
      BY <3>1, <3>2
  <2> HIDE DEF need
  <2>5. job.op = "approve" /\ job.need = need /\ Top(job) = 6
    BY DEF Top
  <2> HIDE DEF job
  <2>6. Top(registrar[c]) = 2
    BY <1>1 DEF Top
  <2>7. Run(job.need, Top(registrar[c]), Top(job)) /\ Top(registrar[c]) <= Top(job)
    BY <2>4, <2>5, <2>6
  <2> QED
    BY <1>1, <2>1, <2>5, <2>7 DEF Leads, Goes
<1> QED
  BY <1>2, <1>3

LEMMA CheckApprovalLeads ==
    ASSUME TInv, NEW c \in Registrar, CheckApproval(c)
    PROVE  Leads(c)
<1> DEFINE j == registrar[c]
           need == KeyShares(IF DOMAIN j.saw = {} THEN {} ELSE {Applicant})
           job == [j EXCEPT !.at = "write", !.need = need]
<1>1. /\ j.op = "approve" /\ j.at = "check" /\ j.need = <<>>
      /\ Refuse(c) \/ Proceed(c, job)
  BY DEF CheckApproval, Ready
<1>2. j \in ApproveListJob
  BY <1>1, JobFields DEF TInv, Types
<1>3. \E users : need = KeyShares(users)
  OBVIOUS
<1> HIDE DEF need
<1>4. job.op = "approve" /\ job.at = "write" /\ job.need = need
  BY <1>1, <1>2 DEF ApproveListJob
<1> HIDE DEF job
<1>5. Top(job) = 6
  BY <1>4 DEF Top
<1> QED
  BY <1>1, <1>3, <1>4, <1>5, LastLeads DEF Refuse, Leads

LEMMA ListSubstitutedLeads ==
    ASSUME TInv, NEW c \in Registrar, ListSubstituted(c)
    PROVE  Leads(c)
<1> DEFINE listed == LeaveSessions
           rows == ({session[s].of : s \in listed} \cup {session[s].sourceOf : s \in listed})
                   \ {Nobody}
           a == Sorted("assignment", rows)
           q == Sorted("session", listed)
           k == KeyShares(IF \E s \in listed : session[s].source = Applicant
                          THEN {Applicant} ELSE {})
           job == [op |-> "revoke", at |-> "write", saw |-> [s \in listed |-> session[s]],
                   need |-> (a \o q) \o k]
<1>1. registrar[c].op = "revoke" /\ registrar[c].at = "approved" /\ registrar[c].need = <<>>
  BY DEF ListSubstituted, Ready
<1>2. CASE Refuse(c)
  BY <1>2 DEF Refuse, Leads
<1>3. CASE ~Refuse(c)
  <2>1. Proceed(c, job)
    BY <1>3 DEF ListSubstituted
  <2>2. /\ listed \in SUBSET Lesson
        /\ \A s \in listed : session[s].is # "none"
    BY ListedSessions DEF TInv
  <2>3. \A s \in listed : /\ session[s].of \in Assignment
                          /\ session[s].sourceOf \in Assignment \cup {Nobody}
    BY <2>2, SessionRows DEF TInv, LessonRow
  <2>4. a \in Needs /\ Run(a, 4, 5)
    <3> DEFINE f == [s \in listed |-> session[s].of]
               g == [s \in listed |-> session[s].sourceOf]
               F == {f[s] : s \in listed}
               G == {g[s] : s \in listed}
    <3>1. rows = (F \cup G) \ {Nobody}
      OBVIOUS
    <3>2. IsFiniteSet(F) /\ IsFiniteSet(G)
      <4>1. listed \in SUBSET Lesson
        BY <2>2
      <4>2. f \in [listed -> Assignment] /\ g \in [listed -> Assignment \cup {Nobody}]
        BY <2>3
      <4> HIDE DEF f, g, listed
      <4>3. IsFiniteSet({f[s] : s \in listed})
        BY <4>1, <4>2, FiniteImage
      <4>4. IsFiniteSet({g[s] : s \in listed})
        BY <4>1, <4>2, FiniteImage
      <4> QED
        BY <4>3, <4>4
    <3>3. rows \in SUBSET Assignment
      BY <2>3
    <3> HIDE DEF F, G, rows
    <3>4. IsFiniteSet(rows)
      <4>1. IsFiniteSet(F \cup G)
        BY <3>2, FS_Union
      <4> QED
        BY <3>1, <4>1, FS_Difference
    <3>5. \A i \in rows : <<"assignment", i, "update">> \in Lock
      BY <3>3, RowLocks DEF TheAssignment
    <3>6. rows \in SUBSET Nat
      BY <3>3, Ids
    <3> QED
      BY <3>4, <3>5, <3>6, SortedLocks, SortedRun
  <2>5. q \in Needs /\ Run(q, 5, 6)
    <3> HIDE DEF listed
    <3>1. \A i \in listed : <<"session", i, "update">> \in Lock
      BY <2>2, RowLocks DEF TheSession
    <3>2. listed \in SUBSET Nat /\ IsFiniteSet(listed)
      BY <2>2, Ids
    <3> QED
      BY <3>1, <3>2, SortedLocks, SortedRun
  <2>6. k \in Needs /\ Run(k, 6, 6)
    <3> DEFINE p == ~\E s \in listed : session[s].source = Applicant
    <3>1. k = KeyShares(IF p THEN {} ELSE {Applicant}) /\ p \in BOOLEAN
      OBVIOUS
    <3> HIDE DEF p, k
    <3> QED
      BY <3>1, ApplicantKey, UserRun
  <2> HIDE DEF a, q, k
  <2>7. a \o q \in Needs /\ Run(a \o q, 4, 6)
    BY <2>4, <2>5, RunJoined
  <2>8. Run((a \o q) \o k, 4, 6)
    BY <2>6, <2>7, RunJoined
  <2>9. job.op = "revoke" /\ job.need = (a \o q) \o k /\ Top(job) = 6
    BY DEF Top
  <2> HIDE DEF job
  <2>10. Top(registrar[c]) = 2
    BY <1>1 DEF Top
  <2>11. Run((a \o q) \o k, 2, 6)
    BY <2>8, RunWidens
  <2>12. Run(job.need, Top(registrar[c]), Top(job)) /\ Top(registrar[c]) <= Top(job)
    BY <2>9, <2>10, <2>11
  <2> QED
    BY <1>1, <2>1, <2>9, <2>12 DEF Leads, Goes
<1> QED
  BY <1>2, <1>3

-----------------------------------------------------------------------------
(* The order holds, and so only User rows close a circle.                    *)

LEMMA StepInOrder ==
    ASSUME TInv, InOrderOfLocks, NEW c \in Registrar,
           \/ Take(c) \/ GiveUp(c)
           \/ Calendar(c) \/ Assignments(c) \/ Schedules(c) \/ Sessions(c) \/ LeaveReview(c)
    PROVE  InOrderOfLocks'
<1>1. CASE Take(c)
  BY <1>1, TakeInOrder
<1>2. CASE GiveUp(c)
  BY <1>2, WriteLeads, LeadsKeeps
<1>3. CASE Calendar(c)
  <2>1. Assignment # {} /\ Teacher # {}
    BY TimetableAssumption
  <2>2. Leads(c)
    BY <1>3, <2>1, PlanLeads, CheckLeads, WriteLeads DEF Calendar, Leads
  <2> QED
    BY <2>2, LeadsKeeps
<1>4. CASE Assignments(c)
  <2>1. Assignment # {}
    BY TimetableAssumption
  <2>2. Leads(c)
    BY <1>4, <2>1, PlanLeads, CheckLeads, WriteLeads DEF Assignments, Leads
  <2> QED
    BY <2>2, LeadsKeeps
<1>5. CASE Schedules(c)
  <2>1. Assignment # {}
    BY TimetableAssumption
  <2>2. Leads(c)
    BY <1>5, <2>1, WeeklyLeads, WriteLeads DEF Schedules
  <2> QED
    BY <2>2, LeadsKeeps
<1>6. CASE Sessions(c)
  <2>1. Leads(c)
    BY <1>6, AskSessionLeads, ReadScheduleLeads, DiscoverActingLeads, CheckSessionLeads,
       AskRescheduleLeads, DiscoverRescheduledLeads, CheckRescheduledLeads, WriteLeads
       DEF Sessions
  <2> QED
    BY <2>1, LeadsKeeps
<1>7. CASE LeaveReview(c)
  <2>1. Leads(c)
    BY <1>7, LeaveAsksLead, ReadPendingLeads, ListSessionsLeads, CheckApprovalLeads,
       ListSubstitutedLeads, WriteLeads DEF LeaveReview
  <2> QED
    BY <2>1, LeadsKeeps
<1> QED
  BY <1>1, <1>2, <1>3, <1>4, <1>5, <1>6, <1>7

LEMMA InOrderHolds == TimetableSpec => []InOrderOfLocks
<1>1. TimetableInit => InOrderOfLocks
  <2> SUFFICES ASSUME TimetableInit, NEW c \in Registrar PROVE OrderPart(c)
    BY DEF InOrderOfLocks
  <2>1. registrar[c] = Waiting /\ held[c] = {} /\ Waiting.need = <<>>
    BY DEF TimetableInit, Waiting
  <2>2. Elements(<<>>) = {} /\ Rising(<<>>)
    BY AcademicLocks DEF Rising
  <2> QED
    BY <2>1, <2>2 DEF OrderPart, Claimed
<1>2. TInv /\ InOrderOfLocks /\ [TimetableNext]_timetableVars => InOrderOfLocks'
  <2> SUFFICES ASSUME TInv, InOrderOfLocks, [TimetableNext]_timetableVars
               PROVE  InOrderOfLocks'
    OBVIOUS
  <2>1. CASE TimetableNext
    BY <2>1, StepInOrder DEF TimetableNext
  <2>2. CASE UNCHANGED timetableVars
    BY <2>2 DEF timetableVars, InOrderOfLocks, OrderPart, Claimed
  <2> QED
    BY <2>1, <2>2
<1> QED
  BY <1>1, <1>2, TimetableInvHolds, PTL DEF TimetableSpec

LEMMA HasGreatest ==
    ASSUME NEW S \in SUBSET Nat, IsFiniteSet(S), S # {}
    PROVE  \E m \in S : \A n \in S : n <= m
<1> DEFINE s == InOrder(S)
<1>1. s \in Seq(S) /\ Elements(s) = S /\ Ascending(s)
  BY OrderedIds
<1> HIDE DEF s
<1>2. /\ Len(s) \in Nat /\ DOMAIN s = 1 .. Len(s)
      /\ \A i \in 1 .. Len(s) : s[i] \in S /\ s[i] \in Nat
  <2>1. s \in Seq(S)
    BY <1>1
  <2>2. Len(s) \in Nat /\ DOMAIN s = 1 .. Len(s) /\ \A i \in 1 .. Len(s) : s[i] \in S
    BY <2>1
  <2> QED
    BY <2>2
<1>3. Len(s) \in DOMAIN s
  BY <1>1, <1>2 DEF Elements
<1>4. \A i \in DOMAIN s : s[i] <= s[Len(s)]
  BY <1>1, <1>2, <1>3 DEF Ascending
<1> QED
  BY <1>1, <1>2, <1>3, <1>4 DEF Elements

\* Of requests that wait for one another none waits for a row below all the
\* others wait for: the one that waits for the highest waits for a request
\* that waits for a still higher one.
LEMMA RowsCloseNoCircle ==
    ASSUME TInv, InOrderOfLocks, IsFiniteSet(Registrar)
    PROVE  OnlyUserRowsDeadlock
<1> SUFFICES ASSUME NEW S \in DeadLocked,
                    \A c \in S : Head(registrar[c].need)[1] # "user"
             PROVE  FALSE
  BY DEF OnlyUserRowsDeadlock
<1> DEFINE next(c)  == Head(registrar[c].need)
           tier(c)  == Tier(next(c))
           place(c) == Place(next(c))
<1>1. S \in SUBSET Registrar /\ S # {} /\ \A c \in S : Blockers(c) \cap S # {}
  BY DEF DeadLocked
<1>2. \A c \in S : next(c) \in Elements(registrar[c].need) /\ next(c) \in Lock /\ Row(next(c))
  <2> SUFFICES ASSUME NEW c \in S
               PROVE  /\ next(c) \in Elements(registrar[c].need) /\ next(c) \in Lock
                      /\ Row(next(c))
    OBVIOUS
  <2>1. registrar[c].need # <<>> /\ registrar[c].need \in Seq(Lock)
    BY <1>1, JobFields DEF Blockers, TInv, Types, Needs
  <2>2. 1 \in DOMAIN registrar[c].need /\ next(c) = registrar[c].need[1] /\ next(c) \in Lock
    BY <2>1
  <2> QED
    BY <2>2 DEF Elements, Row
<1>3. \A c \in S : tier(c) \in 1 .. 6 /\ place(c) \in Nat
  <2>1. \A l \in Lock : Place(l) \in Nat
    <3> SUFFICES ASSUME NEW l \in Lock PROVE Place(l) \in Nat
      OBVIOUS
    <3>1. CASE l[1] = "day"
      BY <3>1, Ids DEF Lock, Place
    <3>2. CASE l[1] \in {"assignment", "session"}
      BY <3>2, Ids DEF Lock, Place
    <3> QED
      BY <3>1, <3>2 DEF Place
  <2> QED
    BY <1>2, <2>1, Tiers
<1>4. ASSUME NEW c \in S
      PROVE  \E d \in S : tier(c) < tier(d) \/ (tier(c) = tier(d) /\ place(c) < place(d))
  <2>1. PICK d \in S : \E l \in held[d] : Clash(l, next(c))
    BY <1>1 DEF Blockers
  <2>2. PICK l \in held[d] : Clash(l, next(c))
    BY <2>1
  <2>3. Row(l) /\ Tier(l) = tier(c) /\ Place(l) = place(c)
    BY <1>2, <2>2 DEF Clash, Row, Tier, Place
  <2>4. Below(l, next(d))
    BY <1>1, <1>2 DEF InOrderOfLocks, OrderPart
  <2> QED
    BY <1>2, <2>3, <2>4 DEF Below
<1> HIDE DEF tier, place
<1>5. PICK k \in S : \A c \in S : tier(c) <= tier(k)
  <2> DEFINE T == {tier(c) : c \in S}
  <2>1. T # {} /\ T \in SUBSET (1 .. 6) /\ T \in SUBSET Nat
    BY <1>1, <1>3
  <2>2. IsFiniteSet(T)
    <3> HIDE DEF T
    <3>1. IsFiniteSet(1 .. 6)
      BY 1 \in Int, 6 \in Int, FS_Interval
    <3> QED
      BY <2>1, <3>1, FS_Subset
  <2>3. PICK m \in T : \A n \in T : n <= m
    <3> HIDE DEF T
    <3> QED
      BY <2>1, <2>2, HasGreatest
  <2> QED
    BY <2>3
<1> DEFINE P == {c \in S : tier(c) = tier(k)}
           f == [c \in P |-> place(c)]
<1>6. PICK c \in P : \A d \in P : place(d) <= place(c)
  <2> DEFINE N == {f[x] : x \in P}
  <2>1. P \in SUBSET Registrar /\ IsFiniteSet(P)
    BY <1>1, FS_Subset
  <2>2. N # {} /\ N \in SUBSET Nat
    BY <1>3
  <2>3. IsFiniteSet(N)
    <3>1. f \in Surjection(P, N)
      BY DEF Surjection
    <3> HIDE DEF f, N, P
    <3> QED
      BY <2>1, <3>1, FS_Surjection
  <2>4. PICK m \in N : \A n \in N : n <= m
    <3> HIDE DEF N
    <3> QED
      BY <2>2, <2>3, HasGreatest
  <2>5. N = {place(x) : x \in P}
    OBVIOUS
  <2> HIDE DEF N, f
  <2> QED
    BY <2>4, <2>5
<1>7. PICK d \in S : tier(c) < tier(d) \/ (tier(c) = tier(d) /\ place(c) < place(d))
  BY <1>4
<1>8. tier(d) <= tier(k) /\ tier(c) = tier(k) /\ tier(d) \in Nat /\ tier(c) \in Nat
  BY <1>3, <1>5
<1>9. d \in P /\ place(d) <= place(c) /\ place(c) \in Nat /\ place(d) \in Nat
  BY <1>3, <1>6, <1>7, <1>8
<1> QED
  BY <1>7, <1>8, <1>9

\* However many requests and whatever forms they come with, those that wait
\* for one another wait because of a User row: leaves, schedules, days, the
\* year, the semester, assignments and sessions are always locked in the order
\* of schedule-mutation-lock.ts:17-33.
THEOREM OnlyUserRowsInCircles ==
    ASSUME IsFiniteSet(Registrar)
    PROVE  TimetableSpec => []OnlyUserRowsDeadlock
<1>1. TInv /\ InOrderOfLocks => OnlyUserRowsDeadlock
  BY RowsCloseNoCircle
<1> QED
  BY <1>1, TimetableInvHolds, InOrderHolds, PTL

=============================================================================
