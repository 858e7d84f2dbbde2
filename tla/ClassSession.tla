---------------------------- MODULE ClassSession ----------------------------
(***************************************************************************)
(* One class session from its schedule to its reconciliation: the session  *)
(* row, its roster, attendance, journal and teacher presence, the leave of *)
(* its teacher, the auto-missed job and the reconciliation jobs            *)
(* (modules attendance-class, teacher-leave and reconciliation).           *)
(*                                                                         *)
(* A transaction is one step.  What a handler reads before its transaction *)
(* is a step of its own, remembered until the transaction uses it.  The    *)
(* checks of permissions and geofence only refuse requests and are left    *)
(* out.  A class whose code is one of grade XI or XII is frozen: its       *)
(* sessions are not opened, and reconciled without a look at their rows.   *)
(* updateClass may give a class another code at any time, so that every    *)
(* handler that asks finds it frozen or not.                               *)
(***************************************************************************)
EXTENDS Integers, FiniteSets

CONSTANTS
    Student,    \* students that may be enrolled in the class
    Client,     \* browsers that show the session's attendance list
    Formal,     \* the teacher the schedule names, who may apply for leave
    Substitute, \* the teacher a reviewer may put in
    CameIn,     \* persons with a gate IN of the day
    MaxDeaths,  \* bound: jobs that die half-way
    None

Teacher  == {Formal, Substitute}
Status   == {"SCHEDULED", "OPEN", "CLOSED", "MISSED"}
Mark     == {"HADIR", "ALPA"}  \* TELAT is treated like HADIR; IZIN and SAKIT are never flagged
Row      == [st : Mark, review : {"DEFAULTED", "CONFIRMED", "CORRECTED"}]
Presence == [st : {"HADIR", "EXCUSED_ABSENCE", "ALPA_MENGAJAR"}, checkIn : BOOLEAN,
             checkOut : BOOLEAN]

ASSUME SessionAssumption ==
    /\ Formal # Substitute
    /\ MaxDeaths \in Nat
    /\ None \notin Teacher \cup Status \cup Row \cup Presence

VARIABLES
    status,      \* Session.status
    teacher,     \* Session.teacherId
    swapped,     \* substitutionSourceTeacherId is set
    reconciled,  \* reconciledAt is set
    rosterState, \* Session.rosterState
    roster,      \* SessionRoster rows
    waived,      \* history: the class was frozen when reconciledAt was set
    att,         \* StudentAttendance rows
    journal,     \* the SessionJournal exists
    presence,    \* TeacherSessionPresence rows
    leave,       \* status of Formal's TeacherLeave for the day
    flags,       \* ReconciliationFlag rows, resolved or not
    view,        \* rows that did not change since a client loaded them
    opening,     \* openSession requests before their transaction
    bulking,     \* bulkConfirm requests before their transaction
    missing,     \* the auto-missed job
    pending,     \* the reconciliation job has the session on its list
    review,      \* the leave review before it writes
    deaths       \* jobs that died so far

rowVars == <<status, teacher, swapped, reconciled, waived, rosterState, roster>>
jobVars == <<opening, bulking, missing, pending, review, deaths>>
vars    == <<rowVars, att, journal, presence, leave, flags, view, jobVars>>

FlagType == {"ALPA", "BOLOS_KELAS", "LUPA_TAP_GERBANG", "GATE_IN_TANPA_PRESENSI",
             "TIDAK_MENGAJAR", "ANOMALI_BUKA_TANPA_GERBANG"}

TypeOK ==
    /\ status \in Status
    /\ teacher \in Teacher
    /\ swapped \in BOOLEAN /\ reconciled \in BOOLEAN
    /\ waived \in BOOLEAN
    /\ journal \in BOOLEAN /\ pending \in BOOLEAN
    /\ rosterState \in {"PENDING", "VERIFIED", "BACKFILLED_UNVERIFIED"}
    /\ roster \subseteq Student
    /\ att \in [Student -> Row \cup {None}]
    /\ \A s \in Student : att[s] # None => s \in roster
    /\ presence \in [Teacher -> Presence \cup {None}]
    /\ leave \in {"PENDING", "APPROVED", "ENDED"}
    /\ flags \subseteq FlagType \X (Student \cup Teacher)
    /\ view \in [Client -> SUBSET Student]
    /\ opening \subseteq [teacher : Teacher, self : BOOLEAN]
    /\ bulking \subseteq Mark
    /\ missing \in [pc : {"leave", "mark", "reconcile"}, teacher : Teacher,
                    excused : BOOLEAN] \cup {None}
    /\ review \in [sub : {Substitute, None}, seen : Status \cup {None}] \cup {None}
    /\ deaths \in Nat

Init ==
    /\ status = "SCHEDULED"
    /\ teacher = Formal
    /\ swapped = FALSE
    /\ reconciled = FALSE
    /\ rosterState = "PENDING"
    /\ roster = {}
    /\ waived = FALSE
    /\ att = [s \in Student |-> None]
    /\ journal = FALSE
    /\ presence = [t \in Teacher |-> None]
    /\ leave = "PENDING"
    /\ flags = {}
    /\ view = [c \in Client |-> {}]
    /\ opening = {}
    /\ bulking = {}
    /\ missing = None
    /\ pending = FALSE
    /\ review = None
    /\ deaths = 0

-----------------------------------------------------------------------------
(* Rosters and rows.                                                       *)

Default == [st |-> "ALPA", review |-> "DEFAULTED"]

\* ensureDefaultAttendances: rows that are missing, skipDuplicates.
WithDefaults(R) == [s \in Student |-> IF s \in R /\ att[s] = None THEN Default ELSE att[s]]

Unreviewed(A) == {s \in Student : A[s] # None /\ A[s].review = "DEFAULTED"}

\* updatedAt changes with every write, so that clients have to load again.
Written == {s \in Student : att'[s] # att[s]}
Touch(S) == view' = [c \in Client |-> view[c] \ S]

\* assertUsableRosterState.
RosterUsable == rosterState # "PENDING"

\* captureSessionRoster: nothing if there is a roster, and otherwise the
\* students enrolled that day - whoever they are.
Capture == IF roster # {} THEN roster' = roster ELSE roster' \in SUBSET Student

Excuse(p) == IF p = None
             THEN [st |-> "EXCUSED_ABSENCE", checkIn |-> FALSE, checkOut |-> FALSE]
             ELSE [p EXCEPT !.st = "EXCUSED_ABSENCE"]

-----------------------------------------------------------------------------
(* The teacher's session.                                                  *)

\* openSession reads the session, and with it the teacher; self says whether
\* the actor is that teacher or somebody of the staff.  (Started later than
\* SCHEDULED, the request is refused, and so it is for a frozen class - but
\* nobody asks again for that in the transaction.)
OpenRead ==
    /\ status = "SCHEDULED"
    /\ \E self \in BOOLEAN : opening' = opening \cup {[teacher |-> teacher, self |-> self]}
    /\ UNCHANGED <<rowVars, att, journal, presence, leave, flags, view, bulking,
                   missing, pending, review, deaths>>

\* The transaction of openSession.  The presence is that of the teacher read
\* before.
OpenCommit(r) ==
    /\ r \in opening
    /\ opening' = opening \ {r}
    /\ \/ /\ status # "SCHEDULED"
          /\ UNCHANGED <<status, rosterState, roster, att, view, presence>>
       \/ /\ status = "SCHEDULED"
          /\ status' = "OPEN"
          /\ Capture
          /\ rosterState' = "VERIFIED"
          /\ att' = WithDefaults(roster')
          /\ Touch(Written)
          /\ presence' = [presence EXCEPT ![r.teacher] =
                [st |-> IF r.self THEN "HADIR" ELSE "EXCUSED_ABSENCE",
                 checkIn |-> TRUE, checkOut |-> FALSE]]
    /\ UNCHANGED <<teacher, swapped, reconciled, waived, journal, leave, flags,
                   bulking, missing, pending, review, deaths>>

\* upsertJournal.
WriteJournal ==
    /\ status = "OPEN"
    /\ journal' = TRUE
    /\ UNCHANGED <<rowVars, att, presence, leave, flags, view, jobVars>>

\* A client loads the list.  (Loaded before the session is OPEN it serves nothing:
\* opening writes every row.)
Load(c) ==
    /\ status = "OPEN"
    /\ view' = [view EXCEPT ![c] = Student]
    /\ UNCHANGED <<rowVars, att, journal, presence, leave, flags, jobVars>>

\* Mutant of Record: the versions the client sent are not compared.
RecordUnversioned(c, S, st) ==
    /\ status = "OPEN"
    /\ S # {} /\ S \subseteq roster
    /\ att' = [s \in Student |-> IF s \in S THEN [st |-> st, review |-> "CONFIRMED"] ELSE att[s]]
    /\ Touch(S)
    /\ UNCHANGED <<rowVars, journal, presence, leave, flags, jobVars>>

\* recordAttendance: a batch of rows, all with the version the client loaded
\* or none of them; the transaction asks once more whether the session is OPEN.
Record(c, S, st) ==
    /\ status = "OPEN"
    /\ RosterUsable
    /\ S # {} /\ S \subseteq roster \cap view[c]
    /\ att' = [s \in Student |-> IF s \in S THEN [st |-> st, review |-> "CONFIRMED"] ELSE att[s]]
    /\ Touch(S)
    /\ UNCHANGED <<rowVars, journal, presence, leave, flags, jobVars>>

\* bulkConfirmDefaults asks whether the session is OPEN before its transaction
\* and not in it.
BulkRead(st) ==
    /\ status = "OPEN"
    /\ RosterUsable /\ roster # {}
    /\ bulking' = bulking \cup {st}
    /\ UNCHANGED <<rowVars, att, journal, presence, leave, flags, view, opening,
                   missing, pending, review, deaths>>

\* The transaction of bulkConfirmDefaults: only rows that are still defaults.
BulkCommit(st) ==
    /\ st \in bulking
    /\ bulking' = bulking \ {st}
    /\ LET A == WithDefaults(roster)
       IN  att' = [s \in Student |-> IF s \in Unreviewed(A) THEN [st |-> st, review |-> "CONFIRMED"]
                                     ELSE A[s]]
    /\ Touch(Written)
    /\ UNCHANGED <<rowVars, journal, presence, leave, flags, opening, missing,
                   pending, review, deaths>>

\* Mutants of Close: defaults stay as they are; an earlier reconciliation counts.
CloseUnreviewed(self, finalize) ==
    /\ status = "OPEN" /\ journal /\ RosterUsable
    /\ att' = WithDefaults(roster)
    /\ Touch(Written)
    /\ status' = "CLOSED"
    /\ reconciled' = FALSE /\ waived' = FALSE
    /\ presence' = [presence EXCEPT ![teacher] =
            IF @ = None THEN [st |-> IF self THEN "HADIR" ELSE "EXCUSED_ABSENCE",
                              checkIn |-> FALSE, checkOut |-> TRUE]
            ELSE [@ EXCEPT !.checkOut = TRUE]]
    /\ UNCHANGED <<teacher, swapped, rosterState, roster, journal, leave, flags,
                   jobVars>>
CloseStillReconciled(self, finalize) ==
    /\ status = "OPEN" /\ journal /\ RosterUsable /\ finalize
    /\ att' = [s \in Student |-> IF s \in Unreviewed(WithDefaults(roster))
                                 THEN [Default EXCEPT !.review = "CONFIRMED"]
                                 ELSE WithDefaults(roster)[s]]
    /\ Touch(Written)
    /\ status' = "CLOSED"
    /\ presence' = [presence EXCEPT ![teacher] =
            IF @ = None THEN [st |-> IF self THEN "HADIR" ELSE "EXCUSED_ABSENCE",
                              checkIn |-> FALSE, checkOut |-> TRUE]
            ELSE [@ EXCEPT !.checkOut = TRUE]]
    /\ UNCHANGED <<teacher, swapped, reconciled, rosterState, roster, waived, journal,
                   leave, flags, jobVars>>

\* closeSession, which locks the row and looks again.  (The teacher it read
\* before does not change once the session is OPEN.)
Close(self, finalize) ==
    LET A == WithDefaults(roster) IN
    /\ status = "OPEN"
    /\ journal
    /\ RosterUsable
    /\ Unreviewed(A) = {} \/ finalize
    /\ att' = [s \in Student |-> IF s \in Unreviewed(A) THEN [Default EXCEPT !.review = "CONFIRMED"]
                                 ELSE A[s]]
    /\ Touch(Written)
    /\ status' = "CLOSED"
    /\ reconciled' = FALSE /\ waived' = FALSE
    /\ presence' = [presence EXCEPT ![teacher] =
            IF @ = None THEN [st |-> IF self THEN "HADIR" ELSE "EXCUSED_ABSENCE",
                              checkIn |-> FALSE, checkOut |-> TRUE]
            ELSE [@ EXCEPT !.checkOut = TRUE]]
    /\ UNCHANGED <<teacher, swapped, rosterState, roster, journal, leave, flags,
                   jobVars>>

\* Mutant of Correct: any student of the school.
CorrectAnyone(s, st) ==
    /\ status \in {"OPEN", "CLOSED"}
    /\ RosterUsable
    /\ att' = [att EXCEPT ![s] = [st |-> st, review |-> "CORRECTED"]]
    /\ Touch({s})
    /\ UNCHANGED <<rowVars, journal, presence, leave, flags, jobVars>>

\* correctAttendance: no version is asked for, and reconciledAt stays.
Correct(s, st) ==
    /\ status \in {"OPEN", "CLOSED"}
    /\ RosterUsable
    /\ s \in roster
    /\ att' = [att EXCEPT ![s] = [st |-> st, review |-> "CORRECTED"]]
    /\ Touch({s})
    /\ UNCHANGED <<rowVars, journal, presence, leave, flags, jobVars>>

-----------------------------------------------------------------------------
(* The repair of sessions that nobody opened.                              *)

\* Mutant of RepairRoster: a roster that is there may be repaired.
RepairRosterAgain ==
    /\ status # "SCHEDULED"
    /\ roster' \in SUBSET Student
    /\ {s \in Student : att[s] # None} \subseteq roster'
    /\ rosterState' = "BACKFILLED_UNVERIFIED"
    /\ UNCHANGED <<status, teacher, swapped, reconciled, waived, att, journal, presence,
                   leave, flags, view, jobVars>>

\* repairSessionRoster: the students enrolled then, and those with rows.
RepairRoster ==
    /\ status # "SCHEDULED"
    /\ ~RosterUsable
    /\ \E R \in SUBSET Student :
        roster' = (IF roster # {} THEN roster ELSE R) \cup {s \in Student : att[s] # None}
    /\ rosterState' = "BACKFILLED_UNVERIFIED"
    /\ UNCHANGED <<status, teacher, swapped, reconciled, waived, att, journal, presence,
                   leave, flags, view, jobVars>>

\* recoverMissedSession, within seven days; the presence stays as it is.
RecoverMissed ==
    /\ status = "MISSED"
    /\ roster = {} /\ ~RosterUsable
    /\ Capture
    /\ rosterState' = "BACKFILLED_UNVERIFIED"
    /\ att' = WithDefaults(roster')
    /\ Touch(Written)
    /\ status' = "OPEN"
    /\ reconciled' = FALSE /\ waived' = FALSE
    /\ UNCHANGED <<teacher, swapped, journal, presence, leave, flags, jobVars>>

-----------------------------------------------------------------------------
(* The auto-missed job and the reconciliation.                             *)

\* runAutoMissedSessions lists the session ...
MissRead ==
    /\ missing = None
    /\ status = "SCHEDULED"
    /\ missing' = [pc |-> "leave", teacher |-> teacher, excused |-> FALSE]
    /\ UNCHANGED <<rowVars, att, journal, presence, leave, flags, view, opening,
                   bulking, pending, review, deaths>>

\* ... looks for an approved leave of the teacher it listed ...
MissLeave ==
    /\ missing # None /\ missing.pc = "leave"
    /\ missing' = [missing EXCEPT !.pc = "mark",
                                  !.excused = leave = "APPROVED" /\ missing.teacher = Formal]
    /\ UNCHANGED <<rowVars, att, journal, presence, leave, flags, view, opening,
                   bulking, pending, review, deaths>>

\* Mutant of MissMark: the update does not ask for SCHEDULED.
MissMarkBlind ==
    /\ missing # None /\ missing.pc = "mark"
    /\ missing' = [missing EXCEPT !.pc = "reconcile"]
    /\ status' = "MISSED"
    /\ reconciled' = FALSE /\ waived' = FALSE
    /\ UNCHANGED <<teacher, swapped, rosterState, roster, att, journal, presence,
                   leave, flags, view, opening, bulking, pending, review, deaths>>

\* ... marks it MISSED if it is still SCHEDULED ...
MissMark ==
    /\ missing # None /\ missing.pc = "mark"
    /\ \/ /\ status # "SCHEDULED"
          /\ missing' = None
          /\ UNCHANGED <<status, reconciled, waived, presence>>
       \/ /\ status = "SCHEDULED"
          /\ missing' = [missing EXCEPT !.pc = "reconcile"]
          /\ status' = "MISSED"
          /\ reconciled' = FALSE /\ waived' = FALSE
          /\ LET st == IF missing.excused THEN "EXCUSED_ABSENCE" ELSE "ALPA_MENGAJAR"
             IN  presence' = [presence EXCEPT ![missing.teacher] =
                    [Excuse(@) EXCEPT !.st = st]]
    /\ UNCHANGED <<teacher, swapped, rosterState, roster, att, journal, leave,
                   flags, view, opening, bulking, pending, review, deaths>>

\* The flags reconcileSession derives of a class that is not frozen.  (The ones
\* it derives from the day's gate and prayer rows alone are left out.)
Derived ==
    LET listed == IF RosterUsable THEN roster ELSE {}
        Are(st) == {s \in listed : att[s] # None /\ att[s].st = st}
        p == presence[teacher]
    IN  {"ALPA"} \X (Are("ALPA") \ CameIn)
        \cup {"BOLOS_KELAS"} \X (Are("ALPA") \cap CameIn)
        \cup {"LUPA_TAP_GERBANG"} \X (Are("HADIR") \ CameIn)
        \cup {"GATE_IN_TANPA_PRESENSI"} \X {s \in listed \cap CameIn : att[s] = None}
        \cup (IF p = None \/ p.st = "ALPA_MENGAJAR" THEN {<<"TIDAK_MENGAJAR", teacher>>} ELSE {})
        \cup (IF p # None /\ p.st = "HADIR" /\ teacher \notin CameIn
              THEN {<<"ANOMALI_BUKA_TANPA_GERBANG", teacher>>} ELSE {})

\* reconcileSession, under the row's lock: whatever its status is by now.  A
\* session of a frozen class is stamped and nothing is derived from its rows.
ReconcileTx ==
    /\ \/ /\ reconciled
          /\ UNCHANGED <<flags, reconciled, waived>>
       \/ /\ ~reconciled
          /\ \E frozen \in BOOLEAN :
                /\ flags' = IF frozen THEN flags ELSE flags \cup Derived
                /\ waived' = frozen
          /\ reconciled' = TRUE
    /\ UNCHANGED <<status, teacher, swapped, rosterState, roster, att, journal,
                   presence, leave, view, opening, bulking, review, deaths>>

\* ... and reconciles it.
MissReconcile ==
    /\ missing # None /\ missing.pc = "reconcile"
    /\ ReconcileTx
    /\ missing' = None
    /\ UNCHANGED pending

\* Mutant of ListPending: missed sessions are left to the auto-missed job.
ListPendingClosed ==
    /\ ~pending
    /\ status = "CLOSED" /\ ~reconciled
    /\ pending' = TRUE
    /\ UNCHANGED <<rowVars, att, journal, presence, leave, flags, view, opening,
                   bulking, missing, review, deaths>>

\* runPendingReconciliation lists the session, and takes its turn later.
ListPending ==
    /\ ~pending
    /\ status \in {"CLOSED", "MISSED"} /\ ~reconciled
    /\ pending' = TRUE
    /\ UNCHANGED <<rowVars, att, journal, presence, leave, flags, view, opening,
                   bulking, missing, review, deaths>>

ReconcilePending ==
    /\ pending
    /\ ReconcileTx
    /\ pending' = FALSE
    /\ UNCHANGED missing

\* A job dies between two of its transactions.
JobDies ==
    /\ deaths < MaxDeaths
    /\ deaths' = deaths + 1
    /\ \/ missing # None /\ missing' = None /\ UNCHANGED pending
       \/ pending /\ pending' = FALSE /\ UNCHANGED missing
    /\ UNCHANGED <<rowVars, att, journal, presence, leave, flags, view, opening,
                   bulking, review>>

-----------------------------------------------------------------------------
(* The teacher's leave.                                                    *)

\* The review's transaction looks for attendance that contradicts the leave ...
ReviewRead ==
    /\ review = None
    /\ leave = "PENDING"
    /\ Formal \notin CameIn
    /\ presence[Formal] # None => ~presence[Formal].checkIn
    /\ \E sub \in {Substitute, None} : review' = [sub |-> sub, seen |-> None]
    /\ UNCHANGED <<rowVars, att, journal, presence, leave, flags, view, opening,
                   bulking, missing, pending, deaths>>

\* ... and then at the session, on which it holds no lock yet.
ReviewList ==
    /\ review # None /\ review.seen = None
    /\ review' = [review EXCEPT !.seen = status]
    /\ UNCHANGED <<rowVars, att, journal, presence, leave, flags, view, opening,
                   bulking, missing, pending, deaths>>

\* At last it writes: with a substitute it locks the session and gives up if it
\* changed, without one it excuses the teacher as the session was read.
ReviewCommit ==
    /\ review # None /\ review.seen # None
    /\ review' = None
    /\ LET listed == review.seen \in {"SCHEDULED", "MISSED"}
           swap   == review.seen = "SCHEDULED" /\ review.sub # None
       IN  \/ /\ swap /\ status # "SCHEDULED"
              /\ UNCHANGED <<teacher, swapped, presence, leave>>
           \/ /\ swap => status = "SCHEDULED"
              /\ leave' = "APPROVED"
              /\ teacher' = IF swap THEN Substitute ELSE teacher
              /\ swapped' = (swapped \/ swap)
              /\ presence' = IF listed THEN [presence EXCEPT ![Formal] = Excuse(@)]
                             ELSE presence
    /\ UNCHANGED <<status, reconciled, rosterState, roster, waived, att, journal, flags,
                   view, opening, bulking, missing, pending, deaths>>

\* Mutant of Revoke: the session stays with the substitute.
RevokeKeepsSwap ==
    /\ leave = "APPROVED"
    /\ swapped => status = "SCHEDULED"
    /\ presence[Formal] # None => presence[Formal] = Excuse(None)
    /\ leave' = "ENDED"
    /\ presence' = [presence EXCEPT ![Formal] = None]
    /\ UNCHANGED <<rowVars, att, journal, flags, view, jobVars>>

\* revoke with rollbackTeacherApproval: refused once the substitute's session
\* began or the teacher's presence says more than the excuse.
Revoke ==
    /\ leave = "APPROVED"
    /\ swapped => teacher = Substitute /\ status = "SCHEDULED"
    /\ presence[Formal] # None => presence[Formal] = Excuse(None)
    /\ leave' = "ENDED"
    /\ presence' = [presence EXCEPT ![Formal] = None]
    /\ teacher' = IF swapped THEN Formal ELSE teacher
    /\ swapped' = FALSE
    /\ UNCHANGED <<status, reconciled, rosterState, roster, waived, att, journal, flags,
                   view, jobVars>>

\* Rejected by the reviewer, or cancelled by the applicant.
LeaveEnds ==
    /\ leave = "PENDING"
    /\ review = None
    /\ leave' = "ENDED"
    /\ UNCHANGED <<rowVars, att, journal, presence, flags, view, jobVars>>

-----------------------------------------------------------------------------
Teaching ==
    \/ OpenRead \/ \E r \in opening : OpenCommit(r)
    \/ WriteJournal
    \/ \E c \in Client : Load(c)
    \/ \E c \in Client, S \in SUBSET Student, st \in Mark : Record(c, S, st)
    \/ \E st \in Mark : BulkRead(st) \/ BulkCommit(st)
    \/ \E self, finalize \in BOOLEAN : Close(self, finalize)
    \/ \E s \in Student, st \in Mark : Correct(s, st)

Repairs == RepairRoster \/ RecoverMissed

Jobs ==
    \/ MissRead \/ MissLeave \/ MissMark \/ MissReconcile
    \/ ListPending \/ ReconcilePending
    \/ JobDies

Leaves == ReviewRead \/ ReviewList \/ ReviewCommit \/ Revoke \/ LeaveEnds

Next == Teaching \/ Repairs \/ Jobs \/ Leaves

Spec == Init /\ [][Next]_vars

\* The worker runs the reconciliation again and again.  Nothing obliges a
\* teacher, a reviewer or the auto-missed job to act.
FairSpec == Spec /\ WF_vars(ListPending) /\ WF_vars(ReconcilePending)

-----------------------------------------------------------------------------
(* Properties.                                                             *)

\* A closed session has a journal, and a reviewed row for each student of its
\* roster - although bulkConfirmDefaults and clients that were at work when it
\* closed do not all ask again whether it is OPEN.
ClosedReviewed ==
    status = "CLOSED" =>
        /\ journal
        /\ \A s \in roster : att[s] # None /\ att[s].review # "DEFAULTED"

\* What a teacher confirmed stands: it changes by a correction, or while the
\* session is OPEN by a client that had loaded the very row it overwrites.
ReviewedStands ==
    [][\A s \in Student :
        att[s] # None /\ att[s].review # "DEFAULTED" /\ att'[s] # att[s] =>
            \/ att'[s] # None /\ att'[s].review = "CORRECTED"
            \/ status = "OPEN" /\ \E c \in Client : s \in view[c]]_vars

\* Once recorded, a roster never changes (ADR_SESSION_ROSTER), whoever repairs,
\* recovers or opens the session in whatever order.
RosterFrozen == [][rosterState # "PENDING" => roster' = roster]_vars

\* A session is never both missed and held: no race between the auto-missed
\* job and an opening leaves rows of a lesson under MISSED.
MissedUntaught ==
    status = "MISSED" =>
        /\ \A s \in Student : att[s] = None
        /\ ~journal
        /\ \A t \in Teacher : presence[t] # None => ~presence[t].checkIn

\* The session is the substitute's exactly as long as the leave that put the
\* substitute in is approved.
SwapMatchesLeave ==
    /\ swapped <=> teacher = Substitute
    /\ swapped => leave = "APPROVED"

\* A closed session that counts as reconciled has its anomalies on record:
\* also when it was reconciled as MISSED first, or by a job that had listed it
\* before it was recovered.  (Corrected rows were looked at by hand.)  The one
\* exception is a session whose class was frozen when it was reconciled.
AnomaliesFlagged ==
    status = "CLOSED" /\ reconciled /\ ~waived =>
        \A f \in Derived :
            \/ f \in flags
            \/ f[2] \in Student /\ att[f[2]] # None /\ att[f[2]].review = "CORRECTED"

\* Every session that is over gets reconciled, though jobs die half-way,
\* unless somebody recovers it.
GetsReconciled == status \in {"CLOSED", "MISSED"} ~> (reconciled \/ status = "OPEN")

\* An approved leave excuses the teacher whose session went to a substitute.
LeaveExcuses ==
    leave = "APPROVED" /\ swapped =>
        presence[Formal] # None /\ presence[Formal].st = "EXCUSED_ABSENCE"
=============================================================================
