-------------------------- MODULE ClassSessionProofs --------------------------
(***************************************************************************)
(* Theorems about ClassSession, for any students, clients and number of    *)
(* jobs that die.                                                          *)
(*                                                                         *)
(* The properties do not hold by themselves.  They rest on how far a       *)
(* session has come at each status (Begun, Untaught), on what a request    *)
(* that looked earlier can still find (NoneAtWork, ReviewInv), and on the  *)
(* check-out that Close leaves behind (CheckedOut).                        *)
(***************************************************************************)
EXTENDS ClassSession, TLAPS

\* A session has its roster verified or repaired once it was opened, and not before.
Begun ==
    /\ status = "SCHEDULED" => ~RosterUsable
    /\ status \in {"OPEN", "CLOSED"} => RosterUsable

\* Nothing was recorded of a session that is not, or not yet, held.
Untaught ==
    status \in {"SCHEDULED", "MISSED"} =>
        /\ \A s \in Student : att[s] = None
        /\ ~journal
        /\ \A t \in Teacher : presence[t] # None => ~presence[t].checkIn

\* Only a session that was opened, and never again missed, has a bulk
\* confirmation at work.
NoneAtWork == bulking # {} => status \in {"OPEN", "CLOSED"}

\* The teacher of a closed session checked out, and thus cannot lose the presence.
CheckedOut == status = "CLOSED" => presence[teacher] # None /\ presence[teacher].checkOut

\* A review at work is of a leave nobody decided yet.
ReviewInv == review # None => leave = "PENDING"

IInv ==
    /\ TypeOK
    /\ Begun
    /\ Untaught
    /\ NoneAtWork
    /\ ClosedReviewed
    /\ CheckedOut
    /\ ReviewInv
    /\ SwapMatchesLeave

-----------------------------------------------------------------------------
\* Init establishes the inductive invariant.
LEMMA InitIInv == Init => IInv
<1> SUFFICES ASSUME Init PROVE IInv
  OBVIOUS
<1>1. TypeOK
  BY SessionAssumption DEF Init, TypeOK, Status, Teacher
<1>2. Begun /\ Untaught /\ NoneAtWork /\ ClosedReviewed /\ CheckedOut
  BY DEF Init, Begun, Untaught, NoneAtWork, ClosedReviewed, CheckedOut, RosterUsable
<1>3. ReviewInv /\ SwapMatchesLeave
  BY SessionAssumption DEF Init, ReviewInv, SwapMatchesLeave
<1> QED
  BY <1>1, <1>2, <1>3 DEF IInv

\* Rows and presences of every kind that is written are well-typed.
LEMMA RowTypes ==
    /\ Default \in Row
    /\ \A st \in Mark : /\ [st |-> st, review |-> "CONFIRMED"] \in Row
                        /\ [st |-> st, review |-> "CORRECTED"] \in Row
    /\ [Default EXCEPT !.review = "CONFIRMED"] = [st |-> "ALPA", review |-> "CONFIRMED"]
BY DEF Row, Mark, Default

LEMMA PresenceTypes ==
    /\ \A st \in {"HADIR", "EXCUSED_ABSENCE", "ALPA_MENGAJAR"}, i, o \in BOOLEAN :
         [st |-> st, checkIn |-> i, checkOut |-> o] \in Presence
    /\ \A p \in Presence : [p EXCEPT !.checkOut = TRUE] \in Presence
    /\ \A p \in Presence, st \in {"HADIR", "EXCUSED_ABSENCE", "ALPA_MENGAJAR"} :
         [p EXCEPT !.st = st] \in Presence
    /\ \A p \in Presence \cup {None} : Excuse(p) \in Presence
BY DEF Presence, Excuse

\* What a write takes away from the clients' views leaves them well-typed.
LEMMA TouchType ==
    ASSUME view \in [Client -> SUBSET Student], NEW S, Touch(S)
    PROVE  view' \in [Client -> SUBSET Student]
BY DEF Touch

LEMMA DerivedType == TypeOK => Derived \subseteq FlagType \X (Student \cup Teacher)
BY DEF TypeOK, Derived, FlagType

\* Opening, recovering and closing add rows and change none that is there.
LEMMA DefaultsType ==
    ASSUME TypeOK, NEW R \in SUBSET Student
    PROVE  /\ WithDefaults(R) \in [Student -> Row \cup {None}]
           /\ \A s \in Student : att[s] # None => WithDefaults(R)[s] = att[s]
           /\ \A s \in R : WithDefaults(R)[s] # None
           /\ \A s \in Student \ R : WithDefaults(R)[s] = att[s]
BY RowTypes, SessionAssumption DEF TypeOK, WithDefaults

\* Every step keeps every variable in its type.
LEMMA TypeStep == TypeOK /\ [Next]_vars => TypeOK'
<1> SUFFICES ASSUME TypeOK, [Next]_vars PROVE TypeOK'
  OBVIOUS
<1> USE SessionAssumption DEF TypeOK, rowVars, jobVars
<1>1. CASE OpenRead
  BY <1>1 DEF OpenRead
<1>2. ASSUME NEW r \in opening, OpenCommit(r) PROVE TypeOK'
  <2>1. CASE status # "SCHEDULED"
    BY <1>2, <2>1 DEF OpenCommit
  <2>2. CASE status = "SCHEDULED"
    <3>1. roster' \subseteq Student /\ roster \subseteq roster' /\ r.teacher \in Teacher
      BY <1>2, <2>2 DEF OpenCommit, Capture
    <3>2. /\ att' \in [Student -> Row \cup {None}]
          /\ \A s \in Student : att'[s] # None => s \in roster'
      BY <1>2, <2>2, <3>1, DefaultsType DEF OpenCommit
    <3>3. presence' \in [Teacher -> Presence \cup {None}]
      BY <1>2, <2>2, <3>1, PresenceTypes DEF OpenCommit
    <3>4. view' \in [Client -> SUBSET Student]
      BY <1>2, <2>2, TouchType DEF OpenCommit
    <3> QED
      BY <1>2, <2>2, <3>1, <3>2, <3>3, <3>4 DEF OpenCommit, Status
  <2> QED
    BY <2>1, <2>2
<1>3. CASE WriteJournal
  BY <1>3 DEF WriteJournal
<1>4. ASSUME NEW c \in Client, Load(c) PROVE TypeOK'
  BY <1>4 DEF Load
<1>5. ASSUME NEW c \in Client, NEW S \in SUBSET Student, NEW st \in Mark, Record(c, S, st)
      PROVE  TypeOK'
  <2>1. view' \in [Client -> SUBSET Student]
    BY <1>5, TouchType DEF Record
  <2>2. /\ att' \in [Student -> Row \cup {None}]
        /\ \A s \in Student : att'[s] # None => s \in roster
    BY <1>5, RowTypes DEF Record
  <2> QED
    BY <1>5, <2>1, <2>2 DEF Record
<1>6. ASSUME NEW st \in Mark, BulkRead(st) PROVE TypeOK'
  BY <1>6 DEF BulkRead
<1>7. ASSUME NEW st \in Mark, BulkCommit(st) PROVE TypeOK'
  <2>1. view' \in [Client -> SUBSET Student]
    BY <1>7, TouchType DEF BulkCommit
  <2>2. /\ att' \in [Student -> Row \cup {None}]
        /\ \A s \in Student : att'[s] # None => s \in roster
    <3> DEFINE A   == WithDefaults(roster)
               row == [st |-> st, review |-> "CONFIRMED"]
    <3>1. /\ A \in [Student -> Row \cup {None}]
          /\ \A s \in Student : A[s] # None => s \in roster
      BY DefaultsType
    <3>2. Unreviewed(A) \subseteq roster /\ row \in Row
      BY <3>1, RowTypes DEF Unreviewed
    <3>3. att' = [s \in Student |-> IF s \in Unreviewed(A) THEN row ELSE A[s]]
      BY <1>7 DEF BulkCommit
    <3> HIDE DEF A, row
    <3> QED
      BY <3>1, <3>2, <3>3
  <2> QED
    BY <1>7, <2>1, <2>2 DEF BulkCommit
<1>8. ASSUME NEW self \in BOOLEAN, NEW finalize \in BOOLEAN, Close(self, finalize)
      PROVE  TypeOK'
  <2>1. view' \in [Client -> SUBSET Student]
    BY <1>8, TouchType DEF Close
  <2>2. /\ att' \in [Student -> Row \cup {None}]
        /\ \A s \in Student : att'[s] # None => s \in roster
    <3> DEFINE A   == WithDefaults(roster)
               row == [Default EXCEPT !.review = "CONFIRMED"]
    <3>1. /\ A \in [Student -> Row \cup {None}]
          /\ \A s \in Student : A[s] # None => s \in roster
      BY DefaultsType
    <3>2. Unreviewed(A) \subseteq roster /\ row \in Row
      BY <3>1, RowTypes DEF Unreviewed, Mark
    <3>3. att' = [s \in Student |-> IF s \in Unreviewed(A) THEN row ELSE A[s]]
      BY <1>8 DEF Close
    <3> HIDE DEF A, row
    <3> QED
      BY <3>1, <3>2, <3>3
  <2>3. presence' \in [Teacher -> Presence \cup {None}]
    BY <1>8, PresenceTypes DEF Close
  <2>4. /\ status' = "CLOSED" /\ reconciled' \in BOOLEAN /\ waived' \in BOOLEAN
        /\ UNCHANGED <<teacher, swapped, rosterState, roster, journal, leave, flags,
                       jobVars>>
    BY <1>8 DEF Close
  <2> QED
    BY <2>1, <2>2, <2>3, <2>4 DEF Status
<1>9. ASSUME NEW s \in Student, NEW st \in Mark, Correct(s, st) PROVE TypeOK'
  <2>1. view' \in [Client -> SUBSET Student]
    BY <1>9, TouchType DEF Correct
  <2>2. /\ att' \in [Student -> Row \cup {None}]
        /\ \A t \in Student : att'[t] # None => t \in roster
    BY <1>9, RowTypes DEF Correct
  <2> QED
    BY <1>9, <2>1, <2>2 DEF Correct
<1>10. CASE RepairRoster
  BY <1>10 DEF RepairRoster
<1>11. CASE RecoverMissed
  <2>1. view' \in [Client -> SUBSET Student]
    BY <1>11, TouchType DEF RecoverMissed
  <2>2. roster' \subseteq Student /\ roster \subseteq roster'
    BY <1>11 DEF RecoverMissed, Capture
  <2>3. /\ att' \in [Student -> Row \cup {None}]
        /\ \A s \in Student : att'[s] # None => s \in roster'
    BY <1>11, <2>2, DefaultsType DEF RecoverMissed
  <2>4. /\ status' = "OPEN" /\ reconciled' \in BOOLEAN /\ waived' \in BOOLEAN
        /\ rosterState' = "BACKFILLED_UNVERIFIED"
        /\ UNCHANGED <<teacher, swapped, journal, presence, leave, flags, jobVars>>
    BY <1>11 DEF RecoverMissed
  <2> QED
    BY <2>1, <2>2, <2>3, <2>4 DEF Status
<1>12. CASE MissRead
  BY <1>12 DEF MissRead
<1>13. CASE MissLeave
  <2>1. missing' \in [pc : {"leave", "mark", "reconcile"}, teacher : Teacher,
                      excused : BOOLEAN]
    BY <1>13 DEF MissLeave
  <2>2. UNCHANGED <<rowVars, att, journal, presence, leave, flags, view, opening,
                    bulking, pending, review, deaths>>
    BY <1>13 DEF MissLeave
  <2> QED
    BY <2>1, <2>2
<1>14. CASE MissMark
  <2>1. missing # None /\ missing.teacher \in Teacher
    BY <1>14 DEF MissMark
  <2>2. missing' \in [pc : {"leave", "mark", "reconcile"}, teacher : Teacher,
                      excused : BOOLEAN] \cup {None}
    BY <1>14, <2>1 DEF MissMark
  <2>3. CASE status # "SCHEDULED"
    BY <1>14, <2>2, <2>3 DEF MissMark
  <2>4. CASE status = "SCHEDULED"
    <3> DEFINE st == IF missing.excused THEN "EXCUSED_ABSENCE" ELSE "ALPA_MENGAJAR"
               p  == [Excuse(presence[missing.teacher]) EXCEPT !.st = st]
    <3>1. Excuse(presence[missing.teacher]) \in Presence
      BY <2>1, PresenceTypes
    <3>2. p \in Presence
      BY <3>1, PresenceTypes
    <3>3. presence' = [presence EXCEPT ![missing.teacher] = p]
      BY <1>14, <2>4 DEF MissMark
    <3>4. presence' \in [Teacher -> Presence \cup {None}]
      BY <3>2, <3>3
    <3>5. /\ status' = "MISSED" /\ reconciled' \in BOOLEAN /\ waived' \in BOOLEAN
          /\ UNCHANGED <<teacher, swapped, rosterState, roster, att, journal, leave,
                         flags, view, opening, bulking, pending, review, deaths>>
      BY <1>14, <2>4 DEF MissMark
    <3> HIDE DEF p
    <3> QED
      BY <2>2, <3>4, <3>5 DEF Status
  <2> QED
    BY <2>3, <2>4
<1>15. CASE MissReconcile \/ ReconcilePending
  <2>1. flags' \subseteq FlagType \X (Student \cup Teacher)
    BY <1>15, DerivedType DEF MissReconcile, ReconcilePending, ReconcileTx
  <2> QED
    BY <1>15, <2>1 DEF MissReconcile, ReconcilePending, ReconcileTx
<1>16. CASE ListPending
  BY <1>16 DEF ListPending
<1>17. CASE JobDies
  <2>1. deaths' \in Nat
    BY <1>17 DEF JobDies
  <2>2. /\ missing' \in {missing, None} /\ pending' \in BOOLEAN
        /\ UNCHANGED <<rowVars, att, journal, presence, leave, flags, view, opening,
                       bulking, review>>
    BY <1>17 DEF JobDies
  <2> QED
    BY <2>1, <2>2
<1>18. CASE ReviewRead
  BY <1>18 DEF ReviewRead
<1>19. CASE ReviewList
  BY <1>19 DEF ReviewList
<1>20. CASE ReviewCommit
  <2>1. presence' \in [Teacher -> Presence \cup {None}]
    BY <1>20, PresenceTypes DEF ReviewCommit, Teacher
  <2>2. /\ teacher' \in Teacher /\ swapped' \in BOOLEAN
        /\ leave' \in {"PENDING", "APPROVED", "ENDED"}
    BY <1>20 DEF ReviewCommit, Teacher
  <2> QED
    BY <1>20, <2>1, <2>2 DEF ReviewCommit
<1>21. CASE Revoke
  <2>1. presence' \in [Teacher -> Presence \cup {None}]
    BY <1>21 DEF Revoke, Teacher
  <2>2. teacher' \in Teacher /\ swapped' \in BOOLEAN
    BY <1>21 DEF Revoke, Teacher
  <2> QED
    BY <1>21, <2>1, <2>2 DEF Revoke
<1>22. CASE LeaveEnds
  BY <1>22 DEF LeaveEnds
<1>23. CASE UNCHANGED vars
  BY <1>23 DEF vars
<1> QED
  BY <1>1, <1>2, <1>3, <1>4, <1>5, <1>6, <1>7, <1>8, <1>9, <1>10, <1>11, <1>12,
     <1>13, <1>14, <1>15, <1>16, <1>17, <1>18, <1>19, <1>20, <1>21, <1>22, <1>23
     DEF Next, Teaching, Repairs, Jobs, Leaves

\* An excuse leaves the check-in and the check-out of the presence it replaces.
LEMMA ExcuseKeeps ==
    /\ Excuse(None) # None /\ ~Excuse(None).checkIn
    /\ Excuse(None).st = "EXCUSED_ABSENCE"
    /\ \A p \in Presence : /\ Excuse(p) # None
                           /\ Excuse(p).checkIn = p.checkIn
                           /\ Excuse(p).checkOut = p.checkOut
                           /\ Excuse(p).st = "EXCUSED_ABSENCE"
<1>1. Excuse(None) \in Presence /\ \A p \in Presence : Excuse(p) \in Presence
  BY PresenceTypes
<1>2. ~Excuse(None).checkIn /\ Excuse(None).st = "EXCUSED_ABSENCE"
  BY DEF Excuse
<1>3. ASSUME NEW p \in Presence
      PROVE  Excuse(p) = [p EXCEPT !.st = "EXCUSED_ABSENCE"]
  BY SessionAssumption DEF Excuse
<1>4. ASSUME NEW p \in Presence
      PROVE  /\ Excuse(p).checkIn = p.checkIn
             /\ Excuse(p).checkOut = p.checkOut
             /\ Excuse(p).st = "EXCUSED_ABSENCE"
  BY <1>3 DEF Presence
<1> QED
  BY <1>1, <1>2, <1>4, SessionAssumption

\* What the steps have to keep besides the types.
Parts == /\ Begun /\ Untaught /\ NoneAtWork /\ ClosedReviewed
         /\ CheckedOut /\ ReviewInv /\ SwapMatchesLeave

\* The step lemma: no step breaks the invariant.
LEMMA StepIInv == IInv /\ [Next]_vars => IInv'
<1> SUFFICES ASSUME IInv, [Next]_vars PROVE Parts'
  BY TypeStep DEF IInv, Parts
<1>t. TypeOK /\ TypeOK'
  BY TypeStep DEF IInv
<1> USE SessionAssumption
    DEF IInv, Parts, Begun, Untaught, NoneAtWork, ClosedReviewed, CheckedOut,
        ReviewInv, SwapMatchesLeave, RosterUsable, rowVars, jobVars
<1>1. CASE OpenRead
  BY <1>1 DEF OpenRead
<1>2. ASSUME NEW r \in opening, OpenCommit(r) PROVE Parts'
  BY <1>2 DEF OpenCommit
<1>3. CASE WriteJournal
  BY <1>3 DEF WriteJournal
<1>4. ASSUME NEW c \in Client, Load(c) PROVE Parts'
  BY <1>4 DEF Load
<1>5. ASSUME NEW c \in Client, NEW S \in SUBSET Student, NEW st \in Mark, Record(c, S, st)
      PROVE  Parts'
  BY <1>5 DEF Record
<1>6. ASSUME NEW st \in Mark, BulkRead(st) PROVE Parts'
  BY <1>6 DEF BulkRead
<1>7. ASSUME NEW st \in Mark, BulkCommit(st) PROVE Parts'
  BY <1>7, <1>t, DefaultsType DEF BulkCommit, Unreviewed, TypeOK
<1>8. ASSUME NEW self \in BOOLEAN, NEW finalize \in BOOLEAN, Close(self, finalize)
      PROVE  Parts'
  <2>1. /\ status = "OPEN" /\ status' = "CLOSED" /\ journal
        /\ UNCHANGED <<teacher, swapped, rosterState, roster, journal, leave, bulking,
                       review>>
    BY <1>8 DEF Close
  <2>2. \A s \in roster : att'[s] # None /\ att'[s].review # "DEFAULTED"
    BY <1>8, <1>t, DefaultsType, RowTypes DEF Close, Unreviewed, TypeOK, Mark
  <2>3. presence'[teacher] # None /\ presence'[teacher].checkOut
    <3>1. CASE presence[teacher] = None
      BY <1>8, <1>t, <3>1, PresenceTypes DEF Close, TypeOK
    <3>2. CASE presence[teacher] # None
      <4> DEFINE p == [presence[teacher] EXCEPT !.checkOut = TRUE]
      <4>1. p \in Presence /\ p.checkOut
        BY <1>t, <3>2, PresenceTypes DEF TypeOK, Presence
      <4>2. presence'[teacher] = p
        BY <1>8, <1>t, <3>2 DEF Close, TypeOK
      <4> QED
        BY <4>1, <4>2
    <3> QED
      BY <3>1, <3>2
  <2> QED
    BY <2>1, <2>2, <2>3
<1>9. ASSUME NEW s \in Student, NEW st \in Mark, Correct(s, st) PROVE Parts'
  <2>1. /\ status \in {"OPEN", "CLOSED"}
        /\ att' = [att EXCEPT ![s] = [st |-> st, review |-> "CORRECTED"]]
        /\ UNCHANGED <<rowVars, journal, presence, leave, bulking, review>>
    BY <1>9 DEF Correct
  <2>2. \A t \in roster : att[t] # None /\ att[t].review # "DEFAULTED"
                         => att'[t] # None /\ att'[t].review # "DEFAULTED"
    <3> DEFINE row == [st |-> st, review |-> "CORRECTED"]
    <3>1. row # None /\ row.review # "DEFAULTED"
      BY RowTypes
    <3>2. \A t \in Student : att'[t] = row \/ att'[t] = att[t]
      BY <1>t, <2>1 DEF TypeOK
    <3> QED
      BY <1>t, <3>1, <3>2 DEF TypeOK
  <2> QED
    BY <2>1, <2>2
<1>10. CASE RepairRoster
  BY <1>10 DEF RepairRoster
<1>11. CASE RecoverMissed
  BY <1>11 DEF RecoverMissed
<1>12. CASE MissRead \/ MissLeave \/ ListPending \/ JobDies
  BY <1>12 DEF MissRead, MissLeave, ListPending, JobDies
<1>13. CASE MissMark
  <2>1. CASE status # "SCHEDULED"
    BY <1>13, <2>1 DEF MissMark
  <2>2. CASE status = "SCHEDULED"
    <3> DEFINE st == IF missing.excused THEN "EXCUSED_ABSENCE" ELSE "ALPA_MENGAJAR"
               p  == [Excuse(presence[missing.teacher]) EXCEPT !.st = st]
    <3>1. missing.teacher \in Teacher
      BY <1>13, <1>t DEF MissMark, TypeOK
    <3>2. presence' = [presence EXCEPT ![missing.teacher] = p]
      BY <1>13, <2>2 DEF MissMark
    <3>3. ~p.checkIn
      <4>1. Excuse(presence[missing.teacher]) \in Presence
        BY <1>t, <3>1, PresenceTypes DEF TypeOK
      <4>2. ~Excuse(presence[missing.teacher]).checkIn
        BY <1>t, <2>2, <3>1, ExcuseKeeps DEF TypeOK
      <4> QED
        BY <4>1, <4>2 DEF Presence
    <3>4. \A t \in Teacher : presence'[t] # None => ~presence'[t].checkIn
      BY <1>t, <2>2, <3>2, <3>3 DEF TypeOK
    <3>5. status' = "MISSED"
      BY <1>13, <2>2 DEF MissMark
    <3> QED
      BY <1>13, <2>2, <3>4, <3>5 DEF MissMark
  <2> QED
    BY <2>1, <2>2
<1>14. CASE MissReconcile \/ ReconcilePending
  BY <1>14 DEF MissReconcile, ReconcilePending, ReconcileTx
<1>15. CASE ReviewRead
  BY <1>15 DEF ReviewRead
<1>16. CASE ReviewList
  BY <1>16 DEF ReviewList
<1>17. CASE ReviewCommit
  <2>1. leave = "PENDING" /\ ~swapped /\ teacher = Formal /\ review' = None
    BY <1>17, <1>t DEF ReviewCommit, TypeOK, Teacher
  <2>2. UNCHANGED <<status, rosterState, roster, att, journal, bulking>>
    BY <1>17 DEF ReviewCommit
  <2>3. SwapMatchesLeave'
    BY <1>17, <1>t, <2>1 DEF ReviewCommit, TypeOK
  <2>4. teacher' = Formal \/ status = "SCHEDULED"
    BY <1>17, <2>1 DEF ReviewCommit
  <2>5. presence' = presence \/ presence' = [presence EXCEPT ![Formal] = Excuse(@)]
    BY <1>17 DEF ReviewCommit
  <2>6. \A t \in Teacher :
            /\ presence[t] = None => presence'[t] = None \/ ~presence'[t].checkIn
            /\ presence[t] # None => /\ presence'[t] # None
                                    /\ presence'[t].checkIn = presence[t].checkIn
                                    /\ presence'[t].checkOut = presence[t].checkOut
    BY <1>t, <2>5, ExcuseKeeps DEF TypeOK, Teacher
  <2> QED
    <3>1. Begun' /\ NoneAtWork' /\ ClosedReviewed' /\ ReviewInv'
      BY <2>1, <2>2
    <3>2. Untaught'
      BY <2>2, <2>6
    <3>3. CheckedOut'
      BY <1>t, <2>1, <2>2, <2>4, <2>6 DEF TypeOK
    <3> QED
      BY <2>3, <3>1, <3>2, <3>3
<1>18. CASE Revoke
  BY <1>18, <1>t DEF Revoke, Excuse, TypeOK, Teacher
<1>19. CASE LeaveEnds
  BY <1>19 DEF LeaveEnds
<1>20. CASE UNCHANGED vars
  BY <1>20 DEF vars
<1> QED
  BY <1>1, <1>2, <1>3, <1>4, <1>5, <1>6, <1>7, <1>8, <1>9, <1>10, <1>11, <1>12,
     <1>13, <1>14, <1>15, <1>16, <1>17, <1>18, <1>19, <1>20
     DEF Next, Teaching, Repairs, Jobs, Leaves

-----------------------------------------------------------------------------
(* What reconciliation derives, step by step.                              *)

\* What it derives depends on these five variables only.
LEMMA DerivedFrame ==
    UNCHANGED <<teacher, rosterState, roster, att, presence>> => Derived' = Derived
BY DEF Derived, RosterUsable

\* A correction adds nothing about other students than the corrected one.
LEMMA CorrectDerived ==
    ASSUME TypeOK, NEW s \in Student, NEW st \in Mark, Correct(s, st),
           NEW f \in Derived', f \notin Derived
    PROVE  f[2] = s
<1>1. /\ att' = [att EXCEPT ![s] = [st |-> st, review |-> "CORRECTED"]]
      /\ UNCHANGED <<teacher, rosterState, roster, presence>>
  BY DEF Correct, rowVars
<1>2. \A x \in Student : x # s => att'[x] = att[x]
  BY <1>1 DEF TypeOK
<1> DEFINE listed == IF RosterUsable THEN roster ELSE {}
<1>3. listed' = listed /\ listed \subseteq Student
  BY <1>1 DEF RosterUsable, TypeOK
<1> QED
  BY <1>1, <1>2, <1>3 DEF Derived

\* A teacher who is excused at last is no anomaly.
LEMMA ExcuseDerived ==
    ASSUME TypeOK, UNCHANGED <<teacher, rosterState, roster, att>>,
           presence' = [presence EXCEPT ![Formal] = Excuse(@)]
    PROVE  Derived' \subseteq Derived
<1>1. CASE teacher = Formal
  <2>1. presence'[teacher] # None /\ presence'[teacher].st = "EXCUSED_ABSENCE"
    BY <1>1, ExcuseKeeps DEF TypeOK, Teacher
  <2> QED
    BY <2>1 DEF Derived, RosterUsable
<1>2. CASE teacher # Formal
  <2>1. presence'[teacher] = presence[teacher]
    BY <1>2 DEF TypeOK
  <2> QED
    BY <2>1 DEF Derived, RosterUsable
<1> QED
  BY <1>1, <1>2

\* A bulk confirmation that comes after the session closed finds nothing to confirm.
LEMMA BulkTooLate ==
    ASSUME TypeOK, ClosedReviewed, status = "CLOSED", NEW st \in Mark, BulkCommit(st)
    PROVE  att' = att
<1> DEFINE A == WithDefaults(roster)
<1>1. \A s \in Student : A[s] = att[s]
  BY DefaultsType DEF ClosedReviewed, TypeOK
<1>2. \A s \in Student : s \notin Unreviewed(A)
  BY <1>1 DEF ClosedReviewed, Unreviewed, TypeOK
<1>3. att' = [s \in Student |-> A[s]]
  BY <1>2 DEF BulkCommit
<1> QED
  BY <1>1, <1>3 DEF TypeOK

\* No step leaves an anomaly of a closed and reconciled session off the record.
LEMMA StepFlagged == IInv /\ AnomaliesFlagged /\ [Next]_vars => AnomaliesFlagged'
<1> SUFFICES ASSUME IInv, AnomaliesFlagged, [Next]_vars, status' = "CLOSED", reconciled', ~waived'
             PROVE  AnomaliesFlagged'
  BY DEF AnomaliesFlagged
<1>t. TypeOK /\ Begun /\ ClosedReviewed /\ CheckedOut /\ ReviewInv /\ SwapMatchesLeave
  BY DEF IInv
<1> USE DEF rowVars, jobVars
<1>0. ASSUME UNCHANGED <<rowVars, att, presence, flags>> PROVE AnomaliesFlagged'
  BY <1>0, DerivedFrame DEF AnomaliesFlagged
<1>1. ASSUME NEW r \in opening, OpenCommit(r) PROVE AnomaliesFlagged'
  BY <1>1, <1>0 DEF OpenCommit
<1>2. ASSUME NEW c \in Client, NEW S \in SUBSET Student, NEW st \in Mark, Record(c, S, st)
      PROVE  AnomaliesFlagged'
  BY <1>2 DEF Record
<1>3. ASSUME NEW st \in Mark, BulkCommit(st) PROVE AnomaliesFlagged'
  <2>1. status = "CLOSED" /\ UNCHANGED <<rowVars, presence, flags>>
    BY <1>3 DEF BulkCommit
  <2> QED
    BY <1>0, <1>3, <1>t, <2>1, BulkTooLate
<1>4. ASSUME NEW self \in BOOLEAN, NEW finalize \in BOOLEAN, Close(self, finalize)
      PROVE  AnomaliesFlagged'
  BY <1>4 DEF Close
<1>5. ASSUME NEW s \in Student, NEW st \in Mark, Correct(s, st) PROVE AnomaliesFlagged'
  <2>1. /\ att' = [att EXCEPT ![s] = [st |-> st, review |-> "CORRECTED"]]
        /\ UNCHANGED <<status, reconciled, waived, flags>>
    BY <1>5 DEF Correct
  <2>2. att'[s] # None /\ att'[s].review = "CORRECTED"
    BY <1>t, <2>1, RowTypes, SessionAssumption DEF TypeOK
  <2>3. \A x \in Student : x # s => att'[x] = att[x]
    BY <1>t, <2>1 DEF TypeOK
  <2> SUFFICES ASSUME NEW f \in Derived'
               PROVE  \/ f \in flags'
                      \/ /\ f[2] \in Student
                         /\ att'[f[2]] # None /\ att'[f[2]].review = "CORRECTED"
    BY DEF AnomaliesFlagged
  <2>4. CASE f[2] = s
    BY <2>2, <2>4
  <2>5. CASE f[2] # s
    <3>1. f \in Derived
      BY <1>5, <1>t, <2>5, CorrectDerived
    <3> QED
      BY <2>1, <2>3, <2>5, <3>1 DEF AnomaliesFlagged
  <2> QED
    BY <2>4, <2>5
<1>6. CASE RepairRoster
  BY <1>6, <1>t DEF RepairRoster, Begun
<1>7. CASE RecoverMissed
  BY <1>7 DEF RecoverMissed
<1>8. CASE MissMark
  BY <1>8, <1>0 DEF MissMark
<1>9. CASE MissReconcile \/ ReconcilePending
  <2>1. ReconcileTx
    BY <1>9 DEF MissReconcile, ReconcilePending
  <2>2. Derived' = Derived
    BY <2>1, DerivedFrame DEF ReconcileTx
  <2>3. CASE reconciled
    BY <2>1, <2>2, <2>3 DEF ReconcileTx, AnomaliesFlagged
  <2>4. CASE ~reconciled
    <3>0. PICK frozen \in BOOLEAN :
              flags' = (IF frozen THEN flags ELSE flags \cup Derived) /\ waived' = frozen
      BY <2>1, <2>4, Zenon DEF ReconcileTx
    <3>1. flags' = flags \cup Derived
      <4>1. frozen = FALSE
        BY <3>0
      <4> QED
        BY <3>0, <4>1
    <3> QED
      BY <2>2, <3>1 DEF AnomaliesFlagged
  <2> QED
    BY <2>3, <2>4
<1>10. CASE ReviewCommit
  <2>1. /\ UNCHANGED <<status, reconciled, waived, rosterState, roster, att, flags, teacher>>
        /\ presence' = presence \/ presence' = [presence EXCEPT ![Formal] = Excuse(@)]
    BY <1>10 DEF ReviewCommit
  <2>2. Derived' \subseteq Derived
    BY <1>t, <2>1, DerivedFrame, ExcuseDerived
  <2> QED
    BY <2>1, <2>2 DEF AnomaliesFlagged
<1>11. CASE Revoke
  <2>1. status = "CLOSED" /\ ~swapped
    BY <1>11 DEF Revoke
  <2>2. teacher = Formal
    BY <1>t, <2>1 DEF SwapMatchesLeave, TypeOK, Teacher
  <2>3. presence[Formal] = Excuse(None) /\ presence[Formal].checkOut
    BY <1>11, <1>t, <2>1, <2>2 DEF Revoke, CheckedOut
  <2> QED
    BY <2>3 DEF Excuse
<1>12. CASE \/ OpenRead \/ WriteJournal \/ MissRead \/ MissLeave \/ ListPending \/ JobDies
            \/ ReviewRead \/ ReviewList \/ LeaveEnds \/ UNCHANGED vars
  <2>1. UNCHANGED <<rowVars, att, presence, flags>>
    BY <1>12 DEF OpenRead, WriteJournal, MissRead, MissLeave, ListPending, JobDies,
                 ReviewRead, ReviewList, LeaveEnds, vars
  <2> QED
    BY <1>0, <2>1
<1>13. ASSUME NEW c \in Client, Load(c) PROVE AnomaliesFlagged'
  BY <1>0, <1>13 DEF Load
<1>14. ASSUME NEW st \in Mark, BulkRead(st) PROVE AnomaliesFlagged'
  BY <1>0, <1>14 DEF BulkRead
<1> QED
  BY <1>1, <1>2, <1>3, <1>4, <1>5, <1>6, <1>7, <1>8, <1>9, <1>10, <1>11, <1>12,
     <1>13, <1>14
     DEF Next, Teaching, Repairs, Jobs, Leaves

-----------------------------------------------------------------------------
(* The theorems.                                                           *)

\* The invariant, and the anomalies with it, hold of every session.
LEMMA Invariant == Spec => [](IInv /\ AnomaliesFlagged)
<1>1. Init => IInv /\ AnomaliesFlagged
  BY InitIInv DEF Init, AnomaliesFlagged
<1>2. IInv /\ AnomaliesFlagged /\ [Next]_vars => IInv' /\ AnomaliesFlagged'
  BY StepIInv, StepFlagged
<1> QED
  BY <1>1, <1>2, PTL DEF Spec

\* Every row of the session stays of its type, whoever writes it.
THEOREM TypeCorrect == Spec => []TypeOK
<1>1. IInv => TypeOK
  BY DEF IInv
<1> QED
  BY <1>1, Invariant, PTL

\* closeSession leaves a journal and reviewed rows, and nothing that was at
\* work when it closed undoes that.
THEOREM ClosedIsReviewed == Spec => []ClosedReviewed
<1>1. IInv => ClosedReviewed
  BY DEF IInv
<1> QED
  BY <1>1, Invariant, PTL

\* The auto-missed job and openSession never both succeed.
THEOREM MissedOrHeld == Spec => []MissedUntaught
<1>1. IInv => MissedUntaught
  BY DEF IInv, Untaught, MissedUntaught
<1> QED
  BY <1>1, Invariant, PTL

\* Reviews and revocations of the leave hand the session over and back.
THEOREM SubstituteWithLeave == Spec => []SwapMatchesLeave
<1>1. IInv => SwapMatchesLeave
  BY DEF IInv
<1> QED
  BY <1>1, Invariant, PTL

\* reconciledAt on a closed session means that its anomalies are on record,
\* in whatever order it was missed, recovered, closed and reconciled, unless
\* reconcileSession found its class to be one of a frozen grade.
THEOREM ReconciledIsFlagged == Spec => []AnomaliesFlagged
BY Invariant, PTL

\* A recorded roster is never replaced.
THEOREM RosterStands == Spec => RosterFrozen
<1>1. IInv /\ [Next]_vars => [rosterState # "PENDING" => roster' = roster]_vars
  <2> SUFFICES ASSUME IInv, [Next]_vars, rosterState # "PENDING" PROVE roster' = roster
    OBVIOUS
  <2> USE DEF rowVars, jobVars
  <2>1. ASSUME NEW r \in opening, OpenCommit(r) PROVE roster' = roster
    BY <2>1 DEF OpenCommit, IInv, Begun, RosterUsable
  <2>2. CASE Repairs
    BY <2>2 DEF Repairs, RepairRoster, RecoverMissed, RosterUsable
  <2>3. CASE Jobs
    BY <2>3 DEF Jobs, MissRead, MissLeave, MissMark, MissReconcile, ListPending,
                ReconcilePending, ReconcileTx, JobDies
  <2>4. CASE Leaves
    BY <2>4 DEF Leaves, ReviewRead, ReviewList, ReviewCommit, Revoke, LeaveEnds
  <2>5. CASE UNCHANGED vars
    BY <2>5 DEF vars
  <2>6. CASE Teaching
    BY <2>1, <2>6 DEF Teaching, OpenRead, WriteJournal, Load, Record, BulkRead,
                      BulkCommit, Close, Correct
  <2> QED
    BY <2>2, <2>3, <2>4, <2>5, <2>6 DEF Next
<1>2. IInv /\ AnomaliesFlagged => IInv
  OBVIOUS
<1> QED
  BY <1>1, <1>2, Invariant, PTL DEF Spec, RosterFrozen

\* A reviewed row changes by a correction or by a client that had loaded it.
THEOREM ReviewIsKept == Spec => ReviewedStands
<1> DEFINE Kept == \A s \in Student :
               att[s] # None /\ att[s].review # "DEFAULTED" /\ att'[s] # att[s] =>
                   \/ att'[s] # None /\ att'[s].review = "CORRECTED"
                   \/ status = "OPEN" /\ \E c \in Client : s \in view[c]
<1>1. IInv /\ [Next]_vars => [Kept]_vars
  <2> SUFFICES ASSUME IInv, [Next]_vars PROVE Kept
    OBVIOUS
  <2>t. TypeOK
    BY DEF IInv
  <2> USE DEF rowVars, jobVars
  <2>1. ASSUME NEW r \in opening, OpenCommit(r) PROVE Kept
    BY <2>1 DEF OpenCommit, WithDefaults
  <2>2. ASSUME NEW c \in Client, NEW S \in SUBSET Student, NEW st \in Mark,
               Record(c, S, st)
        PROVE  Kept
    BY <2>2 DEF Record
  <2>3. ASSUME NEW st \in Mark, BulkCommit(st) PROVE Kept
    BY <2>3 DEF BulkCommit, WithDefaults, Unreviewed
  <2>4. ASSUME NEW self \in BOOLEAN, NEW finalize \in BOOLEAN, Close(self, finalize)
        PROVE  Kept
    BY <2>4 DEF Close, WithDefaults, Unreviewed
  <2>5. ASSUME NEW s \in Student, NEW st \in Mark, Correct(s, st) PROVE Kept
    <3>1. /\ att' = [att EXCEPT ![s] = [st |-> st, review |-> "CORRECTED"]]
          /\ [st |-> st, review |-> "CORRECTED"] # None
      BY <2>5, RowTypes, SessionAssumption DEF Correct
    <3> QED
      BY <2>t, <3>1 DEF TypeOK
  <2>6. CASE RecoverMissed
    BY <2>6 DEF RecoverMissed, WithDefaults
  <2>7. ASSUME att' = att PROVE Kept
    BY <2>7
  <2>8. CASE OpenRead \/ WriteJournal \/ RepairRoster \/ UNCHANGED vars
    BY <2>7, <2>8 DEF OpenRead, WriteJournal, RepairRoster, vars
  <2>9. CASE Jobs
    BY <2>7, <2>9 DEF Jobs, MissRead, MissLeave, MissMark, MissReconcile, ListPending,
                      ReconcilePending, ReconcileTx, JobDies
  <2>10. CASE Leaves
    BY <2>7, <2>10 DEF Leaves, ReviewRead, ReviewList, ReviewCommit, Revoke, LeaveEnds
  <2>11. ASSUME NEW c \in Client, Load(c) PROVE Kept
    BY <2>7, <2>11 DEF Load
  <2>12. ASSUME NEW st \in Mark, BulkRead(st) PROVE Kept
    BY <2>7, <2>12 DEF BulkRead
  <2> QED
    BY <2>1, <2>2, <2>3, <2>4, <2>5, <2>6, <2>8, <2>9, <2>10, <2>11, <2>12
       DEF Next, Teaching, Repairs
<1>2. IInv /\ AnomaliesFlagged => IInv
  OBVIOUS
<1> QED
  BY <1>1, <1>2, Invariant, PTL DEF Spec, ReviewedStands
=============================================================================
