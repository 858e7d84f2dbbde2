----------------------------- MODULE GateServer -----------------------------
(***************************************************************************)
(* The scan handlers of apps/api/src/modules/attendance-gate for one       *)
(* person and one business day.                                            *)
(*                                                                         *)
(* A handler serves one HTTP request.  It reads the day's logs, checks the *)
(* scan against them and the policy, and inserts a row; between two of     *)
(* these it awaits, and other handlers run.  Only the unique indexes of    *)
(* the tables stand between two handlers.  The same scan may arrive more   *)
(* than once: readers send again what was not answered.                    *)
(*                                                                         *)
(* Time is counted in half minutes, the coarsest grain at which the two    *)
(* ways the code rounds a stay to minutes differ.                          *)
(***************************************************************************)
EXTENDS Integers, FiniteSets

CONSTANTS
    Scan,          \* presentations of a card or QR code to a reader
    Kind,          \* what each asks for
    HasEventId,    \* scans of signed gate events, which carry an eventId
    Unstamped,     \* QR scans sent without clientScannedAt
    Handler,       \* requests in progress at the same time
    MaxTime,       \* bound: the end of the day
    MinStay,       \* MIN_GATE_STAY_MINUTES
    DupWindow,     \* duplicateScanWindowMinutes, in half minutes
    MaxAge,        \* OFFLINE_SCAN_MAX_AGE_MS, in half minutes
    Skew,          \* how far a reader's clock may run ahead
    Student,       \* TRUE: SISWA; FALSE: a role with a checkout window
    OutWindow,     \* when personnel may leave
    AsharWindow,   \* when a MUSHOLA scan counts as Ashar
    AsharRequired, \* policy on, and lessons in the afternoon
    MaxFaults,     \* bound: requests that end in a 5xx
    MaxEmergency,  \* bound: times the emergency mode is switched on
    None

Direct   == {"IN", "OUT"}                    \* tap, readerScan, deviceGateEvent
QrGate   == {"GATE_IN", "GATE_OUT", "GERBANG"}  \* qrReaderScan
Kinds    == Direct \cup QrGate \cup {"MUSHOLA"}
Time     == 0 .. MaxTime
Dir      == {"IN", "OUT"}
Reply    == {"ok", "reject", "retry"}        \* 2xx, other 4xx, 5xx
FlagType == {"SCAN_DUPLIKAT", "IN_BERULANG", "OUT_TANPA_IN", "OUT_TERLALU_CEPAT"}

Log  == [at : 0 .. (MaxTime + Skew), scan : Scan, why : {"plain", "emergency", "override"}]
Job  == [pc : {"idle", "decide", "check", "insert", "prayer", "pray", "done"},
         scan : Scan \cup {None}, at : 0 .. (MaxTime + Skew), dir : Dir \cup {None},
         why : {"plain", "emergency", "override"}, reply : Reply \cup {None}]

GateAssumption ==
    /\ Kind \in [Scan -> Kinds]
    /\ HasEventId \subseteq {s \in Scan : Kind[s] \in Direct}
    /\ Unstamped \subseteq Scan
    /\ {MaxTime, MinStay, DupWindow, MaxAge, Skew, MaxFaults,
        MaxEmergency} \subseteq Nat
    /\ {Student, AsharRequired} \subseteq BOOLEAN
    /\ OutWindow \subseteq Nat /\ AsharWindow \subseteq Nat
    /\ None \notin Scan \cup Nat \cup Dir \cup Reply \cup Log

\* Scans timed by the phone; the others by the server, each copy anew.
Clocked(s) == Kind[s] \notin Direct /\ s \notin Unstamped

VARIABLES
    now,        \* the server's clock
    logs,       \* GateLog of the day: one row per direction at most
    ashar,      \* PrayerAttendanceLog (ASHAR): when it was scanned
    emergency,  \* EarlyCheckoutEmergency rows that include this person
    leaving,    \* deactivatedAt of a deactivation that awaits its lock
    override,   \* a valid AttendanceOverride of scope ALL exists
    flags,      \* types of the OPEN ReconciliationFlags of this person
    job,        \* what each handler is doing
    stamp,      \* clientScannedAt, the same in every copy of a scan that has it
    faults      \* requests that failed so far

policyVars == <<now, emergency, leaving, override>>
vars       == <<policyVars, logs, ashar, flags, job, stamp, faults>>

Idle == [pc |-> "idle", scan |-> None, at |-> 0, dir |-> None, why |-> "plain",
         reply |-> None]

TypeOK ==
    /\ now \in Time
    /\ logs \in [Dir -> Log \cup {None}]
    /\ ashar \in (0 .. (MaxTime + Skew)) \cup {None}
    /\ \A e \in emergency : e.from \in Time /\ e.until \in Nat
                            /\ e.off \in Time \cup {None}
    /\ leaving \in Time \cup {None}
    /\ override \in BOOLEAN
    /\ flags \subseteq FlagType
    /\ job \in [Handler -> Job]
    /\ stamp \in [Scan -> (0 .. (MaxTime + Skew)) \cup {None}]
    /\ faults \in Nat

Init ==
    /\ now = 0
    /\ logs = [d \in Dir |-> None]
    /\ ashar = None
    /\ emergency = {}
    /\ leaving = None
    /\ override = FALSE
    /\ flags = {}
    /\ job = [h \in Handler |-> Idle]
    /\ stamp = [s \in Scan |-> None]
    /\ faults = 0

-----------------------------------------------------------------------------
(* Time, the principal's emergency mode, and overrides.                    *)

Tick ==
    /\ now < MaxTime
    /\ now' = now + 1
    /\ UNCHANGED <<emergency, leaving, override, logs, ashar, flags, job, faults>>

\* Mutants of EmergencyAt: what is active now, and every for some.
EmergencyNow(t)   == \E e \in emergency : e.from <= now /\ now < e.until /\ e.off = None
EmergencyEvery(t) == \A e \in emergency : e.from <= t /\ t < e.until

\* findActiveEarlyCheckoutEmergency: judged at the time of the event.
EmergencyAt(t) ==
    \E e \in emergency : e.from <= t /\ t < e.until
                         /\ (e.off # None => e.off > t)

\* At most one active row: the check and the insert hold an advisory lock.
ActivateEmergency ==
    /\ Cardinality(emergency) < MaxEmergency
    /\ ~ \E e \in emergency : now < e.until /\ e.off = None
    /\ \E until \in (now + 1) .. MaxTime :
        emergency' = emergency \cup {[from |-> now, until |-> until, off |-> None]}
    /\ UNCHANGED <<now, leaving, override, logs, ashar, flags, job, faults>>

\* Deactivation takes its time before it waits for the lock, and writes it
\* when it holds the lock.
AskDeactivate ==
    /\ leaving = None
    /\ emergency # {}
    /\ leaving' = now
    /\ UNCHANGED <<now, emergency, override, logs, ashar, flags, job, faults>>

DeactivateEmergency ==
    /\ leaving # None
    /\ leaving' = None
    /\ \E e \in emergency :
        emergency' = IF e.off = None /\ e.from <= leaving /\ leaving < e.until
                     THEN (emergency \ {e}) \cup {[e EXCEPT !.off = leaving]}
                     ELSE emergency
    /\ UNCHANGED <<now, override, logs, ashar, flags, job, faults>>

\* createOverride and approveOverride make one valid; revokeOverride and the
\* passing of expiresAt end it.  Only students have them.
SetOverride ==
    /\ Student
    /\ override' = ~override
    /\ UNCHANGED <<now, emergency, leaving, logs, ashar, flags, job, faults>>

-----------------------------------------------------------------------------
(* Requests.                                                               *)

Answer(h, r) ==
    job' = [job EXCEPT ![h] = [Idle EXCEPT !.pc = "done", !.scan = job[h].scan, !.reply = r]]
Go(h, d)     == job' = [job EXCEPT ![h].pc = "check", ![h].dir = d]
Store(h, w)  == job' = [job EXCEPT ![h].pc = "insert", ![h].why = w]

At(h, pc) == job[h].pc = pc

\* A request arrives.  Direct scans are timed by the server; a QR scan by the
\* phone, within resolveQrReaderEventTime's limits, or by the server if the phone
\* did not say.  A signed event that is already in GateLog is answered at once.
Receive(h, s, t) ==
    /\ At(h, "idle")
    /\ LET k      == Kind[s]
           known  == s \in HasEventId /\ \E d \in Dir : logs[d] # None /\ logs[d].scan = s
           timely == ~Clocked(s) \/ (t <= now + Skew /\ now - t <= MaxAge)
           pc     == CASE known \/ ~timely  -> "done"
                       [] k \in QrGate      -> "decide"
                       [] k = "MUSHOLA"     -> "prayer"
                       [] OTHER             -> "check"
       IN  job' = [job EXCEPT ![h] =
                IF pc = "done"
                THEN [Idle EXCEPT !.pc = pc, !.scan = s,
                                  !.reply = IF known THEN "ok" ELSE "reject"]
                ELSE [Idle EXCEPT !.pc = pc, !.scan = s,
                                  !.at = IF Clocked(s) THEN t ELSE now,
                                  !.dir = IF k \in Direct THEN k ELSE None]]
    /\ UNCHANGED <<policyVars, logs, ashar, flags, faults>>

\* Any copy of any scan arrives, sooner or later.
Arrive(h) ==
    \/ \E s \in Scan :
        ~Clocked(s) /\ Receive(h, s, now) /\ UNCHANGED stamp
    \/ \E s \in Scan, t \in 0 .. (now + Skew) :
        /\ Clocked(s)
        /\ stamp[s] \in {None, t}
        /\ stamp' = [stamp EXCEPT ![s] = t]
        /\ Receive(h, s, t)

Floor(d) == d \div 2
Round(d) == (d + 1) \div 2

\* Rows of the day the scan may see: those tapped no later than it.
Sees(h, d) == logs[d] # None /\ logs[d].at <= job[h].at

TooSoon(h) ==
    Floor(job[h].at - logs["IN"].at) < MinStay /\ ~EmergencyAt(job[h].at)

\* Mutant of Decide: a departure without an arrival is answered ok, so that
\* the phone clears its queue.
DecideLenient(h) ==
    /\ At(h, "decide")
    /\ LET k == Kind[job[h].scan] IN
        \/ k \in {"GATE_IN", "GERBANG"} /\ ~Sees(h, "IN") /\ Go(h, "IN")
        \/ k = "GATE_OUT" /\ ~Sees(h, "IN") /\ Answer(h, "ok")
        \/ k = "GATE_IN" /\ Sees(h, "IN") /\ Answer(h, "ok")
        \/ k \in {"GATE_OUT", "GERBANG"} /\ Sees(h, "IN") /\ Go(h, "OUT")
    /\ UNCHANGED <<policyVars, logs, ashar, flags, faults>>

\* recordQrAndroidGateScan: a chosen direction, or (GERBANG) the direction
\* the day's logs suggest.  A direction that is there already is answered ok.
Decide(h) ==
    /\ At(h, "decide")
    /\ LET k == Kind[job[h].scan] IN
        \/ k \in {"GATE_IN", "GERBANG"} /\ ~Sees(h, "IN") /\ Go(h, "IN")
        \/ k = "GATE_IN" /\ Sees(h, "IN") /\ Answer(h, "ok")
        \/ k = "GATE_OUT" /\ ~Sees(h, "IN") /\ Answer(h, "reject")
        \/ /\ k \in {"GATE_OUT", "GERBANG"}
           /\ Sees(h, "IN")
           /\ \/ Sees(h, "OUT") /\ Answer(h, "ok")
              \/ /\ ~Sees(h, "OUT")
                 /\ TooSoon(h)
                 /\ Answer(h, IF k = "GERBANG" THEN "ok" ELSE "reject")
              \/ ~Sees(h, "OUT") /\ ~TooSoon(h) /\ Go(h, "OUT")
    /\ UNCHANGED <<policyVars, logs, ashar, flags, faults>>

\* The latest row of the day; two rows of one instant come in either order.
LastDirs ==
    {d \in Dir : logs[d] # None /\ \A e \in Dir : logs[e] # None => logs[e].at <= logs[d].at}

\* A rejection that leaves the flag of createSecurityFlag.
Flagged(h, f) == Answer(h, "reject") /\ flags' = flags \cup {f}

\* Mutant of CheckStay: Ashar is not looked at.
CheckStayNoAshar(h) ==
    LET em == EmergencyAt(job[h].at)
    IN  /\ Round(job[h].at - logs["IN"].at) >= MinStay \/ em
        /\ UNCHANGED flags
        /\ Store(h, IF em THEN "emergency" ELSE "plain")

\* What ensureGateScanAllowed and ensureStudentAsharBeforeCheckout say of an
\* OUT whose last row of the day is an IN.
CheckStay(h) ==
    LET t  == job[h].at
        em == EmergencyAt(t)
    IN  \/ /\ Round(t - logs["IN"].at) < MinStay /\ ~em
           /\ Flagged(h, "OUT_TERLALU_CEPAT")
        \/ /\ Round(t - logs["IN"].at) >= MinStay \/ em
           /\ UNCHANGED flags
           /\ CASE em -> Store(h, "emergency")
                [] ~em /\ ~(Student /\ AsharRequired /\ ashar = None) -> Store(h, "plain")
                [] OTHER -> IF override THEN Store(h, "override") ELSE Answer(h, "reject")

\* ensureGateScanAllowed and recordGateScan up to the insert.  Its queries
\* are taken together: between them rows are only added, and a row added in
\* between changes which of the 4xx the scan gets, no more.
Check(h) ==
    /\ At(h, "check")
    /\ LET d  == job[h].dir
           t  == job[h].at
           outside == d = "OUT" /\ ~Student /\ ~EmergencyAt(t) /\ t \notin OutWindow
           dup == DupWindow > 0 /\ logs[d] # None
                  /\ logs[d].at \in (t - DupWindow) .. t
       IN  \/ outside /\ Answer(h, "reject") /\ UNCHANGED flags
           \/ ~outside /\ dup /\ Flagged(h, "SCAN_DUPLIKAT")
           \/ /\ ~outside /\ ~dup
              /\ \E last \in IF LastDirs = {} THEN {None} ELSE LastDirs :
                  \/ d = "IN" /\ last # "IN" /\ Store(h, "plain") /\ UNCHANGED flags
                  \/ d = "OUT" /\ last = "IN" /\ CheckStay(h)
                  \/ /\ (d = "IN" /\ last = "IN") \/ (d = "OUT" /\ last # "IN")
                     /\ IF override THEN Store(h, "override") /\ UNCHANGED flags
                        ELSE Flagged(h, IF d = "IN" THEN "IN_BERULANG" ELSE "OUT_TANPA_IN")
    /\ UNCHANGED <<policyVars, logs, ashar, faults>>

\* The indexes of GateLog: deviceEventId, and (userId, businessDate, direction).
SameEvent(h) == /\ job[h].scan \in HasEventId
                /\ \E d \in Dir : logs[d] # None /\ logs[d].scan = job[h].scan

\* Mutant of Insert: a direction that is there already is taken for idempotent.
InsertLenient(h) ==
    /\ At(h, "insert")
    /\ Answer(h, "ok")
    /\ logs' = IF logs[job[h].dir] # None THEN logs
               ELSE [logs EXCEPT ![job[h].dir] =
                        [at |-> job[h].at, scan |-> job[h].scan, why |-> job[h].why]]
    /\ UNCHANGED <<policyVars, ashar, flags, faults>>

\* Mutant of Insert: an upsert takes the place of the insert.
InsertOver(h) ==
    /\ At(h, "insert")
    /\ Answer(h, "ok")
    /\ logs' = [logs EXCEPT ![job[h].dir] =
                    [at |-> job[h].at, scan |-> job[h].scan, why |-> job[h].why]]
    /\ UNCHANGED <<policyVars, ashar, flags, faults>>

\* recordGateScanWithoutPolicy: the transaction that inserts the row, and
\* what its catch block makes of a unique violation.
Insert(h) ==
    /\ At(h, "insert")
    /\ \/ SameEvent(h) /\ Answer(h, "ok") /\ UNCHANGED logs
       \/ ~SameEvent(h) /\ logs[job[h].dir] # None /\ Answer(h, "reject") /\ UNCHANGED logs
       \/ /\ logs[job[h].dir] = None
          /\ logs' = [logs EXCEPT ![job[h].dir] =
                        [at |-> job[h].at, scan |-> job[h].scan, why |-> job[h].why]]
          /\ Answer(h, "ok")
    /\ UNCHANGED <<policyVars, ashar, flags, faults>>

\* recordPrayerScan for Ashar: the look for an existing row ...
PrayerRead(h) ==
    /\ At(h, "prayer")
    /\ \/ (~Student \/ job[h].at \notin AsharWindow) /\ Answer(h, "reject")
       \/ /\ Student /\ job[h].at \in AsharWindow
          /\ IF ashar # None THEN Answer(h, "ok")
             ELSE job' = [job EXCEPT ![h].pc = "pray"]
    /\ UNCHANGED <<policyVars, logs, ashar, flags, faults>>

\* ... and the insert, whose unique violation nobody catches: a 500.
PrayerInsert(h) ==
    /\ At(h, "pray")
    /\ IF ashar # None THEN Answer(h, "retry") /\ UNCHANGED ashar
       ELSE ashar' = job[h].at /\ Answer(h, "ok")
    /\ UNCHANGED <<policyVars, logs, flags, faults>>

\* The database is not to be had: a 5xx, and nothing is stored.
Fault(h) ==
    /\ job[h].pc \notin {"idle", "done"}
    /\ faults < MaxFaults
    /\ faults' = faults + 1
    /\ Answer(h, "retry")
    /\ UNCHANGED <<policyVars, logs, ashar, flags>>

Work(h) == Decide(h) \/ Check(h) \/ Insert(h) \/ PrayerRead(h) \/ PrayerInsert(h)

\* The response has been sent.
Respond(h) ==
    /\ At(h, "done")
    /\ job' = [job EXCEPT ![h] = Idle]
    /\ UNCHANGED <<policyVars, logs, ashar, flags, faults>>

Environment ==
    \/ Tick \/ ActivateEmergency \/ AskDeactivate \/ DeactivateEmergency \/ SetOverride

Next ==
    \/ Environment /\ UNCHANGED stamp
    \/ \E h \in Handler : (Work(h) \/ Fault(h) \/ Respond(h)) /\ UNCHANGED stamp
    \/ \E h \in Handler : Arrive(h)

Spec == Init /\ [][Next]_vars

-----------------------------------------------------------------------------
(* Properties.                                                             *)

\* Whoever is recorded as gone came first, and stayed the minimum or left
\* under the emergency mode of that moment, unless an override says
\* otherwise - whatever two handlers do to each other between their reads
\* and their inserts, and in whatever order queued scans arrive.
OutJustified ==
    logs["OUT"] # None /\ logs["OUT"].why # "override" =>
        /\ logs["IN"] # None
        /\ \/ Round(logs["OUT"].at - logs["IN"].at) >= MinStay
           \/ \E e \in emergency : e.from <= logs["OUT"].at /\ logs["OUT"].at < e.until

\* A student who has to pray Ashar before leaving has done so when recorded
\* as gone, unless the emergency mode or an override excused it.
AsharOnRecord ==
    Student /\ AsharRequired /\ logs["OUT"] # None /\ logs["OUT"].why = "plain"
        => ashar # None

\* A scan that was answered ok left the row that it asked for, its own or one
\* that was tapped no later (than what the phone said, if it said when): no race
\* turns a 2xx into a lost scan.
OkMeansRecorded ==
    \A h \in Handler : job[h].reply = "ok" =>
        LET s == job[h].scan
            Has(d) == logs[d] # None /\ (Clocked(s) => logs[d].at <= stamp[s])
        IN  CASE Kind[s] \in {"IN", "GATE_IN", "GERBANG"} -> Has("IN")
              [] Kind[s] \in {"OUT", "GATE_OUT"}          -> Has("OUT")
              [] Kind[s] = "MUSHOLA"                      -> ashar # None

\* However often a scan is sent, it counts once: it never stands for both
\* the arrival and the departure of the day.  (With the single menu this takes
\* phones that say when the scan was made: a copy without the time is a scan of
\* the moment it arrives.)
CountsOnce ==
    logs["IN"] # None /\ logs["OUT"] # None => logs["IN"].scan # logs["OUT"].scan
=============================================================================
