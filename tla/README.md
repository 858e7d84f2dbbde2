# A TLA+ model of abensi

abensi (SchoolHub) records a school's attendance: cards and QR codes at the
gate and the prayer hall, class sessions with their journals, teacher leave, and
nightly jobs that reconcile all of it. This directory holds TLA+ modules of the
parts of the program where steps of several actors meet, the TLC configurations
that check them, and proofs checked by TLAPS. Paths below are relative to the
repository (`src/`).

Short names used below:

| short | path |
|---|---|
| gate service | `apps/api/src/modules/attendance-gate/attendance-gate.service.ts` |
| class service | `apps/api/src/modules/attendance-class/attendance-class.service.ts` |
| reconciliation service | `apps/api/src/modules/reconciliation/reconciliation.service.ts` |
| leave service | `apps/api/src/modules/teacher-leave/teacher-leave.service.ts` |
| scheduling service | `apps/api/src/modules/scheduling/scheduling.service.ts` |
| academic service | `apps/api/src/modules/academic/academic.service.ts` |
| lock order | `apps/api/src/common/schedule-mutation-lock.ts` |
| auth service | `apps/api/src/modules/auth/auth.service.ts` |
| identity service | `apps/api/src/modules/identity/identity.service.ts` |
| device service | `apps/api/src/modules/device-reader/device-reader.service.ts` |
| outbox service | `apps/api/src/modules/outbox/outbox.service.ts` |
| audit log | `apps/api/src/common/audit-log.ts` |
| trust boundary | `apps/api/src/modules/security/audit-trust-boundary.{core,approval}.ts` |
| reader | `apps/android-reader/app/src/main/java/id/sch/man1rokanhulu/absensi/` |

## 1. The system

One NestJS API (several replicas) over PostgreSQL and Redis, a BullMQ worker
that calls the API's internal endpoints on a schedule, a web application, and
Android phones that serve as readers. All durable state is in PostgreSQL;
handlers are `async`, so between two `await`s any other handler of any replica
may run, and only transactions, row and advisory locks and unique indices order
them.

| component | state it keeps | operations | talks to | what makes it correct |
|---|---|---|---|---|
| gate and prayer scans (gate service) | `GateLog` (one row per person, day and direction), `PrayerAttendanceLog`, flags, `EarlyCheckoutEmergency`, `AttendanceOverride` | `tap`, `deviceGateEvent`, `readerScan`, `qrReaderScan`, emergency on and off | readers (HTTP), outbox rows, audit chain | nobody is recorded as gone without a justified stay, an "ok" is a record, a scan counts once |
| Android reader | the live request, the queue table, the history of the last 20 entries | scan, flush, clear queue or history, death of the process | gate service | no scan vanishes untold, every queued scan is settled or parked |
| class sessions (class service) | `Session`, `SessionRoster`, `StudentAttendance`, `SessionJournal`, `TeacherSessionPresence` | open, journal, record, bulk confirmation, close, correct, repair roster, recover | jobs and leave through the same rows | closed means reviewed, rosters are frozen, a confirmed mark stands |
| jobs (reconciliation service, worker) | `reconciledAt`, `ReconciliationFlag`, `MISSED` sessions | auto-missed, reconcile pending, flags, escalation | class sessions, gate rows | missed and held exclude one another, anomalies are flagged, everything gets reconciled |
| teacher leave (leave service) | `TeacherLeave`, substitutions | request, review, reject, cancel, revoke | class sessions, scheduling | a substitution lasts as long as the leave, an approved leave excuses |
| scheduling (scheduling service) | `TeachingAssignment`, `WeeklySchedule`, the rows of future `Session`s | create and change assignments and schedules, create, generate and move sessions | academic periods, leave, users | a session agrees with its assignment and with the leave of its teacher; requests do not wait in a circle |
| academic (academic service) | `AcademicYear`, `Semester`, classes, enrolment | change periods, classes, enrolments; imports | scheduling | periods nest and cover what uses them; rosters follow enrolment until captured |
| authentication (auth service) | `AuthSession` (one row per refresh token), login attempts | login, refresh, logout, revoke, check of an access token | all | one open session per sign-in; refused once is refused for good |
| identity (identity service) | `User` | create, change, deactivate, slips, import, archive, delete | authentication | what an account loses it loses at once; a developer remains |
| reader devices (device service) | `DeviceReader`, activation codes, secrets | create, issue a code, trade it, rotate, switch, revoke | gate service | a code gives one secret; a revoked reader stays out |
| outbox (outbox service) | `OutboxEvent`, stream and channel in Redis | insert, claim, publish, fail, recover | every domain transaction, SSE subscribers | at most one publisher per row, no unsent row marked, bounded copies, nothing stuck |
| audit chain (audit log, trust boundary) | `AuditEntry`, `AuditChainState`, `AuditChainEpoch`, `AuditIntegrityIncident` | append, verify, approve a boundary | every audited transaction | one unbroken chain; damage stops writers until it is declared |
| live monitor (reporting controller, redis service) | SSE slots, subscriptions | connect, snapshot, replay, disconnect | outbox | nothing announced is missed, a user's streams keep their limit, slots are returned |
| QR credentials | credentials | generate, rotate, revoke | gate service | one active credential each |
| reporting, listings, notifications, web application, operations | none of their own | reads, exports, deployment | | |

### What is hard here

* **Read, await, write.** Nearly every handler reads rows, decides, and opens a
  transaction later (`openSession`, `bulkConfirmDefaults`, the leave review, the
  auto-missed job, the scan handlers, identity, the reader registry). What it read
  may be stale by then.
* **Locks taken one by one.** Scheduling, leave and academic transactions take
  advisory and row locks in a prescribed order, read before they have them, and
  must read again.
* **Copies.** A phone that got no answer sends a scan again, from the live screen
  or from the queue, while the first copy still runs or is still on its way. Two
  browser tabs present the same refresh token, two phones the same code.
* **Order.** Queued scans arrive after later ones, with their own timestamps.
* **Death half-way.** Publisher batches, jobs and phones die between two calls;
  the jobs and the outbox have to find what they left.
* **Growing and shared resources.** A queue of 100 rows in which parked rows
  count, a history of 20 entries, a publisher lock of fixed length with batches of any length, one audit
  chain that every transaction of the API appends to.

`PROJECT.json` lists each hazard at its line with the properties that cover it.

## 2. Modules

| module | models | composes |
|---|---|---|
| `OutboxRows` | the rows that the publisher and the live monitor share | |
| `Outbox` | the transactional outbox | `OutboxRows` |
| `LiveMonitor` | the live-monitor streams of one user | `OutboxRows` |
| `OutboxProofs` | theorems about both, and about `MCQueues` | `MCQueues` |
| `DayLedger` | the abstract specification of a day at the gate: no requests, no handlers | |
| `GateServer` | the scan handlers for one person and one day | |
| `GateServerProofs` | its theorems; it implements `DayLedger` | `GateServer`, `DayLedger` |
| `ReaderQueue` | the Android reader | |
| `ReaderQueueProofs` | its theorems | `ReaderQueue` |
| `ScanDelivery` | the reader and the server joined by an unreliable network | `ReaderQueue`, `GateServer` |
| `ScanDeliveryProofs` | its theorems, from those of its components, and those of `MCGateDay` | `MCGateDay`, `ReaderQueueProofs`, `GateServerProofs` |
| `ClassSession` | one session: teaching, jobs, leave, repairs | |
| `ClassSessionProofs` | its theorems | `ClassSession` |
| `AuditChain` | the audit chain, its verifier and its approval tool | |
| `AuditChainProofs` | its theorems | `AuditChain` |
| `Accounts` | users and their sign-in sessions | |
| `ReaderDevices` | the reader registry | |
| `Timetable` | periods, assignments, schedules, sessions to come, one leave; the locks | |
| `Enrolment` | the class rows of one student and the rosters captured from them | |
| `OfficeProofs` | theorems about accounts, the registry, the classes, and the four desks of `MCOffice` | `MCOffice`, `TimetableProofs` |
| `TimetableProofs` | theorems about the timetable | `Timetable` |
| `MC*` | constants for TLC; `MCQueues`, `MCGateDay` and `MCOffice` put several instances in one run | |

Operators whose comment says *mutant* are plausible slips of the definition next
to them. They take no part in the specifications; replacing the definition by
one of them makes a property fail, which shows that the property depends on it.

### Outbox

A row goes from ABSENT (before its domain transaction commits) over PENDING,
PUBLISHING to PUBLISHED, RETRY or DLQ. `Claim` is the one statement
`UPDATE ... WHERE id IN (SELECT ... FOR UPDATE SKIP LOCKED LIMIT n)`, an atomic
step; `XAdd`, `PubSub`, `Mark` and `Fail` are the external calls of `publishOne`,
each a step, with every outcome a call has: a Redis call that returns null may or
may not have taken effect, and so may an UPDATE that throws. `hand[b]` is the
array a batch works through; batches overlap because `setInterval` does not wait
and there are several replicas. `Lose` is the death of a process, or the catch
block's own UPDATE throwing. `availableAt` is not a clock: a RETRY row becomes
claimable some time. `recoverStalePublishing` is there, but nothing in the
running program calls it; `Recovers` says whether somebody does.

### LiveMonitor

`step[s]` is how far `streamLiveMonitor` is for stream `s`; each `await` of the
handler ends a step. `Connect` and `Count` are `acquireSseConnection` (`INCR` of a
counter whose key lives an hour), `CountLocally` its fallback when Redis does not
answer, and `TakeBack` the decrement of a refused stream. `Subscribe`,
`SendSnapshot` and `Replay` follow in the code's order. `Leave` is the `close` event:
`cleanup` runs once and gives back what the handler has stored by then (`Release`);
what the handler acquires after it is never given back, because nothing asks
whether the client is still there. `Throws` is the catch block. `Commit`, `Announce`
and `MarkPosted` are the publisher as a stream sees it. A message reaches a
subscription with its PUBLISH; a subscriber connection that Redis drops, a
deployment without `REDIS_URL`, the limit over all users and the page limits of
snapshot and replay are left out.

### GateServer

A handler serves one request in steps that end at the code's `await`s: `Decide`
(which direction a single-menu scan means), `Check` (the day's logs, minimum
stay, duplicate window, checkout window, Ashar, emergency, override), `Insert`
(stopped by the unique indices), and `PrayerRead`/`PrayerInsert`. `Arrive` may
deliver any copy of any scan at any time. A QR scan carries `clientScannedAt`, which
the DTO makes optional: those of `Unstamped`, like signed events and cards, are timed
by the server, each copy when it is received (`Clocked`). The phone of this repository
always sends it. `emergency` keeps the intervals because a queued
scan is judged by the moment of its scan; a deactivation writes its time before
it gets its lock, so it is two steps. Time is in half minutes, the coarsest grain
at which the two ways the code rounds a stay to minutes differ.

### DayLedger

What the gate promises, in six actions: `Arrive`, `Leave` (after an arrival, the minimum
stay and, for a student who has the duty, Ashar), `LeaveEarly` (at an hour the emergency
mode was declared for), `LeaveByOverride`, `Pray` and `Declare`. Each entry is written
once and never changed; the reason of a departure holds when it is written. It is no
translation of code but the specification the handlers are held against: an entry is
the row of `GateLog` or `PrayerAttendanceLog`, without the scan that made it, and all that
handlers read, decide and answer is a stutter.

### ReaderQueue

`Take`, `LiveAnswer` and `LiveForgotten` are the coroutine of the scanner screen;
`StartFlush`, `TryNext`, `FlushFinal`, `FlushRetry`, `WriteNote` and `Drop` the
orchestrator's loop over a snapshot of ready rows; between `WriteNote` and `Drop` the
outcome is in the history and the row still in the table (`note` is SAVED).
`FlushUnexpected` is the end that the two `Unexpected` branches of the orchestrator
give the loop: no attempt is counted, the row stays, the flush stops, and the next
flush may meet the same row again. `Odd` are the rows to which this may happen for
ever; any other row may meet it too, as one of the failures that pass
(`FlushTrouble`, bounded by `MaxTrouble`). `history` is `ScanHistoryStore`: `Add` puts
an entry in front and lets the oldest of `Keep` go, entries for queued scans take
places like outcomes do, and `ClearHistory` is the operator's button. What the
history showed at any time is `Told`; `gone` is the part of it that it does not show
any more. The properties are about `Told`: no model can promise that a list of 20
still shows the scan of this morning, but it can that no scan disappears before
anybody could have read what became of it. `Die` keeps what Room and the preferences
committed. `excused` holds the scans whose own coroutine ended early and those the
operator cleared: of these the phone keeps no record by design.

### ScanDelivery

A request of the phone is served by a handler (`Deliver`); the phone may give it
up at any point (`GiveUp`) and then the handler goes on unheard, or the copy
arrives later still (`DeliverLate`). Both components are INSTANCEs; their steps
are used as they are.

### ClassSession

A transaction is a step (the code locks the session row first in each). What a
handler reads before its transaction is a step of its own whose result is kept
in `opening`, `bulking`, `missing`, `review` or `pending`. `view[c]` holds the
rows that have not changed since client `c` loaded them, which is what the
version check of `recordAttendance` compares. `ReconcileTx` has both branches of
`reconcileSession`: it derives the flags, or, for a class of grade XI or XII
(CARD_NOT_READY), it sets `reconciledAt` and writes none. Which branch is taken is
left open at each run of it, since a class may be renamed, and `waived`, a history
variable, remembers it for as long as the session counts as reconciled. TELAT counts as HADIR, and IZIN and
SAKIT are left out, because the flags do not tell them apart.

### AuditChain

`db` is what is committed; `tx[p]` is an open transaction with the tables as it
sees them (`Sees`). Most writers are READ COMMITTED: they wait for the lock (`Enter`)
and see the committed rows at the time of `Resolve` and their own. The `Serializer`s
are `enrollStudent` (academic service, 1071): such a transaction has read rows before
(`Begin`) and sees the tables of that moment, which may be older than the lock it is
granted later (`Granted`). If another commit has moved the tip in between, it appends
at a sequence, or opens an epoch, that is there already, and the unique index stops
it: it ends in `collided`, and the enrolment fails. The approval tool is SERIALIZABLE
too; the statement that takes its snapshot is the request for the lock (`Ask`).

`Verified` is `verifyAuditTrustBoundary`, `Accepts` the writer's own gate, which looks
at the tip and the boundary only, `Approvable` the preconditions of an approval. Over
a chain without epochs a writer runs the verifier itself, on the rows it `Loaded`: at
most `LegacyScan` of them, the oldest first, and it refuses when these are not as many
as the last sequence (audit log, 262 and 270). A hash is named by the
writer and the sequence of the entry that carried it first. No index keeps it unique,
and it covers the previous hash and the payload: an entry that follows the same hash
as a stored one may repeat that one's hash (`NextHashes`), which is what the verifier
calls DUPLICATE_ENTRY_HASH (`Unrepeated`). `sound` says whether the stored payload still
matches. The initial states are all chains of up to three old rows: healthy, with
broken links or hashes, with rows that follow the same hash or repeat it, with a
missing sequence, with old rows that carry no hash.

### Accounts

`user[a]` is a User row (active, developer, archived, `sessionVersion`), `sess`
the AuthSession rows in the order of their creation; a token family (one sign-in)
is named by its first row. Each request (`clerk[c]`) reads in one step and writes
in a later one: `Login`/`OpenSession`, `Refresh`/`Rotate` or `ReuseFound`/`Sweep`,
`Logout` and `LogoutAll`, and for identity `Ask`, `BeginChange`, `CommitChange`. A
change holds the User row from its `user.update` to its commit, which is why a
second one waits (`Held`); its `updateMany` over the sessions works on the rows
its own statement saw (`rows`), so a session opened in between is not touched: what
keeps it out is the version it carries. `Honoured(r)` is the check of an access
token, `Changed` what each change does to the row: an import switches an account
back on without a new version and without touching its sessions.

### ReaderDevices

`device[r]` is a DeviceReader row with its secret and its activation code (random
values are numbers that are never drawn twice). `CountSlots` is the count of
readers in service, a step of its own because nothing locks it. Administrators
read (`Pick`, `AskCreate`) and write later (`IssueCode`, `RotateKey`,
`SwitchReader`, `RevokeReader`). A status may be set to REVOKED in two ways: `revoke`
also sets `revokedAt` and takes the secret and the code, `updateStatus` (op `retire`)
writes the status alone and leaves them where they are. All of them refuse a row they
read as REVOKED (`Pickable`) and none looks again when it writes, so a switch decided
before a retirement takes it back. A phone presents a code (`Present`) and trades it
(`Trade`) in an `updateMany` that names the code and the status again (`Claimable`).
`Recognised(r, s)` is the row lookup of a signed request.

### Timetable

The one module about locks. `held[c]` are the advisory and row locks of a
request, `need` those it will still take, in order; `Take` grants the first of
them, `GiveUp` is the deadlock detector or a lock timeout. `MutationRows` is the
helper all paths share, `LeaveDates` the advisory locks of a teacher's days,
`KeyShares` what an insert takes by its foreign keys. Between two batches of locks
a request reads (`DiscoverActing`, `DiscoverRescheduled`, `ListSessions`), after
the last one it reads again (`Check*`) and commits (`Write*`, `Insert*`, `Update*`,
`Put`), which is when others see it. There is one year with one semester, one
class and subject, one schedule and one leave of one day, because the locks and
checks of other rows are the same again. `Stale` says whether a form for a new
session may name a teacher who no longer holds the assignment it was filled in
from.

### Enrolment

`enrolment[r]` is a ClassEnrollment row of the one student. A transfer reads
(`Reads`, the reading half of `createEnrollmentTransfer`) and writes in a later step
(`Transfer`), which the exclusion constraint (`NoOverlap`) or, for the SERIALIZABLE
`enrollStudent`, a row changed in between (`Unchanged`) may refuse. The three imports
are READ COMMITTED; only `commitStudentsImport` makes others wait.
`SetAdministrativeStatus` cancels or revokes any row. `Backfilled(c, d)` says whether
`captureSessionRoster` puts the student on the roster of class `c` when it is run
after day `d` for a session of that day. `member` and `rewritten` are history:
what `ClassesOn` was when each day ended, and the days that a cancellation or an
enrolment dated back has changed on purpose since.

### Modules that put several instances in one run

`MCQueues` (`scene`: the publisher alone, with an operator, the live monitor, the
phone), `MCGateDay` (`scene`: phones, cards, and `link`, which is `ScanDelivery`) and
`MCOffice` (`desk`) each add a variable that is chosen at the start and never changes. It says which instance
moves; the others stay as they were. The constants in which the scenes of `MCGateDay`
differ (`PhoneKind`, `CardKind`, the windows and bounds) get their values in its cfg like
all others, so that theorems about it are about any gates. Their state spaces are therefore unions, not
products, and nothing is claimed about components acting on each other there: the
desks of the office share no row that both models see (their cfg uses the same model
values at all of them, so that one symmetry serves them all), the deployments and the
gates are alternatives, and `LiveMonitor` carries its own view of the publisher.
Components that do meet are composed in `ScanDelivery`. That the compositions are just
this is proved: `SideBySide`, `DesksImplemented` and `ScenesImplemented` (section 4) say which
instance's specification each of them implements.

## 3. Runs

| run | question | outcome |
|---|---|---|
| `queues` | do overlapping batches that may outlive their lock exclude one another, mark only what was sent, and bound copies and leftovers? With an operator who recovers, is every row settled? Does a live monitor miss an event, or a user get more streams than allowed? Can a scan vanish from the phone untold, or wait for ever behind one that the server does not answer? | holds |
| `outbox_stuck` | is every row settled in the program as it runs, where nobody calls the recovery? | violated: a batch that dies leaves its rows in PUBLISHING |
| `outbox_ack_lost` | does a row whose publication was recorded stay replayable? | violated: an UPDATE that commits and whose reply is lost is overwritten by the catch block |
| `gate` | a student's day at phones (split menu, prayer reader, emergency, override), personnel at card readers that send an event again, or one phone and the server end to end: is what it shows as sent on record, and counted once? Is the day a ledger (`DayLedger`)? | holds |
| `gate_twice` | does a scan count once, however often it is sent? | violated with the emergency mode on: the copy of an arrival becomes the departure |
| `monitor_leave` | is a stream refused for the limit only while others are open? | violated: a client that leaves while its slot is awaited leaves the slot taken |
| `session` | everything that may happen to one session at once | holds |
| `session_leave` | does an approved leave excuse the teacher? | violated: `openSession` writes the presence of the teacher it read before its transaction |
| `audit` | writers of both isolation levels, racing approvals, damaged chains, deaths anywhere | holds |
| `office` | sign-ins beside changes of the account; activation codes beside rotation and revocation; periods, assignments, schedules, sessions and a leave changed at once; the classes of a student beside the rosters of past days | holds |
| `timetable_stale` | does a session agree with its teacher's leave even if the form was filled in before the assignment changed hands? | violated: the leave of the wrong teacher is looked up |
| `lock_order` | do requests on the timetable ever wait for one another? | violated: one holds a User row and wants the period, the other the reverse |

The seven violations are findings in `PROJECT.json`, each with the line of the
repository that says otherwise.

### What the properties say

* **Queues**: `ClaimExclusive`, `OnlyLossOrphans` (a row is left in PUBLISHING only by
  a batch that died), `ProgramCopiesBounded` (without
  recovery), `KeptSettled` (with an operator; `Settled` is the same without one),
  `PublishedReplayable`; for the live monitor `ScreenComplete`, `LimitHolds`
  (and `RefusedOnlyWhenFull`, which `monitor_leave` refutes); for the phone
  `NothingForgotten` (a scan is on its way, queued, or the history has told what became of
  it, in the order in which the phone writes, dies and flushes beside a live scan),
  `SettledLeaves`, `QueueDrains` (every row leaves or is parked, unless the phone itself
  fails on it or on an older row again and again).
* **Gate**: `OutJustified`, `OkMeansRecorded` (the properties of
  `GateServer` at whichever gate the scene is about); `LedgerKept`: the day of every scene
  implements `DayLedger`, so that no row is written twice or changed and a departure has
  its reason at that moment, Ashar among them; end to end `Accounted` (what the history
  of the phone ever showed as sent is on record, and no scan disappears untold) and
  `CountsOnce` of `ScanDelivery`.
* **Session**: `ClosedReviewed`, `ReviewedStands`, `RosterFrozen`,
  `MissedUntaught`, `SwapMatchesLeave`, `AnomaliesFlagged` (except for a session whose
  class was frozen when it was reconciled), `GetsReconciled`, `LeaveExcuses`.
* **Audit**: `ManagedChainVerifies` (the quick gate of the writers never lets the
  full verifier fail, repeated hashes included, but for old rows without hashes and for a
  declared range that repeats a trusted row's hash), `RefusedOnlyIfBroken` (and never
  refuses what the verifier passes, unless the chain was too long before its first
  epoch), `NoCollision` (only a serializable writer that was overtaken fails on the unique
  sequence), `DeclaredFromFirstAnomaly`.
* **Office, accounts**: `OneOpenPerFamily` (however refreshes overlap, a sign-in has
  one open session), `DeadFamilyStaysDead` (no refresh under way revives a sign-in
  that was revoked), `RefusedForGood` (an access token refused once is never accepted
  again, although imports switch accounts back on and sign-ins end after the change
  that should have stopped them).
* **Office, readers**: `CodeTradedOnce`, `RevokedForGood`: a reader that `revoke` has
  marked stays out and no secret passes for it, whatever was decided before the
  revocation and is written after it; one that `updateStatus` made REVOKED stays out from
  when no switch decided earlier is still to be written. The second clause has to have that
  condition, because such a switch does revive it (section 5).
* **Office, timetable**: `PeriodsNest`, `UsedAssignmentsHold`,
  `LeaveAndSessionsAgree`, `OnlyUserRowsDeadlock` (every circle of requests contains
  one that waits for a User row: the order holds for all other locks), `NoDeadlock`.
* **Office, classes**: `NobodyForgotten` (whoever belonged to a class when a day ended
  is on the roster of that day, however late it is captured).

`OfficeTypeOK`, `DayTypeOK` and `TypeOK` are the types of the variables; those of
`LiveMonitor` are only proved, those of the phone are checked in the `link` scene.
`PublishedWasStreamed`, `InHandNotClaimable`, `DlqOnlyExhausted` and `CopiesBounded` of `Outbox` have no run
of their own any more; they are proved (section 4), as is `AsharOnRecord`, which
`LedgerKept` includes. `DeveloperRemains` of
`Accounts` (section 5) is stated and not run.

### Bounds

Every bound is a constant whose name says so.

* *Queues*: two rows, the second created in the same instant as the first or
  later, two batches, `Limit` 2, two attempts, one death, one database error. Two
  batches are the least that interfere; two attempts let a row be retried, sent
  again and given up. The theorems below cover every other size. The phone: three
  scans, one of them malformed, a queue and a snapshot of two rows, so that the
  queue is full and a row stays outside the snapshot; two deaths or failed writes; one
  row (`Odd`) on which the phone may fail for ever, in the middle, so that a row waits
  behind it and one does not; a history of one entry (`Keep`), the least: each outcome
  pushes the one before out.
  The monitor: two streams of a user who may have one, the same two rows, one Redis
  command without an answer, one key that expires. The second stream is the one
  the limit is about; three streams have been checked as well.
* *Gate*: three scans (two at the card readers), two handlers, a day of two or three
  half minutes with a stay of one minute: enough for a scan that is older than
  another one's row, for both roundings, and for an emergency that ends between a
  scan and its arrival. The departure's scan at the phones is `Unstamped`.
  `link`: two scans, two handlers, one death, a history of one entry; every copy may
  be late; no row fails for ever there (`Odd`), which `queues` has and the theorems
  cover. TLC tells states of this run apart by what the history told (`DayView`) and not by what
  it still shows: no step but its clearing asks for that, and the properties ask for `Told`.
  A person has at most two gate rows and one Ashar row a day,
  so a third handler only repeats what the second does.
* *Session*: one student and one client, one job that dies. Except for the
  journal, the close and the roster, rows of different students do not meet: a
  handler treats each row by itself, and the client's versions are per row. With a
  second student the state space is no longer checked in minutes.
* *Audit*: three old rows (an anomaly with a trusted row before it and an old row
  behind it), of which a writer loads two (`LegacyScan`), so that chains below, at and
  above that bound occur; sequences up to 4: the boundary behind three old rows, and a
  writer's entry behind a boundary over two. One READ COMMITTED and one SERIALIZABLE
  writer, two approvals, one row that drifts. The theorems cover longer chains and more
  of each.
* *Office, accounts*: one account and two requests, three sessions, one new version:
  two refreshes of one token, or a sign-in beside a change, with a third session
  for what comes after. Sessions of different accounts only meet in
  `Developers`, which no checked property is about; `Elsewhere` stands for other
  developers.
* *Office, readers*: two readers of which one may be in service, two requests, three
  random values: a code, the secret it gives, and one that replaces either.
* *Office, timetable*: two teachers, two days, two assignments, one session, two
  requests from any state the school year may be in (`TimetableInit`: with and
  without a second assignment, a schedule, a session, an approved leave). Every
  check and lock is about at most two rows of a kind. Circles of three requests are
  not seen; a circle needs a pair of locks taken in both orders, and two requests
  show every such pair.

* *Office, classes*: two rows, two classes, two requests, two days, from a student
  without a row or with one that has no end. A roster depends on each row by itself
  and a request closes one row and opens one, so two rows show each thing a request
  can do to a past day; the theorem covers more days, rows and requests.

### Fairness

* `MCQueues!QueuesFairness` has `Outbox`'s: weak fairness of `Claim` and `Publish` of
  each batch (a timer fires every second, and each external call of a live process
  returns), and, where an operator is, of the passing of time and of `Recover`. Nothing
  obliges Redis or the database to answer well. `outbox_stuck` uses
  `Outbox!FairSpec`, where `Recover` is never enabled.
* It also has `ReaderQueue`'s: a flush is started again and again (by the operator
  or by the network's return), its steps are taken, and a live request ends, since
  the HTTP client has timeouts. No answer is promised to be good, and nothing obliges the
  phone to succeed with a row of `Odd`: that is why `QueueDrains` excepts rows behind one.
  Other failures of the phone itself are passing ones, `MaxTrouble` of them.
* `ClassSession!FairSpec`: the worker's repeatable jobs list pending sessions and
  reconcile them again and again. No teacher, reviewer or auto-missed job has to
  act.

The other runs check safety and assume no fairness. `CHECK_DEADLOCK FALSE` stands
where the system really may stop: all rows settled, the day over, the session
reconciled, the office closed. `audit` is checked for deadlock: whoever waits for the
lock gets it in the end or gives up.

## 4. Proofs

`OutboxProofs` proves for any finite set of rows (`FiniteRows`; only the last
theorem uses it), any batches, `Limit`, `MaxAttempts`, number of deaths and errors
(`OutboxAssumption`):

| theorem | says | assumes |
|---|---|---|
| `TypeCorrect` | `[]TypeOK` | nothing more |
| `NothingMarkedUnsent` | `[]PublishedWasStreamed` | nothing more |
| `Exclusion` | `[]ClaimExclusive` | not both recovery and slow batches |
| `HeldRowsUnclaimable` | `[]InHandNotClaimable` | not both recovery and slow batches |
| `AtMostMaxAttempts` | `[]CopiesBounded` | no recovery |
| `DlqExhausted` | `[]DlqOnlyExhausted` | no recovery |
| `OrphansOnlyByLoss` | `[]OnlyLossOrphans` | nothing more |

`ClaimExclusive` is not inductive: from a state in which a row is in a batch's
hand but says PENDING, a second batch claims it. `IInv` adds that a held row says
PUBLISHING, or is already marked (`HeldRows`), that the row being published is in
its batch's hand (`InHand`), that a batch reaches the update only after XADD
(`SentBeforeMark`), and that the row of a live batch has no old lock unless
batches may be slow (`LockInv`). `InitIInv` and `StepIInv` are the two inductive
facts; the step lemma has one step per action. It needs
`~(Recovers /\ Slow)`: a recovery that takes a slow batch for dead does put a row
into two hands. Types and `PublishedWasStreamed` survive even that and are proved
from the smaller invariant `Unconditional`. The counting theorems add `Counters`
(the number a batch remembers is the row's, and it has sent the row less often).
They exclude recovery because a row recovered after its last attempt is claimed
once more: with `Recovers`, `CopiesBounded` is false. That is also why the run
`queues` checks `ProgramCopiesBounded`, which is `CopiesBounded` without an operator.
`OnlyLossOrphans` bounds the number of a set of rows; its invariant says that each batch
holds at most `Limit` of them, that the bound has room for `Limit` rows of every batch
that died, and that a row without a batch is one of these, also when several live
batches work on it.

About `MCQueues`, where publisher, monitor and phone are side by side, it proves:

| theorem | says | assumes |
|---|---|---|
| `SideBySide` | `QueuesSpec => MonitorSpec /\ QueueSpec` | nothing more |
| `ProgramAttempts` | `[]ProgramCopiesBounded` | no recovery in the program |
| `MonitorKeptThere` | `[](ScreenComplete /\ LimitHolds)` | `MonitorAssumption` |

In the scene "program" the composition implements `Outbox` (`ProgramIsOutbox`); in the scene
"operator" it does not, because there the other deployment runs, and the theorem says
nothing of it.

`ClassSessionProofs` proves every safety property of the passing run of
`ClassSession`, for any sets of students and clients, whoever came in, and any
number of jobs that die. It uses nothing but `SessionAssumption`: two different
teachers, and a `None` that is no teacher, status, row or presence.

| theorem | says |
|---|---|
| `TypeCorrect` | `[]TypeOK` |
| `ClosedIsReviewed` | `[]ClosedReviewed` |
| `MissedOrHeld` | `[]MissedUntaught` |
| `SubstituteWithLeave` | `[]SwapMatchesLeave` |
| `ReconciledIsFlagged` | `[]AnomaliesFlagged`: for every session not `waived` by the frozen branch |
| `RosterStands` | `RosterFrozen` |
| `ReviewIsKept` | `ReviewedStands` |

`TypeOK` is inductive and `ReviewedStands` needs no more than it; the others are
not inductive. `IInv` adds what the handlers rely on without saying so:
a roster is usable once the session is open and never before (`Begun`; without it
a repair could replace the roster of a closed session), nothing is recorded before
the session is open (`Untaught`), a bulk confirmation that passed its check can
only be overtaken by the close and not by a missed session (`NoneAtWork`), the
teacher of a closed session has checked out (`CheckedOut`), and the leave under
review is undecided (`ReviewInv`). `CheckedOut` is what keeps `AnomaliesFlagged`:
`revoke` deletes the teacher's presence, which would add the anomaly
TIDAK_MENGAJAR to a session reconciled before, but it refuses a presence with a
check-out. `StepIInv` and `StepFlagged` are the two step lemmas;
`BulkTooLate`, `CorrectDerived` and `ExcuseDerived` say what a late bulk
confirmation, a correction and an excuse do to the rows and the derived flags.

`OfficeProofs` is about the office. Of the registry it proves three
properties, for any sets of readers and requests and any limits
(`ReaderDevicesAssumption`):

| theorem | says |
|---|---|
| `DevicesTyped` | `[]DevicesTypeOK` |
| `CodeGivesOneSecret` | `[]CodeTradedOnce` |
| `RevokedStayOut` | `RevokedForGood`, an action property |

`CodeTradedOnce` needs to know where codes are: `CodeInv` says that every code in
the table or in a phone's hand was drawn (`CodesDrawn`), that no two readers have the
same one (`CodesApart`) and that a traded code is in no row any more (`TradedGone`). The
trade then draws its secret for a code that no earlier pair has, because `Claimable`
finds it in the row. `RevokedForGood` has two cases. A marked reader stays so
(`StepMarked`): no handler clears `revokedAt`, although a status decided before the
revocation may still be written after it, and the lookup of a signed request asks for it. A
reader that is REVOKED without the mark and that no switch is still to be written for stays
so too (`StepRetired`), because every request that reads the row from then on is refused,
and what was decided before and is not a switch leaves the status alone: a rotation gives
it a new secret and a trade finds it REVOKED.

Of the live monitor `OutboxProofs` proves, for any rows, any finite number of streams,
any limit and any number of lost replies (`MonitorAssumption`):

| theorem | says |
|---|---|
| `MonitorTypeCorrect` | `[]MonitorTypeOK` |
| `NothingMissed` | `[]ScreenComplete` |
| `LimitKept` | `[]LimitHolds` |

`ScreenComplete` speaks of streams that have their snapshot; what makes it
inductive is that a stream whose client is there is subscribed from its
subscription on (`Listening`), so that an announcement after the snapshot reaches
it. `LimitHolds` needs two facts. A stream that has not been admitted holds no slot
(`UnadmittedHoldNone`). And the counter covers every open stream it admitted and,
beyond them, every refused one that still has to take its increment back
(`Covered`, with `Owing`): that a refused stream gives back its own increment and
not that of an open one is the argument, and without `Owing` the step `TakeBack`
would break it. `GrowsByOne`, `ShrinksByOne`, `NoLarger` and `HeldCount` are the facts
about cardinalities it rests on.

Of the classes `OfficeProofs` proves `EnrolmentTyped` (`[]EnrolmentTypeOK`) and `RosterRemembers`
(`[]NobodyForgotten`) for any rows, classes, requests and any length of the semester
(`EnrolmentAssumption`). `NobodyForgotten` is inductive with the types and one more
fact, `FoundStands`: the rows a request has read exist and began before the day it will
close them, so that a closed row keeps every day before the transfer. Nothing is needed
about isolation: even a transfer that overwrites what it did not see takes away only
days from its own first day on, and those that are past by then are `rewritten`.

`GateServerProofs` is about any scans, kinds of scan, handlers, emergencies and policy
(`GateAssumption`):

| theorem | says | assumes |
|---|---|---|
| `TypeCorrect` | `[]TypeOK` | nothing more |
| `GoneForAReason` | `[]OutJustified` | nothing more |
| `PrayedBeforeLeaving` | `[]AsharOnRecord` | nothing more |
| `NoScanLost` | `[]OkMeansRecorded` | nothing more |
| `NothingTakenBack` | `[][Grew]_vars` | nothing more |
| `ScansCountOnce` | `[]CountsOnce` | a minimum stay, no emergency mode, scans of the single menu carry `clientScannedAt` |
| `LedgerImplemented` | `Spec => Ledger!LedgerSpec` | nothing more |

None of the properties is inductive: they speak of rows, and what puts a wrong row
there is a handler that decided on rows of some time ago. `Part` says what each handler
may be doing between its steps: a departure about to be inserted has its reasons on
record (`Founded`), an answer ok has the row (`Backed`), a single-menu scan has become a
departure only behind another scan's arrival (`Apart`). That a handler's part survives the
others' steps is one lemma for all of them, because no step takes anything back
(`Grew`): a row of the day is never changed, Ashar never withdrawn, an hour under
emergency stays covered. `ScansCountOnce` assumes what `gate_twice` shows to be needed:
with an emergency the minimum stay is not asked for, and a copy of the arrival leaves. It
also assumes that the phone says when a scan of the single menu was made: without that
each copy is as old as its receipt, and one that is sent again after the minimum stay is
the departure (gate service, 736). Both are in the invariant as `Calm`.

`LedgerImplemented` is the refinement of `DayLedger`. The refinement mapping reads the three
entries off the rows and takes for excused every hour some emergency covered. A ledger
step needs its reason in the state in which it is taken, a handler has it from its read;
`Founded`, which `Grew` keeps, is the bridge. It says of a plain departure that the stay is
long enough and of an early one that its hour is covered, each by itself: `OutJustified`
alone, which asks for either, would not show which of the ledger's actions an `Insert` is.

`ReaderQueueProofs` proves `TypeCorrect` (`[]QueueTypeOK`), `ForgetsNothing`
(`[]NothingForgotten`) and `SentRowsLeave` (`[]SettledLeaves`) for any number of scans, any
size of the queue, of a flush and of the history, any rows that fail again and again, any
deaths and failed writes (`QueueAssumption`). That the history forgets is not in the way:
an entry it lets go of, or that the operator clears, stays in `Told` (`Adds`, `Clears`), and
what the theorems say is that the history told of the scan, not that it still does. A
scan is forgotten when the one place that knows it is left before the next one has it,
so `IInv` says where the flush is: the request in flight and the note to be written are
those of its row (`AtRow`), a live scan is in no other place yet (`Fresh`), and without
deaths a row that was sent is still queued only between its note and its deletion
(`Settling`). That the queue has an oldest row is `Least`, from the well-foundedness of
`<`.

`ScanDeliveryProofs` uses both: the phone and the server of the link are INSTANCEs, and so
are the proofs about them, whose step lemmas are cited for the link's steps.

| theorem | says | assumes |
|---|---|---|
| `TypeCorrect` | `[]TypeOK` | nothing more |
| `EveryScanAccounted` | `[]Accounted`: sent means recorded, and no scan goes untold | nothing more |
| `NoCopyCounts` | `[]CountsOnce` | a minimum stay |
| `PhoneImplemented` | `Spec => Phone!QueueSpec` | nothing more |
| `LinkIsLedger` | `Spec => Gate!Ledger!LedgerSpec` | nothing more |

`PhoneImplemented` is a refinement: whatever the network and the server do, they are
answers and silences that the phone's own specification allows for, so that what is
proved of `ReaderQueue` holds of the phone on this link. End to end one needs more than
the two invariants: a request in flight is served by a handler of its own, for its own
scan (`Serves`), and what the phone notes as sent was answered by a handler that had its
row (`Sent`), and of these two `Sent` outlives the entry in the history.
`DeliveryAssumption` says that phones scan QR codes; the link has no emergency mode and its phone sends the time of every scan, so `NoCopyCounts` needs no
assumption about either. `LinkIsLedger` goes the
other way: phone, network and server together are one ledger of the day.

The module also has the theorems about `MCGateDay` as it is run, for any scans, kinds,
windows and bounds of either gate (`DeliveryAssumption`, `DayAssumption`):

| theorem | says | assumes |
|---|---|---|
| `DayTyped` | `[]DayTypeOK` | nothing more |
| `NobodyLeavesWithoutReason` | `[]OutJustified` | nothing more |
| `PrayerBeforeLeaving` | `[]AsharOnRecord` | nothing more |
| `OkLeavesARow` | `[]OkMeansRecorded` | nothing more |
| `DayAccounted` | `[]Accounted` | nothing more |
| `DayCountsOnce` | `[]CountsOnce` | a minimum stay; the phones of scene "phones" have the split menu |
| `DayIsLedger` | `LedgerKept` | nothing more |

The scene is fixed, so each scene implements the specification of its own handlers
(`ScenesImplemented`) and has the invariant proved of them (`SceneInvariant`); the two gates
are instances of `GateServerProofs` with their own constants. `DayCountsOnce` shows where
the copy of `gate_twice` comes from: it takes the single menu and an emergency.

Of accounts and sessions `OfficeProofs` proves, for any accounts and requests, any other developers
(`AccountsAssumption`):

| theorem | says |
|---|---|
| `AccountsTyped` | `[]AccountsTypeOK` |
| `OneOpenSession` | `[]OneOpenPerFamily` |
| `SignedOutForGood` | `DeadFamilyStaysDead` |
| `RefusalStands` | `RefusedForGood` |

`FamilyInv` carries the first two: the row a rotation names is there, families are named
by their first row, two open rows of a family are one. A rotation writes with a
condition on the row it read, so a second one finds it revoked. `HonourInv` is what an
access token rests on although an import switches accounts back on: no session, open or
about to be opened, carries a version its user has not reached (`NoVersionAhead`), and
whoever carries the version of today belongs to an active account
(`CurrentMeansActive`), because whatever deactivates an account gives it a new version.
A session opened after the change that should have stopped it carries the old one.

Of the four desks together, which is what the run `office` checks:

| theorem | says | assumes |
|---|---|---|
| `DesksImplemented` | `OfficeSpec` implements `DevicesSpec`, and at its desk `AccountsSpec`, `TimetableSpec` or `EnrolmentSpec` | nothing more |
| `OfficeTyped` | `[]OfficeTypeOK` | nothing more |
| `OfficeInOrder` | `[]` of `OneOpenPerFamily`, `CodeTradedOnce`, `PeriodsNest`, `UsedAssignmentsHold`, `LeaveAndSessionsAgree`, `OnlyUserRowsDeadlock` and `NobodyForgotten` | `~Stale`, finitely many registrars |
| `OfficeRefusesForGood` | `DeadFamilyStaysDead`, `RefusedForGood` and `RevokedForGood` | nothing more |

A desk that rests does not move (`RestingKept`), and at rest it satisfies its invariants
(`QuietAccountsFine`, `QuietTimetableFine`, `QuietEnrolmentFine`); the one that works has
them from its own theorem.

`AuditChainProofs` is about any number of writers of either isolation level and approvals,
the old rows of `LegacyChains` up to any length, any `LegacyScan` and any number of rows that drift
(`AuditAssumption`):

| theorem | says |
|---|---|
| `TypeCorrect` | `[]TypeOK` |
| `WritersDoNotCollide` | `[]NoCollision`: READ COMMITTED writers never, SERIALIZABLE ones only if overtaken |
| `RefusalsAreFounded` | `[]RefusedOnlyIfBroken`: a refused chain is broken, or was too long before its first epoch |
| `ChainsVerify` | `[]ManagedChainVerifies`: unless old rows lack hashes or the declared range repeats a trusted hash |
| `DeclarationsAreExact` | `[]DeclaredFromFirstAnomaly` |

The argument is about views. Who reads or writes the chain holds the lock
(`LockedBy`); what it is about to commit has every committed row, unchanged but for
what drifted (`Continues`); and the snapshot of an approval or of a serializable writer, which
may be older than its lock, is the present as long as the tip has not moved, because every
commit moves the tip (`Snapshot`). The approval compares the tip when it writes the state;
the writer does not, and if it was `Overtaken` its insert meets a committed row. `Sharp` is what the committed tables
satisfy while nothing has drifted: a managed chain verifies, and an incident covers
exactly the old rows from the first anomaly to the boundary. A writer looks at the tip
alone; that this is enough is `ChainsVerify`. It includes that no two rows outside the
declared range share a hash, which no index enforces: in a chain that verifies nothing
follows the tip's hash yet (`Shape`), so that the next entry's hash is a new one.
`VerifiedAccepted` is the other direction, from the verifier to the writer's gate.

`TimetableProofs` is about any teachers, assignments, finitely many sessions, any days and
any number of requests (`TimetableAssumption`: ids are numbers, which stand for the
lexical order of the real ones, and somebody asked for leave of a day there is):

| theorem | says | assumes |
|---|---|---|
| `TimetableTyped` | `[]TimetableTypeOK` | nothing more |
| `PeriodsStayNested` | `[]PeriodsNest` | nothing more |
| `AssignmentsInUseHold` | `[]UsedAssignmentsHold` | nothing more |
| `SessionsFollowLeave` | `[]LeaveAndSessionsAgree` | `~Stale` |
| `OnlyUserRowsInCircles` | `[]OnlyUserRowsDeadlock` | finitely many requests are served at a time |

Every handler checks first and writes later, so no property is inductive: it would be
broken by a write whose check is out of date. The argument is one of rely and
guarantee. `Part(c)` says what request `c` relies on between its steps: the rows it read
and the outcome of its checks, each together with the lock that protects it, which `c`
holds or is going to hold before it looks again (`Claimed`). `Guarantee(c)` says what a
step of `c` may change: only what `c` holds the lock of, and a row once made stays made.
No two requests hold locks that clash (`Exclusive`), so what one may change is not what
another relies on; that is one lemma for all pairs of requests (`Relied`), and each
action's lemma is left with its own part and with its write. `PeriodsNest` rests on the
AcademicYear row, which every path that changes a period or an assignment holds from
its check to its write; `UsedAssignmentsHold` on the assignments' rows, together with
what `updateTeachingAssignment` refuses for one in use. What is strengthened is `Placed`: a
session with a substitute refers to two assignments, and the substitute is not the
applicant.

`LeaveAndSessionsAgree` adds a second layer, `Days`: whoever will write a session holds
the advisory lock of its formal teacher on its day (`DaysHeld`), who changes the leave
holds the leave's row and its day (`DayGuarantee`), and an approval or revocation that
passed its check still has the list of sessions of that day (`LeaveSessions`). It needs
that a request locks the days of the teacher the assignment has, which is what `~Stale`
says and `timetable_stale` refutes without.

`OnlyUserRowsDeadlock` has an invariant of its own, `InOrderOfLocks`. Leave and schedule,
days, year, semester, assignments, sessions are the tiers 1 to 6 of the locks, and within
a tier the ids order them; User rows have no tier. The list of a request rises
(`Rising`), all it holds is below all it still has to take, and before its next list it
has gone no further than a tier that its step determines (`Top`), so that the lists of
one handler continue each other: each handler's lemma shows that its next list runs
from the old `Top` to the new one (`Goes`). If requests wait for one another and none of
them waits for a User row, the one that waits for the highest lock waits for a holder
that waits for a higher one; a finite set of requests has a highest, and
`RowsCloseNoCircle` says just that. The leave and the schedule share a tier because no
request takes both. User rows are what is left out, and `lock_order` shows the circle
they close.

Model-checked only is liveness (`KeptSettled`, `QueueDrains`, `GetsReconciled`), which is
out of the prover's reach together with ENABLED. Every other property of a passing run is
stated by a theorem of this section, for the specification of that run or for that of
the component it is about.

## 5. Divergences without a run of their own

* The ADR on the audit chain (`docs/adr/audit-chain-trust-boundary.md:41`) says
  each append recomputes the whole active epoch; the code recomputes the tip and
  does the rest only under `AUDIT_HOT_PATH_FULL_LINEAGE_VERIFY` (audit log,
  150-157). `Accepts` is the default; a row that drifts behind the tip is noticed
  by `Verified`, not by the writers.
* A chain whose oldest rows have no hashes passes the verifier without epochs, and
  fails it after the first append, which opens epoch 1 from sequence 1 (audit log,
  277; core, 584). `ManagedChainVerifies` excepts such chains by name.
* A correction after reconciliation leaves flags as they were, though
  `prd-ehadir-v2.1.md:633` says they are updated with it (class service, 1539);
  `AnomaliesFlagged` excepts corrected rows.
* A leave revoked after its session was reconciled as missed never yields the flag
  TIDAK_MENGAJAR (`prd-ehadir-v2.1.md:624-625`).
* `repairSessionRoster` on a MISSED session makes its recovery impossible, and a
  session recovered and taught keeps the presence ALPA_MENGAJAR.
* A reader set to REVOKED by `updateStatus` (device service, 561-598; the DTO takes every
  status) keeps its secret and its activation code and has no `revokedAt`. A request to
  activate or deactivate it that was read before is written after it and takes the
  revocation back. `RevokedForGood` excepts such a reader as long as such a
  request is under way.
* Sessions of the classes XI and XII are reconciled without a flag (reconciliation service,
  479-501, and `reconciliation.service.spec.ts:150-173` asserts it). A closed session that
  counts as reconciled is then no sign that its anomalies are on record;
  `AnomaliesFlagged` excepts sessions whose class was frozen at that moment.
* A chain without epochs and with more than 100,000 rows is refused by every writer (audit
  log, 262 and 270), though it verifies. `RefusedOnlyIfBroken` excepts it.
* An enrolment runs SERIALIZABLE and asks for the chain's lock late (academic service,
  1055-1071): if another audited transaction commits in between, it fails on the unique
  sequence and is not tried again. `NoCollision` says that nothing else collides.
* An approval of a damaged chain does not look for hashes that the damaged rows share with
  the trusted ones; the verifier reports them for good (core, 627), while writers go on.
* A row on which the phone itself fails stops every flush, without an attempt counted, and
  the rows behind it wait (the orchestrator, 66-69 and 83-86). The reader's README (line 24)
  says so; the limit of ten attempts does not cover it. `QueueDrains` excepts those rows.
* A QR scan without `clientScannedAt` (optional in the DTO) is timed by each receipt (gate
  service, 736), so that a copy of a single-menu arrival, sent again after the minimum stay,
  is recorded as the departure even without an emergency. The phone always sends the time.
* Parked rows count against the reader's limit of 100 although the reader's README
  (line 24) says they are in no other scan's way.
* A queued copy of a scan that meets its own row through the unique index is
  answered 409 (gate service, 1116), and the phone shows a rejection for a scan that
  is on record.
* The last developer: `updateUser` counts the active developers before its
  transaction, and only when it deactivates one (identity service, 420). Two
  deactivations at once, or one change of role, leave none. `Accounts` states
  `DeveloperRemains`; with two accounts and `Elsewhere = 0` TLC violates it in three
  steps.
* The school import (identity service) gives an existing account a role and switches
  it on without touching its sessions: a demoted developer keeps the sessions, whose
  rights are read from the row at each request. `Changed` has it.
* The limit of readers in service is a count without a lock (device service, 257): two
  activations at once exceed it. Nothing depends on the number.
* A session moved off a leave day (scheduling service, 1083) keeps its teacher excused
  when the leave had no substitute, because only a session with a substitute loses the
  presence. `Rescheduled` has it; `LeaveAndSessionsAgree` asks for the excuse on leave
  days and says nothing of others.
* The replay for a `Last-Event-ID` (outbox service, 156-172) selects what was *created*
  after the named row. An older row that was published late, because it was retried,
  is not replayed, and the ids of heartbeats and snapshots name no row. The snapshot
  that precedes the replay shows the rows' effect all the same, which is why
  `ScreenComplete` holds.
* The key of a user's stream counter expires an hour after the first stream, also
  while streams are open; from then on the limit counts new streams only.
  `LimitHolds` ends at `lapsed`. A client that leaves half-way also leaves its
  subscription and heartbeat behind until the process ends.
* Revoking a row that was already cancelled or revoked overwrites the moment of the
  first decision (academic service, 1031: no condition on the status). A roster captured
  later (class service, 219-238) then counts the student on the days between, as if the
  revocation were the later one, while
  `attendance-class.service.spec.ts:799` has "excludes REVOKED enrollments changed at or
  before business-day end". The converse of `NobodyForgotten` is therefore false.
* The school import (identity service, 1192) sets `administrativeStatus` to TRANSFERRED,
  which the table's CHECK refuses (migration 0032, 41-42): an import that moves one
  student to another class fails as a whole. `SchoolImport` has no such step.
* The school import dates a row with `now` (identity service, 1090, 1152), whose date is the
  UTC one, the day before until seven in the morning, though
  `docs/ADR_EFFECTIVE_DATED_ENROLLMENT.md:9` asks for the Asia/Jakarta date; and the
  other imports transfer in READ COMMITTED transactions, though line 11 says
  "in one serializable transaction".
* QR generation and rotation revoke and create without a unique index on the active
  credential, so two at once leave two ACTIVE, though
  `docs/adr/0002-stable-student-card-qr.md:42` wants one. Not modelled yet.
* The counters of failed sign-ins are read before they are compared and written after
  (auth service): guesses sent at once are all counted against the same number. Not
  modelled.

## 6. Not modelled

`PROJECT.json` lists every part with its reason. In short: cryptography
(signatures, password hashes, HMACs) is a primitive; permissions, geofence and
validation only refuse requests; reporting, listings and documents only read;
deployment, backup and migration scripts run outside the program; screens keep no
state the server relies on. These are by far the most lines of the repository: the
share of it that the map covers stays small for that reason, and it covers most of
the handlers that write under concurrency. Of the parts that do keep such state,
the ones below are planned.

Of the modelled services, what the modules leave out: times of the day and rooms in
the timetable (the exclusion constraint on teachers stands for all overlaps);
classes, subjects and rooms; the students' own state (a roster leaves out accounts that are
no students); PINs, NKD numbers and names; login counters and the CSRF cookie; nonces and heartbeats of
readers; corrections by hand and CHECK_ONLY at the gate; the overlap of leave ranges
and the documents of a leave; escalations and the flags that follow from the day's
gate and prayer rows alone.

## 7. Plan

Done, in this order: `Outbox`, `GateServer`, `ReaderQueue`, `ScanDelivery`,
`ClassSession`, `AuditChain`, `Accounts`, `ReaderDevices`, `Timetable`, `LiveMonitor`,
`Enrolment`, each with its proofs.

Next modules, the most important first:

1. `OverrideReview`: request, approve and revoke an override (gate service
   1223-1332), where approval and revocation read a status and update without a
   condition; it then drives `override` in `GateServer`. The connection that
   `createSecurityFlag` takes inside the transaction (1269) belongs to it.
2. `Credentials`: one active QR credential per person.

Abstract specifications: the ledger of a day (`DayLedger`) is stated, checked and proved.
Worth stating are a queue that delivers at least once and settles each item once,
implemented by `ScanDelivery`, and an append-only log implemented by `AuditChain` below
its verifier.

Proofs worth having: what the audit verifier says of a table in which rows drift after
the boundary.
