------------------------------ MODULE AuditChain ------------------------------
(***************************************************************************)
(* The tamper-evident audit log.  Every business transaction of the API    *)
(* ends by appending entries to one hash chain (common/audit-log.ts):      *)
(* under a PostgreSQL advisory lock held until commit it reads the chain   *)
(* state, checks that the chain may be continued, inserts the next entry   *)
(* and moves the state's tip.  A chain whose history was damaged accepts   *)
(* nothing until an operator runs the approval tool                        *)
(* (audit-trust-boundary.approval.ts), which declares the damaged range    *)
(* and opens a second epoch behind an explicit boundary entry.             *)
(*                                                                         *)
(* A hash is named by the writer and the sequence of the first entry that  *)
(* carries it.  It depends on the previous hash and the payload alone, and *)
(* no index keeps it unique: an entry that follows the same hash as a      *)
(* stored one may have its payload and then has its hash.  `sound` says    *)
(* whether the stored hash still matches the stored payload.  The entry id *)
(* kept beside the hash in the chain state always moves with it and is     *)
(* left out.                                                               *)
(***************************************************************************)
EXTENDS Integers, FiniteSets

CONSTANTS
    Writer,      \* transactions that write audit entries
    Serializer,  \* those of them that run SERIALIZABLE (enrollStudent); the rest READ COMMITTED
    Approver,    \* runs of the approval tool (SERIALIZABLE)
    LegacyScan,  \* how many old rows a writer looks at before the first epoch (100000)
    MaxLegacy,   \* bound: entries that predate the epochs
    MaxSeq,      \* bound: the highest sequence
    MaxDrifts    \* bound: stored rows that stop matching their hash later on

VARIABLES
    db,      \* the committed tables: entries, state, epochs, incident
    tx,      \* each open transaction: where it is, what it sees, what it was asked
    lock,    \* who holds advisory lock 389551911
    drifts   \* how many stored rows have drifted

vars == <<db, tx, lock, drifts>>

Proc == Writer \cup Approver
Nobody == "nobody"

\* The old rows fit under the bound of the sequence; a transaction is of a
\* business handler or of the approval tool, and is told from the old rows.
ASSUME AuditAssumption ==
    /\ {LegacyScan, MaxLegacy, MaxSeq, MaxDrifts} \subseteq Nat
    /\ MaxSeq >= 1 /\ MaxLegacy <= MaxSeq
    /\ Serializer \subseteq Writer /\ Writer \cap Approver = {}
    /\ {Nobody, "legacy"} \cap Proc = {}

Null == <<"null", 0>>
Foreign == <<"foreign", 0>>
Commitment(end) == <<"commitment", end>>
NoIncident == [trusted |-> 0, end |-> 0]
NoRequest == [latest |-> 0, trusted |-> 0]

-----------------------------------------------------------------------------
(* The stored chain. *)

HashAt(es, s) == IF s \in DOMAIN es THEN es[s].hash ELSE Null

LegacyHashes(s) == {<<"legacy", t>> : t \in 1..s}

LegacyEntry(s) ==
    [by : {"legacy"}, hash : {Null} \cup LegacyHashes(s), sound : BOOLEAN,
     prev : {Null, Foreign} \cup LegacyHashes(s - 1)]

LegacyDomain == {1..n : n \in 0..MaxLegacy} \cup {{1, 3} \cap 1..MaxLegacy}

\* What the migrations leave (0022, 0027, 0041): the state row agrees with the
\* last entry, and there is no epoch and no incident yet.  Links and hashes may
\* be damaged, two rows may follow the same hash and even carry the same one, a
\* sequence may be missing, old rows may carry no hash at all.  A hash that
\* matches its payload was made after the one it follows, and two rows whose
\* payload it matches follow the same one; a row that no longer matches is of
\* the right place with a changed payload, or with a changed link as well.
LegacyChains ==
    {es \in UNION {[D -> UNION {LegacyEntry(s) : s \in D}] : D \in LegacyDomain} :
        \A s \in DOMAIN es :
            LET own == <<"legacy", s>>
                earlier == {es[t].hash : t \in {t \in DOMAIN es : t < s}}
            IN  /\ es[s].hash \in {Null, own} \cup earlier
                /\ es[s].prev \in {Null, Foreign} \cup earlier
                /\ es[s].hash = Null => es[s].sound /\ es[s].prev = Null
                /\ ~es[s].sound =>
                     es[s].hash = own /\ es[s].prev \in {Foreign, HashAt(es, s - 1)}
                /\ es[s].hash # Null /\ es[s].sound =>
                     /\ es[s].prev[2] < es[s].hash[2]
                     /\ \A t \in DOMAIN es :
                          es[t].hash = es[s].hash /\ es[t].sound => es[t].prev = es[s].prev}

LastOf(es) == IF DOMAIN es = {} THEN 0 ELSE CHOOSE s \in DOMAIN es : \A t \in DOMAIN es : t <= s

Legacy(es) ==
    [entries |-> es,
     state |-> [last |-> LastOf(es), hash |-> HashAt(es, LastOf(es)), active |-> 0],
     epochs |-> <<>>, incident |-> NoIncident]

Empty == Legacy(<<>>)
Idle == [pc |-> "idle", view |-> Empty, asked |-> NoRequest]

ActiveEpochs(d) == {n \in DOMAIN d.epochs : d.epochs[n].end = 0}
Managed(d) == d.epochs # <<>> \/ d.incident # NoIncident \/ d.state.active # 0
Declared(d) == d.incident # NoIncident
Historical(d) == IF Declared(d) THEN d.incident.trusted + 1 .. d.incident.end ELSE {}

-----------------------------------------------------------------------------
(* The verifier (verifyAuditTrustBoundary). *)

\* The entry links to the hashed entry before it, or starts the chain.
Linked(es, s) ==
    LET earlier == {t \in DOMAIN es : t < s /\ es[t].hash # Null} IN
    \/ earlier = {} /\ es[s].prev = Null
    \/ \E t \in earlier : es[s].prev = HashAt(es, t) /\ \A u \in earlier : u <= t

\* isApprovedTrustBoundaryMarker: the entry the approval tool wrote, unchanged.
Marker(d, s) ==
    /\ s \in DOMAIN d.entries
    /\ d.entries[s].by \in Approver
    /\ d.entries[s].prev = Commitment(d.incident.end)
    /\ d.entries[s].sound

\* What the epoch metadata must say, with and without a declared incident.
EpochsOk(d) ==
    Managed(d) =>
        /\ ActiveEpochs(d) = {d.state.active}
        /\ IF Declared(d)
           THEN /\ d.state.active = 2
                /\ d.epochs[1] = [start |-> 1, end |-> d.incident.trusted]
                /\ d.epochs[2].start = d.incident.end + 1
           ELSE d.state.active = 1 /\ d.epochs[1].start = 1

EntryOk(d, s) ==
    LET e == d.entries[s] IN
    \/ s \in Historical(d)
    \/ /\ e.hash = Null
       /\ ~Managed(d)
       /\ \A t \in DOMAIN d.entries : t < s => d.entries[t].hash = Null
    \/ /\ e.hash # Null
       /\ e.sound
       /\ IF Declared(d) /\ s = d.epochs[d.state.active].start
          THEN Marker(d, s)
          ELSE Linked(d.entries, s)

\* Only rows of the declared range may share a hash (DUPLICATE_ENTRY_HASH).
Unrepeated(d) ==
    \A s, t \in DOMAIN d.entries :
        s # t /\ d.entries[s].hash = d.entries[t].hash /\ d.entries[s].hash # Null
            => s \in Historical(d) /\ t \in Historical(d)

Verified(d) ==
    /\ EpochsOk(d)
    /\ DOMAIN d.entries = 1..d.state.last
    /\ d.state.hash = HashAt(d.entries, d.state.last)
    /\ d.state.last > 0 => \E s \in DOMAIN d.entries : d.entries[s].hash # Null
    /\ \A s \in DOMAIN d.entries : EntryOk(d, s)
    /\ Unrepeated(d)
    /\ Declared(d) => /\ HashAt(d.entries, d.incident.end) # Null
                      /\ d.incident.end + 1 \in DOMAIN d.entries

-----------------------------------------------------------------------------
(* What a writer checks before it appends (resolveActiveEpoch). *)

\* Mutant: a chain without epochs is taken over unverified.
LegacyTrusted(d) == d.state.last > 0 => d.state.hash # Null

\* The rows a writer loads of a chain without epochs, the oldest first.
Loaded(d) ==
    LET first == {s \in DOMAIN d.entries :
                    Cardinality({t \in DOMAIN d.entries : t <= s}) <= LegacyScan}
    IN  [d EXCEPT !.entries = [s \in first |-> d.entries[s]]]

\* With no epoch yet, an existing chain must verify from its first entry, and
\* must have been loaded to its last.
LegacyAccepted(d) ==
    IF d.state.last > 0
    THEN /\ Verified(Loaded(d))
         /\ Cardinality(DOMAIN Loaded(d).entries) = d.state.last
    ELSE d.state.hash = Null

\* Mutant: a writer wants an entry of its own kind after the boundary.
BoundaryPassed(d) ==
    /\ d.state.hash # Null
    /\ d.state.last > d.epochs[d.state.active].start

\* assertActiveEpochCanAcceptNextEntry, validateActiveAuditEpochBoundary.
BoundaryAccepted(d) ==
    LET n == d.state.active IN
    /\ d.state.hash # Null
    /\ d.state.last >= d.epochs[n].start
    /\ n = 1 => d.epochs[1].start = 1
    /\ n > 1 =>
        /\ Declared(d)
        /\ HashAt(d.entries, d.incident.end) # Null
        /\ d.epochs[n - 1].end = d.incident.trusted
        /\ d.epochs[n].start = d.incident.end + 1
        /\ Marker(d, d.epochs[n].start)

\* Only the tip is recomputed, unless AUDIT_HOT_PATH_FULL_LINEAGE_VERIFY is set.
TipAccepted(d) ==
    /\ d.state.last \in DOMAIN d.entries
    /\ HashAt(d.entries, d.state.last) = d.state.hash
    /\ d.entries[d.state.last].sound

Accepts(d) ==
    IF d.epochs = <<>>
    THEN LegacyAccepted(d)
    ELSE /\ ActiveEpochs(d) = {d.state.active}
         /\ BoundaryAccepted(d)
         /\ TipAccepted(d)

\* Mutant: epoch 1 starts at the last entry there is.
OpenEpochAtTip(d) ==
    IF d.epochs = <<>>
    THEN [d EXCEPT !.epochs = <<[start |-> d.state.last, end |-> 0]>>, !.state.active = 1]
    ELSE d

\* The first append under the new schema opens epoch 1.
OpenEpoch(d) ==
    IF d.epochs = <<>>
    THEN [d EXCEPT !.epochs = <<[start |-> 1, end |-> 0]>>, !.state.active = 1]
    ELSE d

\* The hash the next entry may get: a new one, or that of an entry that follows
\* the same hash, when the payloads are the same.
NextHashes(d, by) ==
    {<<by, d.state.last + 1>>} \cup
    {d.entries[t].hash : t \in {t \in DOMAIN d.entries :
        d.entries[t].hash # Null /\ d.entries[t].prev = d.state.hash}}

\* The next entry and the moved tip.
Extended(d, by, prev, hash) ==
    LET s == d.state.last + 1
        e == [by |-> by, hash |-> hash, sound |-> TRUE, prev |-> prev]
    IN  [d EXCEPT !.entries = [t \in DOMAIN @ \cup {s} |-> IF t = s THEN e ELSE @[t]],
                  !.state.last = s, !.state.hash = hash]

-----------------------------------------------------------------------------
(* What the approval tool checks and writes. *)

\* collectHistoricalAnomalies: a hash that does not match, or a broken link.
Anomalous(es, s) ==
    \/ es[s].hash # Null /\ ~es[s].sound
    \/ s > 1 /\ (es[s].prev = Null \/ es[s].prev # HashAt(es, s - 1))

Prefix(d, n) ==
    Legacy([s \in {t \in DOMAIN d.entries : t <= n} |-> d.entries[s]])

\* Mutant: the declared range may start before the damage.
ApprovableAnyRange(d, req) ==
    /\ d.state.active = 0
    /\ d.state.last = req.latest
    /\ d.state.hash # Null
    /\ d.epochs = <<>> /\ ~Declared(d)
    /\ DOMAIN d.entries = 1..req.latest
    /\ \A s \in 1..req.trusted : d.entries[s].hash # Null
    /\ Verified(Prefix(d, req.trusted))

\* verifyApprovalPreconditions.
Approvable(d, req) ==
    /\ d.state.active = 0
    /\ d.state.last = req.latest
    /\ d.state.hash # Null
    /\ d.epochs = <<>> /\ ~Declared(d)
    /\ DOMAIN d.entries = 1..req.latest
    /\ HashAt(d.entries, req.latest) = d.state.hash
    /\ \A s \in 1..req.trusted : d.entries[s].hash # Null
    /\ Verified(Prefix(d, req.trusted))
    /\ Anomalous(d.entries, req.trusted + 1)
    /\ \A s \in 1..req.trusted : ~Anomalous(d.entries, s)

\* Epoch 1 closed, epoch 2 opened, the incident, the boundary entry, the tip.
\* The commitment covers the incident, so the entry's hash is a new one.
Bounded(d, by, req) ==
    LET declared ==
          [d EXCEPT !.epochs = <<[start |-> 1, end |-> req.trusted],
                                 [start |-> req.latest + 1, end |-> 0]>>,
                    !.incident = [trusted |-> req.trusted, end |-> req.latest],
                    !.state.active = 2]
    IN  Extended(declared, by, Commitment(req.latest), <<by, req.latest + 1>>)

-----------------------------------------------------------------------------
Init ==
    /\ \E es \in LegacyChains : db = Legacy(es)
    /\ tx = [p \in Proc |-> Idle]
    /\ lock = Nobody
    /\ drifts = 0

MoveTo(p, pc, view) == tx' = [tx EXCEPT ![p].pc = pc, ![p].view = view]

\* The tables a transaction sees: the committed rows and its own.
Overlay(view) ==
    [view EXCEPT !.entries =
        [s \in DOMAIN view.entries |->
            IF s \in DOMAIN db.entries THEN db.entries[s] ELSE view.entries[s]]]

\* The transaction ends; its advisory lock goes with it.
End(p) ==
    /\ tx' = [tx EXCEPT ![p] = Idle]
    /\ lock' = IF lock = p THEN Nobody ELSE lock

\* Mutant: the state is read without the lock.
EnterUnlocked(w) ==
    /\ tx[w].pc = "idle" /\ w \notin Serializer
    /\ MoveTo(w, "open", Empty)
    /\ UNCHANGED <<db, lock, drifts>>

\* lockAuditChain: the writer waits here for the lock.
Enter(w) ==
    /\ tx[w].pc = "idle" /\ w \notin Serializer
    /\ lock = Nobody
    /\ lock' = w
    /\ MoveTo(w, "open", Empty)
    /\ UNCHANGED <<db, drifts>>

\* enrollStudent reads rows of its own first, which takes its snapshot, and asks
\* for the lock when it writes its audit entry.
Begin(w) ==
    /\ tx[w].pc = "idle"
    /\ MoveTo(w, "waiting", db)
    /\ UNCHANGED <<db, lock, drifts>>

\* The tables as the next statement of a writer sees them: a snapshot, or the
\* committed rows, and what this transaction itself has written.
Sees(w) ==
    IF w \in Serializer THEN tx[w].view
    ELSE IF tx[w].pc = "open" THEN db ELSE Overlay(tx[w].view)

\* resolvePreviousState, once per entry.  A refusal throws; epoch 1 opened over
\* one that the snapshot does not show fails on its unique number.
Resolve(w) ==
    LET seen == Sees(w) IN
    /\ tx[w].pc \in {"open", "written"}
    /\ \/ ~Accepts(seen) /\ MoveTo(w, "refused", seen)
       \/ /\ Accepts(seen)
          /\ seen.epochs = <<>> /\ db.epochs # <<>>
          /\ MoveTo(w, "collided", seen)
       \/ /\ Accepts(seen)
          /\ seen.epochs # <<>> \/ db.epochs = <<>>
          /\ MoveTo(w, "resolved", OpenEpoch(seen))
    /\ UNCHANGED <<db, lock, drifts>>

\* auditEntry.create and the state's new tip.  The unique index on the sequence
\* makes the insert wait for another transaction's uncommitted row, and fail
\* once that row is committed.  (A snapshot whose tip was overtaken would fail
\* on the update of the state row too; the insert comes first.)
Insert(w) ==
    LET view == tx[w].view
        s == view.state.last + 1
    IN  /\ tx[w].pc = "resolved"
        /\ s <= MaxSeq
        /\ \A p \in Proc \ {w} :
             tx[p].pc \in {"resolved", "written"} => s \notin DOMAIN tx[p].view.entries \ DOMAIN db.entries
        /\ \/ s \in DOMAIN db.entries /\ MoveTo(w, "collided", view)
           \/ /\ s \notin DOMAIN db.entries
              /\ \E hash \in NextHashes(view, w) :
                   MoveTo(w, "written", Extended(view, w, view.state.hash, hash))
        /\ UNCHANGED <<db, lock, drifts>>

\* approveAuditTrustBoundary with validated input: the snapshot is taken by the
\* statement that asks for the lock, before the wait.
Ask(a, req) ==
    /\ tx[a].pc = "idle"
    /\ req.trusted >= 1 /\ req.latest > req.trusted
    /\ tx' = [tx EXCEPT ![a] = [pc |-> "waiting", view |-> db, asked |-> req]]
    /\ UNCHANGED <<db, lock, drifts>>

\* The lock of whoever has a snapshot already.
Granted(p) ==
    /\ tx[p].pc = "waiting"
    /\ lock = Nobody
    /\ lock' = p
    /\ MoveTo(p, "open", tx[p].view)
    /\ UNCHANGED <<db, drifts>>

\* A rejected request and a dry run end here and change nothing.
Decide(a, dryRun) ==
    /\ tx[a].pc = "open"
    /\ IF Approvable(tx[a].view, tx[a].asked) /\ ~dryRun
       THEN MoveTo(a, "ready", tx[a].view) /\ UNCHANGED lock
       ELSE End(a)
    /\ UNCHANGED <<db, drifts>>

\* The writes of the approval, all in one transaction.  One made from a snapshot
\* that another commit has overtaken fails on epoch 1's unique number, on the
\* boundary's unique sequence, or on the update of a state row changed since.
Approve(a) ==
    LET view == tx[a].view
        stale == db.epochs # <<>> \/ db.state # view.state
                 \/ tx[a].asked.latest + 1 \in DOMAIN db.entries
    IN  /\ tx[a].pc = "ready"
        /\ tx[a].asked.latest < MaxSeq
        /\ IF stale
           THEN End(a)
           ELSE MoveTo(a, "written", Bounded(view, a, tx[a].asked)) /\ UNCHANGED lock
        /\ UNCHANGED <<db, drifts>>

Commit(p) ==
    /\ tx[p].pc = "written"
    /\ db' = Overlay(tx[p].view)
    /\ End(p)
    /\ UNCHANGED drifts

\* A thrown error, a transaction timeout, a serialization failure, a lost
\* connection, a killed process.
Abort(p) ==
    /\ tx[p].pc # "idle"
    /\ End(p)
    /\ UNCHANGED <<db, drifts>>

\* A stored payload changes under its hash: a partial restore, a manual repair.
Drift(s) ==
    /\ drifts < MaxDrifts
    /\ db.entries[s].hash # Null /\ db.entries[s].sound
    /\ db' = [db EXCEPT !.entries[s].sound = FALSE]
    /\ drifts' = drifts + 1
    /\ UNCHANGED <<tx, lock>>

\* Bound: an operator asks about the damage that is there, the legacy rows.
Request == [latest : 1..MaxLegacy, trusted : 1..MaxLegacy]

Next ==
    \/ \E w \in Writer : Enter(w) \/ Resolve(w) \/ Insert(w)
    \/ \E w \in Serializer : Begin(w) \/ Granted(w)
    \/ \E a \in Approver : Granted(a) \/ Approve(a)
    \/ \E a \in Approver, req \in Request : Ask(a, req)
    \/ \E a \in Approver, dryRun \in BOOLEAN : Decide(a, dryRun)
    \/ \E p \in Proc : Commit(p) \/ Abort(p)
    \/ \E s \in DOMAIN db.entries : Drift(s)

Spec == Init /\ [][Next]_vars

-----------------------------------------------------------------------------
(* Properties *)

Hash == {Null, Foreign} \cup (({"legacy", "commitment"} \cup Proc) \X (0..MaxSeq))
Entry == [by : {"legacy"} \cup Proc, hash : Hash, sound : BOOLEAN, prev : Hash]

DbOK(d) ==
    /\ DOMAIN d.entries \subseteq 1..MaxSeq
    /\ \A s \in DOMAIN d.entries : d.entries[s] \in Entry
    /\ d.state \in [last : 0..MaxSeq, hash : Hash, active : 0..2]
    /\ DOMAIN d.epochs \in {{}, {1}, {1, 2}}
    /\ \A n \in DOMAIN d.epochs : d.epochs[n] \in [start : 1..MaxSeq, end : 0..MaxSeq]
    /\ d.incident \in [trusted : 0..MaxSeq, end : 0..MaxSeq]

\* The types of the variables.
TypeOK ==
    /\ DbOK(db)
    /\ lock \in Proc \cup {Nobody}
    /\ drifts \in 0..MaxDrifts
    /\ \A p \in Proc :
        /\ tx[p].pc \in {"idle", "waiting", "open", "resolved", "ready", "written", "refused", "collided"}
        /\ DbOK(tx[p].view)
        /\ tx[p].asked \in Request \cup {NoRequest}

\* Old rows from before the chain carried hashes.
UnhashedRows ==
    \E s \in DOMAIN db.entries : db.entries[s].hash = Null /\ s \notin Historical(db)

\* A row of the declared range carries the hash of a trusted row.
TrustedHashRepeated(d) ==
    \E s \in Historical(d) \cap DOMAIN d.entries, t \in 1..d.incident.trusted :
        d.entries[s].hash = HashAt(d.entries, t) /\ d.entries[s].hash # Null

\* An old chain longer than what a writer looks at.
TooLong(d) == d.epochs = <<>> /\ d.state.last > LegacyScan

\* Once a chain has an epoch, the full verifier passes it after every commit,
\* although a writer looks at the tip alone: no interleaving of writers and
\* approvals forks the chain, leaves a gap, repeats a hash, moves the tip past
\* its entry or opens an epoch over damage that nobody declared
\* (audit-log.ts:254, 347).  Two kinds of chains are excepted.  One whose oldest
\* rows have no hashes verifies without epochs, and stops verifying with the
\* first append, which opens epoch 1 from sequence 1 on.  And an approval does
\* not look for hashes that the damaged range repeats: the verifier fails such
\* a chain from its approval on, while writers go on (core.ts:627).
ManagedChainVerifies ==
    db.epochs # <<>> /\ drifts = 0 /\ ~UnhashedRows /\ ~TrustedHashRepeated(db)
        => Verified(db)

\* A business transaction is refused for the sake of the audit log only when
\* the full verifier would fail the chain too, or when the chain was already
\* longer than what a writer loads before the first epoch: apart from that the
\* writer's own gate, which looks at other rows, is never the stricter one
\* (audit-log.ts:259, 299).
RefusedOnlyIfBroken ==
    \A w \in Writer : tx[w].pc = "refused" => ~Verified(tx[w].view) \/ TooLong(tx[w].view)

\* A READ COMMITTED writer never runs into the unique sequence or epoch number:
\* concurrent business transactions wait for one another and do not fail
\* (audit-log.ts:104).  A serializable one does only if another commit overtook
\* its snapshot while it waited for the lock (academic.service.ts:1071).
NoCollision ==
    \A w \in Writer : tx[w].pc = "collided" =>
        w \in Serializer /\ tx[w].view.state.last < db.state.last

\* What an approval declares untrusted starts at the first damaged entry of the
\* chain and reaches to the last one written before the boundary, also when
\* two approvals race or a writer commits between an approval's snapshot and
\* its lock (audit-trust-boundary.approval.ts:236).
DeclaredFromFirstAnomaly ==
    Declared(db) /\ drifts = 0 =>
        /\ Anomalous(db.entries, db.incident.trusted + 1)
        /\ \A s \in 1..db.incident.trusted : ~Anomalous(db.entries, s)
        /\ \A s \in DOMAIN db.entries : s <= db.incident.end <=> db.entries[s].by = "legacy"

=============================================================================
