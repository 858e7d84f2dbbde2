-------------------------- MODULE AuditChainProofs --------------------------
(* Theorems about AuditChain, for any writers, approvals and bounds.        *)
EXTENDS AuditChain, Sequences, FiniteSetTheorems, TLAPS

\* The tables, as what a transaction may see of them.
Epoch  == [start : 1..MaxSeq, end : 0..MaxSeq]
Rows   == UNION {[D -> Entry] : D \in SUBSET (1..MaxSeq)}
State  == [last : 0..MaxSeq, hash : Hash, active : 0..2]
Epochs == {es \in Seq(Epoch) : Len(es) <= 2}
Tables == [entries : Rows, state : State, epochs : Epochs,
           incident : [trusted : 0..MaxSeq, end : 0..MaxSeq]]
Pcs    == {"idle", "waiting", "open", "resolved", "ready", "written", "refused", "collided"}
Tx     == [pc : Pcs, view : Tables, asked : Request \cup {NoRequest}]

Types ==
    /\ db \in Tables
    /\ tx \in [Proc -> Tx]
    /\ lock \in Proc \cup {Nobody}
    /\ drifts \in 0..MaxDrifts

-----------------------------------------------------------------------------
(* What every version of the tables satisfies, drifted or not.              *)

\* The sequence in the name of a hash.
Named(h) == h[2]

\* No entry lies beyond the tip, and no hash is named by a later sequence.
\* Without an epoch there are only old rows and no incident; with an incident,
\* the row that closes the damage is hashed and the tip is behind it.  Under an
\* epoch no entry follows the tip's hash, so that the next hash is a new one.
Shape(d) ==
    /\ Named(d.state.hash) <= d.state.last
    /\ \A s \in DOMAIN d.entries :
        /\ s <= d.state.last
        /\ Named(d.entries[s].hash) <= d.state.last
        /\ Named(d.entries[s].prev) <= d.state.last
        /\ d.entries[s].hash = Null => d.entries[s].prev = Null
        /\ d.epochs # <<>> => d.entries[s].prev # d.state.hash
    /\ d.epochs = <<>> => /\ ~Declared(d) /\ d.state.active = 0
                          /\ \A s \in DOMAIN d.entries : d.entries[s].by = "legacy"
    /\ Declared(d) => /\ d.incident.end < d.state.last
                      /\ HashAt(d.entries, d.incident.end) # Null

\* An epoch that is committed has an entry.
Started(d) == d.epochs # <<>> => d.state.last >= 1

\* Rows without a hash, outside the declared range.
Bare(d) == \E s \in DOMAIN d.entries : d.entries[s].hash = Null /\ s \notin Historical(d)

\* What the declared range says of the rows before it, in it and behind it.
Exact(d) ==
    Declared(d) =>
        /\ d.incident.trusted + 1 \in DOMAIN d.entries
        /\ d.incident.trusted < d.incident.end
        /\ 1 .. d.incident.end \subseteq DOMAIN d.entries
        /\ Anomalous(d.entries, d.incident.trusted + 1)
        /\ \A s \in 1..d.incident.trusted : ~Anomalous(d.entries, s)
        /\ \A s \in DOMAIN d.entries : s <= d.incident.end <=> d.entries[s].by = "legacy"

\* While nothing has drifted: a managed chain verifies and declares what it should.
Sharp(d) ==
    /\ d.epochs # <<>> /\ ~Bare(d) /\ ~TrustedHashRepeated(d) => Verified(d)
    /\ Exact(d)

-----------------------------------------------------------------------------
(* The transactions.                                                        *)

Appending(p)    == tx[p].pc \in {"resolved", "written"}
Deliberating(p) == tx[p].pc \in {"waiting", "open", "ready"}

\* What a writer may be doing.  Only a serializable one waits with a snapshot,
\* and only an overtaken one runs into a committed row; whoever was refused saw
\* a chain that does not verify, or too long an old one.
WriterAt(w) ==
    /\ tx[w].pc # "ready"
    /\ tx[w].pc = "waiting" => w \in Serializer
    /\ tx[w].pc = "refused" => ~Verified(tx[w].view) \/ TooLong(tx[w].view)
    /\ tx[w].pc = "collided" => w \in Serializer /\ tx[w].view.state.last < db.state.last

\* What an approval may be doing: it knows what it was asked, and that it may.
ApproverAt(a) ==
    /\ tx[a].pc \notin {"resolved", "refused", "collided"}
    /\ tx[a].pc # "idle" => /\ tx[a].asked \in Request
                            /\ tx[a].asked.latest > tx[a].asked.trusted
    /\ tx[a].pc = "ready" => Approvable(tx[a].view, tx[a].asked)

\* Whoever reads or writes the chain holds the lock.
LockedBy(p) == tx[p].pc \notin {"idle", "waiting"} => lock = p

\* es has the rows of fs, unchanged but for what has drifted.
Extends(es, fs) ==
    /\ DOMAIN fs \subseteq DOMAIN es
    /\ \A s \in DOMAIN fs :
        /\ es[s].by = fs[s].by /\ es[s].hash = fs[s].hash /\ es[s].prev = fs[s].prev
        /\ drifts = 0 => es[s] = fs[s]

\* The next sequence after the tip of the one is taken in the other.
Overtaken(view, d) ==
    view.state.last < d.state.last => view.state.last + 1 \in DOMAIN d.entries

\* What an appending transaction will commit continues the committed tables;
\* but a serializable one that was overtaken only finds out at its insert.
Continues(p) == Appending(p) =>
    LET view == tx[p].view IN
    /\ Shape(view) /\ view.epochs # <<>>
    /\ drifts = 0 => Sharp(view)
    /\ \/ /\ p \in Serializer /\ tx[p].pc = "resolved"
          /\ view.state.last < db.state.last /\ Overtaken(view, db)
       \/ /\ Extends(view.entries, db.entries)
          /\ view.state.last >= db.state.last
          /\ Overtaken(db, view)
          /\ tx[p].pc = "written" => view.state.last > db.state.last

\* A snapshot is the present as long as the tip has not moved: every commit
\* moves it.
Snapshot(a) == Deliberating(a) =>
    LET view == tx[a].view IN
    /\ Shape(view) /\ Started(view)
    /\ drifts = 0 => Sharp(view)
    /\ view.state.last <= db.state.last
    /\ Overtaken(view, db)
    /\ view.state.last = db.state.last =>
         Extends(view.entries, db.entries) /\ view.epochs = db.epochs

Part(p) ==
    /\ p \in Writer => WriterAt(p)
    /\ p \in Approver => ApproverAt(p)
    /\ p \in Approver \cup Serializer => Snapshot(p)
    /\ LockedBy(p)
    /\ Continues(p)

ChainInv ==
    /\ Shape(db) /\ Started(db)
    /\ drifts = 0 => Sharp(db)

IInv == Types /\ ChainInv /\ \A p \in Proc : Part(p)

-----------------------------------------------------------------------------
(* The operators of the model, by what they change.                         *)

LEMMA TableFields ==
    ASSUME NEW d \in Tables
    PROVE  /\ DOMAIN d.entries \in SUBSET (1..MaxSeq)
           /\ d.entries \in [DOMAIN d.entries -> Entry]
           /\ \A s \in DOMAIN d.entries : s \in Nat /\ s >= 1 /\ d.entries[s] \in Entry
           /\ d.state \in State
           /\ d.state.last \in 0..MaxSeq /\ d.state.last \in Nat
           /\ d.state.hash \in Hash /\ d.state.active \in 0..2
           /\ d.epochs \in Seq(Epoch) /\ Len(d.epochs) <= 2
           /\ d.incident \in [trusted : 0..MaxSeq, end : 0..MaxSeq]
           /\ d.incident.trusted \in Nat /\ d.incident.end \in Nat
<1>1. /\ d.entries \in Rows /\ d.state \in State /\ d.epochs \in Epochs
      /\ d.incident \in [trusted : 0..MaxSeq, end : 0..MaxSeq]
  BY DEF Tables
<1>2. PICK D \in SUBSET (1..MaxSeq) : d.entries \in [D -> Entry]
  BY <1>1 DEF Rows
<1>3. MaxSeq \in Nat
  BY AuditAssumption
<1>4. /\ DOMAIN d.entries \in SUBSET (1..MaxSeq)
      /\ d.entries \in [DOMAIN d.entries -> Entry]
  BY <1>2
<1>5. \A s \in DOMAIN d.entries : s \in Nat /\ s >= 1 /\ d.entries[s] \in Entry
  BY <1>3, <1>4
<1>6. /\ d.state.last \in 0..MaxSeq /\ d.state.last \in Nat
      /\ d.state.hash \in Hash /\ d.state.active \in 0..2
      /\ d.incident.trusted \in Nat /\ d.incident.end \in Nat
  BY <1>1, <1>3 DEF State
<1>7. d.epochs \in Seq(Epoch) /\ Len(d.epochs) <= 2
  BY <1>1 DEF Epochs
<1> QED
  BY <1>1, <1>4, <1>5, <1>6, <1>7

LEMMA HashTypes ==
    /\ Null \in Hash /\ Named(Null) = 0
    /\ \A h \in Hash : Named(h) \in Nat
    /\ \A d \in Tables, s \in Int : HashAt(d.entries, s) \in Hash
    /\ \A p \in Proc \cup {"legacy", "commitment"}, s \in 0..MaxSeq :
         <<p, s>> \in Hash /\ Named(<<p, s>>) = s
<1>1. Null \in Hash /\ Named(Null) = 0
  BY DEF Hash, Named, Null
<1>2. \A p \in Proc \cup {"legacy", "commitment"}, s \in 0..MaxSeq :
        <<p, s>> \in Hash /\ Named(<<p, s>>) = s
  BY DEF Hash, Named
<1>3. ASSUME NEW h \in Hash PROVE Named(h) \in Nat
  <2>1. CASE h \in {Null, Foreign}
    BY <2>1 DEF Null, Foreign, Named
  <2>2. CASE h \in ({"legacy", "commitment"} \cup Proc) \X (0..MaxSeq)
    <3>1. h[2] \in 0..MaxSeq
      BY <2>2
    <3> QED
      BY <3>1, AuditAssumption DEF Named
  <2> QED
    BY <2>1, <2>2 DEF Hash
<1>4. \A d \in Tables, s \in Int : HashAt(d.entries, s) \in Hash
  BY <1>1, TableFields DEF HashAt, Entry
<1> QED
  BY <1>1, <1>2, <1>3, <1>4

LEMMA ExtendedFields ==
    ASSUME NEW d \in Tables, NEW by \in Proc, NEW prev \in Hash, NEW hash \in Hash,
           d.state.last < MaxSeq
    PROVE  LET x == Extended(d, by, prev, hash)
               s == d.state.last + 1
           IN  /\ x \in Tables
               /\ x.state.last = s /\ x.state.hash = hash
               /\ x.state.active = d.state.active
               /\ x.epochs = d.epochs /\ x.incident = d.incident
               /\ DOMAIN x.entries = DOMAIN d.entries \cup {s}
               /\ \A t \in DOMAIN d.entries \ {s} : x.entries[t] = d.entries[t]
               /\ x.entries[s] = [by |-> by, hash |-> hash, sound |-> TRUE, prev |-> prev]
<1> DEFINE s == d.state.last + 1
           e == [by |-> by, hash |-> hash, sound |-> TRUE, prev |-> prev]
           es == [t \in DOMAIN d.entries \cup {s} |-> IF t = s THEN e ELSE d.entries[t]]
           x == [d EXCEPT !.entries = es, !.state.last = s, !.state.hash = hash]
<1>1. Extended(d, by, prev, hash) = x
  BY DEF Extended
<1>2. e \in Entry /\ s \in 1..MaxSeq /\ s \in 0..MaxSeq
  BY TableFields, AuditAssumption DEF Entry
<1>4. /\ es \in [DOMAIN d.entries \cup {s} -> Entry]
      /\ DOMAIN d.entries \cup {s} \in SUBSET (1..MaxSeq)
  BY <1>2, TableFields
<1> HIDE DEF es, e
<1>5. es \in Rows
  BY <1>4 DEF Rows
<1>6. /\ x \in Tables
      /\ x.state.last = s /\ x.state.hash = hash /\ x.state.active = d.state.active
      /\ x.epochs = d.epochs /\ x.incident = d.incident /\ x.entries = es
  BY <1>2, <1>5 DEF Tables, State
<1> QED
  BY <1>1, <1>6 DEF es, e

LEMMA OpenEpochFields ==
    ASSUME NEW d \in Tables
    PROVE  LET x == OpenEpoch(d)
           IN  /\ x \in Tables
               /\ x.entries = d.entries /\ x.incident = d.incident
               /\ x.state.last = d.state.last /\ x.state.hash = d.state.hash
               /\ d.epochs # <<>> => x = d
               /\ d.epochs = <<>> => /\ x.epochs = <<[start |-> 1, end |-> 0]>>
                                     /\ x.state.active = 1
               /\ x.epochs # <<>>
<1> DEFINE epochs == <<[start |-> 1, end |-> 0]>>
<1>1. epochs \in Epochs /\ epochs # <<>>
  BY AuditAssumption DEF Epoch, Epochs
<1> HIDE DEF epochs
<1> DEFINE x == [d EXCEPT !.epochs = epochs, !.state.active = 1]
<1>2. /\ x \in Tables
      /\ x.entries = d.entries /\ x.incident = d.incident
      /\ x.state.last = d.state.last /\ x.state.hash = d.state.hash
      /\ x.epochs = epochs /\ x.state.active = 1
  <2>1. d.state \in State /\ [d.state EXCEPT !.active = 1] \in State
    BY DEF Tables, State
  <2>2. x \in Tables
    BY <1>1, <2>1 DEF Tables
  <2> QED
    BY <2>2 DEF Tables, State
<1> HIDE DEF x
<1>3. OpenEpoch(d) = IF d.epochs = <<>> THEN x ELSE d
  BY DEF OpenEpoch, x, epochs
<1> QED
  BY <1>1, <1>2, <1>3 DEF epochs

LEMMA BoundedFields ==
    ASSUME NEW d \in Tables, NEW by \in Proc, NEW req \in Request,
           d.state.last = req.latest, req.latest < MaxSeq
    PROVE  LET x == Bounded(d, by, req)
               s == req.latest + 1
           IN  /\ x \in Tables
               /\ x.state.last = s /\ x.state.hash = <<by, s>> /\ x.state.active = 2
               /\ <<by, s>> \in Hash /\ Named(<<by, s>>) = s
               /\ x.epochs = <<[start |-> 1, end |-> req.trusted], [start |-> s, end |-> 0]>>
               /\ x.incident = [trusted |-> req.trusted, end |-> req.latest]
               /\ DOMAIN x.entries = DOMAIN d.entries \cup {s}
               /\ \A t \in DOMAIN d.entries \ {s} : x.entries[t] = d.entries[t]
               /\ x.entries[s] = [by |-> by, hash |-> <<by, s>>, sound |-> TRUE,
                                  prev |-> Commitment(req.latest)]
<1> DEFINE epochs == <<[start |-> 1, end |-> req.trusted], [start |-> req.latest + 1, end |-> 0]>>
           incident == [trusted |-> req.trusted, end |-> req.latest]
           y == [d EXCEPT !.epochs = epochs, !.incident = incident, !.state.active = 2]
<1>1. /\ req.latest \in 1..MaxLegacy /\ req.trusted \in 1..MaxLegacy
      /\ MaxLegacy \in Nat /\ MaxSeq \in Nat /\ MaxLegacy <= MaxSeq
  BY AuditAssumption DEF Request
<1>2. epochs \in Epochs
  BY <1>1 DEF Epoch, Epochs
<1>3. incident \in [trusted : 0..MaxSeq, end : 0..MaxSeq]
  BY <1>1
<1>4. /\ Commitment(req.latest) \in Hash
      /\ <<by, req.latest + 1>> \in Hash /\ Named(<<by, req.latest + 1>>) = req.latest + 1
  <2>1. req.latest \in 0..MaxSeq /\ req.latest + 1 \in 0..MaxSeq
    BY <1>1
  <2> QED
    BY <2>1, HashTypes DEF Commitment
<1> HIDE DEF epochs, incident
<1>5. /\ y \in Tables
      /\ y.entries = d.entries /\ y.incident = incident /\ y.epochs = epochs
      /\ y.state.last = d.state.last /\ y.state.active = 2
  <2>1. d.state \in State /\ [d.state EXCEPT !.active = 2] \in State
    BY DEF Tables, State
  <2>2. y \in Tables
    BY <1>2, <1>3, <2>1 DEF Tables
  <2> QED
    BY <2>2 DEF Tables, State
<1> HIDE DEF y
<1>6. Bounded(d, by, req) = Extended(y, by, Commitment(req.latest), <<by, req.latest + 1>>)
  BY DEF Bounded, y, epochs, incident
<1> QED
  BY <1>4, <1>5, <1>6, ExtendedFields DEF epochs, incident

-----------------------------------------------------------------------------
(* What the verifier, the writer and the approval make of one another.      *)

\* A hash of an entry is never the empty one.
LEMMA HashOfEntry ==
    ASSUME NEW d \in Tables, NEW s \in Int
    PROVE  HashAt(d.entries, s) # Null <=> s \in DOMAIN d.entries /\ d.entries[s].hash # Null
BY DEF HashAt

\* In a verified, managed chain every row behind the declared range is hashed
\* and sound.
LEMMA VerifiedRows ==
    ASSUME NEW d \in Tables, Verified(d), Managed(d),
           NEW s \in DOMAIN d.entries, s \notin Historical(d)
    PROVE  d.entries[s].hash # Null /\ d.entries[s].sound
BY DEF Verified, EntryOk

\* A writer that loads every row looks at the chain itself.
LEMMA LoadedFields ==
    ASSUME NEW d \in Tables
    PROVE  /\ Loaded(d).state = d.state
           /\ DOMAIN Loaded(d).entries \subseteq DOMAIN d.entries
           /\ DOMAIN Loaded(d).entries =
                {s \in DOMAIN d.entries : Cardinality({t \in DOMAIN d.entries : t <= s}) <= LegacyScan}
           /\ DOMAIN Loaded(d).entries = DOMAIN d.entries => Loaded(d) = d
<1> DEFINE first == {s \in DOMAIN d.entries :
                       Cardinality({t \in DOMAIN d.entries : t <= s}) <= LegacyScan}
           es == [s \in first |-> d.entries[s]]
<1>1. Loaded(d) = [d EXCEPT !.entries = es] /\ DOMAIN es = first
  BY DEF Loaded
<1>2. first \subseteq DOMAIN d.entries
  OBVIOUS
<1>3. first = DOMAIN d.entries => es = d.entries
  BY TableFields
<1> HIDE DEF first, es
<1>4. Loaded(d).state = d.state /\ Loaded(d).entries = es
  BY <1>1 DEF Tables
<1>5. es = d.entries => Loaded(d) = d
  BY <1>1 DEF Tables
<1> QED
  BY <1>1, <1>2, <1>3, <1>4, <1>5 DEF first

\* A short chain without a gap is loaded to its last row.
LEMMA ShortLoaded ==
    ASSUME NEW d \in Tables, DOMAIN d.entries = 1..d.state.last, d.state.last <= LegacyScan
    PROVE  Loaded(d) = d /\ Cardinality(DOMAIN d.entries) = d.state.last
<1> DEFINE n == d.state.last
<1>1. n \in Nat /\ n <= LegacyScan /\ LegacyScan \in Nat
  BY TableFields, AuditAssumption
<1>2. ASSUME NEW s \in Nat PROVE Cardinality(1..s) = s
  BY FS_Interval
<1>3. ASSUME NEW s \in DOMAIN d.entries
      PROVE  Cardinality({t \in DOMAIN d.entries : t <= s}) <= LegacyScan
  <2>1. s \in Nat /\ s <= n
    BY <1>1
  <2>2. {t \in DOMAIN d.entries : t <= s} = 1..s
    BY <1>1, <2>1
  <2>3. Cardinality({t \in DOMAIN d.entries : t <= s}) = s
    BY <1>2, <2>1, <2>2
  <2> QED
    BY <1>1, <2>1, <2>3
<1>4. DOMAIN Loaded(d).entries = DOMAIN d.entries
  <2>1. DOMAIN Loaded(d).entries =
          {s \in DOMAIN d.entries : Cardinality({t \in DOMAIN d.entries : t <= s}) <= LegacyScan}
    BY LoadedFields
  <2> QED
    BY <1>3, <2>1, Zenon
<1>5. Cardinality(DOMAIN d.entries) = n
  BY <1>1, <1>2
<1> QED
  BY <1>4, <1>5, LoadedFields

\* A chain that verifies as loaded was loaded to its last row.
LEMMA LoadedWhole ==
    ASSUME NEW d \in Tables, Shape(d), Verified(Loaded(d))
    PROVE  Loaded(d) = d
<1>1. /\ DOMAIN Loaded(d).entries = 1..d.state.last
      /\ DOMAIN Loaded(d).entries \subseteq DOMAIN d.entries
  BY LoadedFields DEF Verified
<1>2. DOMAIN d.entries \subseteq 1..d.state.last
  BY TableFields DEF Shape
<1>3. DOMAIN Loaded(d).entries = DOMAIN d.entries
  BY <1>1, <1>2
<1> QED
  BY <1>3, LoadedFields

\* A writer's gate is never the stricter one, but for the length of old chains.
LEMMA VerifiedAccepted ==
    ASSUME NEW d \in Tables, Shape(d), Started(d), Verified(d), ~TooLong(d)
    PROVE  Accepts(d)
<1> DEFINE last == d.state.last
<1>1. /\ last \in Nat /\ d.incident.end \in Nat /\ d.incident.trusted \in Nat
      /\ DOMAIN d.entries = 1..last /\ d.state.hash = HashAt(d.entries, last)
  BY TableFields DEF Verified
<1>2. CASE d.epochs = <<>>
  <2>1. last = 0 => d.state.hash = Null
    BY <1>1 DEF HashAt
  <2>2. last <= LegacyScan
    BY <1>1, <1>2, AuditAssumption DEF TooLong
  <2>3. Loaded(d) = d /\ Cardinality(DOMAIN d.entries) = last
    BY <1>1, <2>2, ShortLoaded
  <2> QED
    BY <1>1, <1>2, <2>1, <2>3 DEF Accepts, LegacyAccepted
<1>3. CASE d.epochs # <<>>
  <2>1. Managed(d) /\ last >= 1
    BY <1>3 DEF Managed, Started
  <2>2. /\ ActiveEpochs(d) = {d.state.active}
        /\ Declared(d) => /\ d.state.active = 2
                          /\ d.epochs[1] = [start |-> 1, end |-> d.incident.trusted]
                          /\ d.epochs[2].start = d.incident.end + 1
        /\ ~Declared(d) => d.state.active = 1 /\ d.epochs[1].start = 1
    BY <2>1 DEF Verified, EpochsOk
  <2>3. last \in DOMAIN d.entries /\ last \notin Historical(d)
    BY <1>1, <2>1 DEF Shape, Historical
  <2>4. d.entries[last].hash # Null /\ d.entries[last].sound
    BY <2>1, <2>3, VerifiedRows
  <2>5. TipAccepted(d) /\ d.state.hash # Null
    BY <1>1, <2>3, <2>4, HashOfEntry DEF TipAccepted
  <2>6. BoundaryAccepted(d)
    <3>1. CASE ~Declared(d)
      BY <2>1, <2>2, <2>5, <3>1 DEF BoundaryAccepted
    <3>2. CASE Declared(d)
      <4> DEFINE b == d.incident.end + 1
      <4>1. b \in DOMAIN d.entries /\ b \notin Historical(d) /\ b <= last
        BY <1>1, <3>2 DEF Shape, Historical
      <4>2. Marker(d, b)
        BY <2>1, <2>2, <3>2, <4>1 DEF Verified, EntryOk
      <4>3. d.epochs[2 - 1].end = d.incident.trusted
        BY <2>2, <3>2
      <4> QED
        BY <1>1, <2>2, <2>5, <3>2, <4>1, <4>2, <4>3 DEF BoundaryAccepted, Shape
    <3> QED
      BY <3>1, <3>2
  <2> QED
    BY <1>3, <2>2, <2>5, <2>6 DEF Accepts
<1> QED
  BY <1>2, <1>3

\* In a chain that verifies without epochs no row follows the last one's hash.
LEMMA TipUnfollowed ==
    ASSUME NEW d \in Tables, Shape(d), Verified(d), d.epochs = <<>>,
           NEW s \in DOMAIN d.entries
    PROVE  d.entries[s].prev # d.state.hash
<1> DEFINE n == d.state.last
<1>1. /\ n \in Nat /\ s \in Nat /\ 1 <= s /\ s <= n
      /\ DOMAIN d.entries = 1..n /\ d.state.hash = HashAt(d.entries, n)
  BY TableFields DEF Verified
<1>2. Historical(d) = {} /\ ~Declared(d)
  BY DEF Shape, Historical
<1>3. n \in DOMAIN d.entries /\ d.state.hash = d.entries[n].hash
  BY <1>1 DEF HashAt
<1>4. d.state.hash # Null
  <2>1. PICK t \in DOMAIN d.entries : d.entries[t].hash # Null
    BY <1>1 DEF Verified
  <2>2. t = n \/ t < n
    BY <1>1
  <2>3. EntryOk(d, n)
    BY <1>3 DEF Verified
  <2> QED
    BY <1>2, <1>3, <2>1, <2>2, <2>3 DEF EntryOk
<1>5. CASE d.entries[s].hash = Null
  BY <1>4, <1>5 DEF Shape
<1>6. CASE d.entries[s].hash # Null
  <2>1. EntryOk(d, s)
    BY DEF Verified
  <2>2. Linked(d.entries, s)
    BY <1>2, <1>6, <2>1 DEF EntryOk
  <2>3. ASSUME NEW t \in DOMAIN d.entries, t < s, d.entries[t].hash = d.entries[n].hash
        PROVE  FALSE
    <3>1. t # n
      BY <1>1, <2>3
    <3> QED
      BY <1>2, <1>3, <1>4, <2>3, <3>1 DEF Verified, Unrepeated
  <2> QED
    BY <1>3, <1>4, <2>2, <2>3 DEF Linked, HashAt
<1> QED
  BY <1>5, <1>6

\* Taking over a chain that verifies, or one with epochs already.
LEMMA OpenedSharp ==
    ASSUME NEW d \in Tables, Shape(d), Accepts(d)
    PROVE  /\ Shape(OpenEpoch(d))
           /\ Sharp(d) => Sharp(OpenEpoch(d))
<1>1. CASE d.epochs # <<>>
  BY <1>1, OpenEpochFields
<1>2. CASE d.epochs = <<>>
  <2> DEFINE x == OpenEpoch(d)
  <2>1. /\ x \in Tables /\ x.entries = d.entries /\ x.incident = d.incident
        /\ x.state.last = d.state.last /\ x.state.hash = d.state.hash
        /\ x.epochs = <<[start |-> 1, end |-> 0]>> /\ x.state.active = 1
        /\ x.epochs # <<>>
    BY <1>2, OpenEpochFields
  <2>2. ~Declared(d) /\ d.state.active = 0 /\ LegacyAccepted(d)
    BY <1>2 DEF Shape, Accepts
  <2>6. d.state.last > 0 => Verified(d)
    BY <2>2, LoadedWhole DEF LegacyAccepted
  <2>7. ~(d.state.last > 0) => d.state.last = 0 /\ DOMAIN d.entries = {}
    BY TableFields DEF Shape
  <2> HIDE DEF x
  <2>3. ~Declared(x) /\ Historical(x) = {} /\ Historical(d) = {}
    BY <2>1, <2>2 DEF Declared, Historical
  <2>4. Shape(x) /\ Exact(x)
    <3>1. \A s \in DOMAIN d.entries : d.entries[s].prev # d.state.hash
      BY <1>2, <2>6, <2>7, TipUnfollowed
    <3> QED
      BY <2>1, <2>3, <3>1 DEF Shape, Exact
  <2>5. ASSUME ~Bare(x)
        PROVE  Verified(x)
    <3>1. \A s \in DOMAIN d.entries : d.entries[s].hash # Null
      BY <2>1, <2>3, <2>5 DEF Bare
    <3>2. EpochsOk(x)
      <4>1. ActiveEpochs(x) = {1}
        BY <2>1 DEF ActiveEpochs
      <4> QED
        BY <2>1, <2>3, <4>1 DEF EpochsOk
    <3>3. CASE d.state.last > 0
      <4>1. Verified(d)
        BY <2>6, <3>3
      <4>2. \A s \in DOMAIN d.entries : d.entries[s].sound /\ Linked(d.entries, s)
        BY <2>2, <2>3, <3>1, <4>1 DEF Verified, EntryOk
      <4>3. \A s \in DOMAIN x.entries : EntryOk(x, s)
        BY <2>1, <2>3, <3>1, <4>2 DEF EntryOk
      <4>4. Unrepeated(x)
        BY <2>1, <2>3, <4>1 DEF Verified, Unrepeated
      <4> QED
        BY <2>1, <2>3, <3>2, <4>1, <4>3, <4>4 DEF Verified
    <3>4. CASE ~(d.state.last > 0)
      <4>1. d.state.last = 0 /\ d.state.hash = Null
        BY <2>2, <3>4, TableFields DEF LegacyAccepted
      <4>2. DOMAIN d.entries = {}
        BY <4>1, TableFields DEF Shape
      <4>3. x.state.hash = HashAt(x.entries, 0) /\ DOMAIN x.entries = 1..0
        BY <2>1, <4>1, <4>2 DEF HashAt
      <4> QED
        BY <2>1, <2>3, <3>2, <4>1, <4>2, <4>3 DEF Verified, Unrepeated
    <3> QED
      BY <3>3, <3>4
  <2> QED
    BY <2>4, <2>5 DEF Sharp, x
<1> QED
  BY <1>1, <1>2

\* Entries below a sequence link and break the same way in two chains that have
\* the same rows up to it.
LEMMA SameLinks ==
    ASSUME NEW d \in Tables, NEW x \in Tables, NEW n \in Nat,
           \A s \in Nat : s <= n => (s \in DOMAIN x.entries <=> s \in DOMAIN d.entries),
           \A s \in DOMAIN d.entries : s <= n => x.entries[s] = d.entries[s]
    PROVE  /\ \A s \in Nat : s <= n => HashAt(x.entries, s) = HashAt(d.entries, s)
           /\ \A s \in DOMAIN d.entries : s <= n =>
                (Linked(x.entries, s) <=> Linked(d.entries, s))
           /\ \A s \in DOMAIN d.entries : s <= n =>
                (Anomalous(x.entries, s) <=> Anomalous(d.entries, s))
<1>1. \A s \in Nat : s <= n => HashAt(x.entries, s) = HashAt(d.entries, s)
  BY DEF HashAt
<1>2. ASSUME NEW s \in DOMAIN d.entries, s <= n
      PROVE  Linked(x.entries, s) <=> Linked(d.entries, s)
  <2> DEFINE E(y) == {t \in DOMAIN y.entries : t < s /\ y.entries[t].hash # Null}
  <2>1. s \in Nat /\ x.entries[s] = d.entries[s]
    BY <1>2, TableFields
  <2>2. \A t \in DOMAIN d.entries \cup DOMAIN x.entries : t \in Nat
    BY TableFields
  <2>3. E(x) = E(d)
    BY <1>2, <2>1, <2>2
  <2>4. \A t \in E(d) : HashAt(x.entries, t) = HashAt(d.entries, t)
    BY <1>1, <1>2, <2>1, <2>2
  <2>5. \A y \in Tables : Linked(y.entries, s) <=>
          \/ E(y) = {} /\ y.entries[s].prev = Null
          \/ \E t \in E(y) : y.entries[s].prev = HashAt(y.entries, t) /\ \A u \in E(y) : u <= t
    BY DEF Linked
  <2> HIDE DEF E
  <2> QED
    BY <2>1, <2>3, <2>4, <2>5
<1>3. ASSUME NEW s \in DOMAIN d.entries, s <= n
      PROVE  Anomalous(x.entries, s) <=> Anomalous(d.entries, s)
  <2>1. s \in Nat /\ s >= 1 /\ x.entries[s] = d.entries[s]
    BY <1>3, TableFields
  <2>2. HashAt(x.entries, s - 1) = HashAt(d.entries, s - 1)
    BY <1>1, <1>3, <2>1
  <2> QED
    BY <2>1, <2>2 DEF Anomalous
<1> QED
  BY <1>1, <1>2, <1>3

\* One more entry behind the tip of a managed chain.
LEMMA ExtendedSharp ==
    ASSUME NEW d \in Tables, NEW by \in Proc, NEW hash \in NextHashes(d, by),
           Shape(d), d.epochs # <<>>, d.state.last < MaxSeq
    PROVE  LET x == Extended(d, by, d.state.hash, hash)
               s == d.state.last + 1
           IN  /\ x \in Tables /\ x.state.last = s /\ x.epochs = d.epochs
               /\ DOMAIN x.entries = DOMAIN d.entries \cup {s}
               /\ \A t \in DOMAIN d.entries \ {s} : x.entries[t] = d.entries[t]
               /\ Shape(x) /\ (Sharp(d) => Sharp(x))
<1> DEFINE x == Extended(d, by, d.state.hash, hash)
           n == d.state.last
<1>0. hash = <<by, n + 1>> /\ hash \in Hash /\ Named(hash) = n + 1
  <2>1. n + 1 \in 0..MaxSeq
    BY TableFields, AuditAssumption
  <2>2. hash = <<by, n + 1>>
    BY DEF NextHashes, Shape
  <2> QED
    BY <2>1, <2>2, HashTypes
<1>1. /\ x \in Tables
      /\ x.state.last = n + 1 /\ x.state.hash = hash
      /\ x.state.active = d.state.active
      /\ x.epochs = d.epochs /\ x.incident = d.incident
      /\ DOMAIN x.entries = DOMAIN d.entries \cup {n + 1}
      /\ \A t \in DOMAIN d.entries \ {n + 1} : x.entries[t] = d.entries[t]
      /\ x.entries[n + 1] = [by |-> by, hash |-> hash, sound |-> TRUE, prev |-> d.state.hash]
  <2>1. d.state.hash \in Hash /\ hash \in Hash
    BY <1>0, TableFields
  <2> QED
    BY <2>1, ExtendedFields
<1> HIDE DEF x
<1>2. /\ n \in Nat /\ d.incident.end \in Nat /\ d.incident.trusted \in Nat
      /\ \A s \in DOMAIN d.entries : s \in Nat /\ s >= 1 /\ s <= n
      /\ by # "legacy"
  BY TableFields, AuditAssumption DEF Shape
<1>3. /\ Declared(x) <=> Declared(d)
      /\ Historical(x) = Historical(d)
      /\ Managed(x) /\ Managed(d)
      /\ ActiveEpochs(x) = ActiveEpochs(d)
  BY <1>1 DEF Declared, Historical, Managed, ActiveEpochs
<1>4. \A s \in DOMAIN d.entries : x.entries[s] = d.entries[s]
  BY <1>1, <1>2
<1>5. /\ \A s \in Nat : s <= n => HashAt(x.entries, s) = HashAt(d.entries, s)
      /\ \A s \in DOMAIN d.entries : Linked(x.entries, s) <=> Linked(d.entries, s)
      /\ \A s \in DOMAIN d.entries : Anomalous(x.entries, s) <=> Anomalous(d.entries, s)
  <2>1. \A s \in Nat : s <= n => (s \in DOMAIN x.entries <=> s \in DOMAIN d.entries)
    BY <1>1, <1>2
  <2> QED
    BY <1>1, <1>2, <1>4, <2>1, SameLinks
<1>10. /\ x.entries[n + 1].hash = hash /\ x.entries[n + 1].prev = d.state.hash
       /\ x.entries[n + 1].by = by /\ x.entries[n + 1].sound
       /\ hash # Null /\ n + 1 \in DOMAIN x.entries
  <2>1. Named(Null) # n + 1
    BY <1>2, HashTypes
  <2> QED
    BY <1>0, <1>1, <2>1
<1>9. /\ Named(d.state.hash) \in Nat /\ Named(d.state.hash) <= n
      /\ \A s \in DOMAIN d.entries :
           /\ Named(d.entries[s].hash) \in Nat /\ Named(d.entries[s].hash) <= n
           /\ Named(d.entries[s].prev) \in Nat /\ Named(d.entries[s].prev) <= n
  BY TableFields, HashTypes DEF Shape, Entry
<1>6. Shape(x)
  <2>1. Named(x.state.hash) <= x.state.last
    BY <1>0, <1>1, <1>2
  <2>4. \A s \in DOMAIN d.entries :
             /\ s <= x.state.last
             /\ Named(x.entries[s].hash) <= x.state.last
             /\ Named(x.entries[s].prev) <= x.state.last
             /\ x.entries[s].hash = Null => x.entries[s].prev = Null
             /\ x.entries[s].prev # x.state.hash
    <3> TAKE s \in DOMAIN d.entries
    <3>1. x.entries[s] = d.entries[s] /\ x.state.last = n + 1 /\ x.state.hash = hash
      BY <1>1, <1>4
    <3>2. /\ s <= n + 1
          /\ Named(d.entries[s].hash) <= n + 1 /\ Named(d.entries[s].prev) <= n + 1
          /\ Named(d.entries[s].prev) # n + 1
      BY <1>2, <1>9
    <3> QED
      BY <1>0, <3>1, <3>2 DEF Shape
  <2>2. /\ n + 1 <= x.state.last
        /\ Named(x.entries[n + 1].hash) <= x.state.last
        /\ Named(x.entries[n + 1].prev) <= x.state.last
        /\ x.entries[n + 1].hash # Null
        /\ x.entries[n + 1].prev # x.state.hash
    <3>1. x.state.last = n + 1 /\ x.state.hash = hash
      BY <1>1
    <3> QED
      BY <1>0, <1>2, <1>9, <1>10, <3>1
  <2>3. Declared(x) => x.incident.end < x.state.last /\ HashAt(x.entries, x.incident.end) # Null
    BY <1>1, <1>2, <1>3, <1>5 DEF Shape
  <2> QED
    BY <1>1, <2>1, <2>2, <2>3, <2>4 DEF Shape
<1>7. ASSUME Sharp(d) PROVE Exact(x)
  <2> SUFFICES ASSUME Declared(d) PROVE Exact(x)
    BY <1>3 DEF Exact
  <2>1. /\ d.incident.end < n
        /\ d.incident.trusted + 1 \in DOMAIN d.entries
        /\ d.incident.trusted < d.incident.end
        /\ 1 .. d.incident.end \subseteq DOMAIN d.entries
        /\ Anomalous(d.entries, d.incident.trusted + 1)
        /\ \A s \in 1..d.incident.trusted : ~Anomalous(d.entries, s)
        /\ \A s \in DOMAIN d.entries : s <= d.incident.end <=> d.entries[s].by = "legacy"
    BY <1>7 DEF Sharp, Exact, Shape
  <2>2. /\ Anomalous(x.entries, d.incident.trusted + 1)
        /\ \A s \in 1..d.incident.trusted : ~Anomalous(x.entries, s)
    BY <1>2, <1>5, <2>1
  <2>3. \A s \in DOMAIN x.entries : s <= d.incident.end <=> x.entries[s].by = "legacy"
    BY <1>1, <1>2, <1>4, <2>1
  <2> QED
    BY <1>1, <2>1, <2>2, <2>3 DEF Exact
<1>8. ASSUME Sharp(d), ~Bare(x), ~TrustedHashRepeated(x) PROVE Verified(x)
  <2>10. TrustedHashRepeated(d) => TrustedHashRepeated(x)
    <3>1. \A t \in 1..d.incident.trusted :
            HashAt(d.entries, t) # Null => HashAt(x.entries, t) = HashAt(d.entries, t)
      BY <1>4, <1>1 DEF HashAt
    <3> QED
      BY <1>1, <1>3, <1>4, <3>1 DEF TrustedHashRepeated
  <2>1. Verified(d)
    BY <1>1, <1>3, <1>4, <1>8, <2>10 DEF Sharp, Bare
  <2>11. Unrepeated(x)
    <3>1. Unrepeated(d)
      BY <2>1 DEF Verified
    <3>2. \A s \in DOMAIN d.entries : x.entries[s].hash # x.entries[n + 1].hash
      <4> TAKE s \in DOMAIN d.entries
      <4>1. x.entries[s].hash = d.entries[s].hash /\ Named(d.entries[s].hash) # n + 1
        BY <1>2, <1>4, <1>9
      <4> QED
        BY <1>0, <1>10, <4>1
    <3> QED
      BY <1>1, <1>3, <1>4, <3>1, <3>2 DEF Unrepeated
  <2>2. DOMAIN x.entries = 1..x.state.last
    BY <1>1, <1>2, <2>1 DEF Verified
  <2>3. EpochsOk(x)
    BY <1>1, <1>3, <2>1 DEF Verified, EpochsOk
  <2>4. ASSUME NEW s \in DOMAIN d.entries
        PROVE  EntryOk(x, s)
    <3>1. EntryOk(d, s) /\ (s \in Historical(d) \/ d.entries[s].hash # Null)
      BY <1>3, <2>1 DEF Verified, EntryOk
    <3>2. Marker(d, s) => Marker(x, s)
      BY <1>1, <1>4 DEF Marker
    <3> QED
      BY <1>1, <1>3, <1>4, <1>5, <3>1, <3>2 DEF EntryOk
  <2>5. EntryOk(x, n + 1)
    <3>1. Declared(d) => /\ d.epochs[d.state.active].start = d.incident.end + 1
                         /\ d.incident.end < n
      BY <1>3, <2>1 DEF Verified, EpochsOk, Shape
    <3>2. n >= 1 => d.entries[n].hash # Null
      <4> SUFFICES ASSUME n >= 1 PROVE d.entries[n].hash # Null
        OBVIOUS
      <4>1. n \in DOMAIN d.entries
        BY <1>2, <2>1 DEF Verified
      <4>2. n \notin Historical(d)
        BY <1>2, <3>1 DEF Historical
      <4> QED
        BY <1>3, <2>1, <4>1, <4>2, VerifiedRows
    <3>3. d.state.hash = HashAt(x.entries, n)
      BY <1>2, <1>5, <2>1 DEF Verified
    <3>4. Linked(x.entries, n + 1)
      <4> DEFINE earlier == {t \in DOMAIN x.entries : t < n + 1 /\ x.entries[t].hash # Null}
      <4>1. earlier \subseteq 1..n
        BY <1>1, <1>2
      <4>2. CASE n = 0
        <5>1. earlier = {} /\ d.state.hash = Null
          BY <1>2, <2>1, <4>1, <4>2 DEF Verified, HashAt
        <5> QED
          BY <1>1, <5>1 DEF Linked
      <4>3. CASE n >= 1
        <5>1. n \in earlier
          BY <1>1, <1>2, <1>4, <2>1, <3>2, <4>3 DEF Verified
        <5>2. x.entries[n + 1].prev = HashAt(x.entries, n) /\ \A u \in earlier : u <= n
          BY <1>1, <1>2, <3>3, <4>1
        <5> QED
          BY <5>1, <5>2 DEF Linked
      <4> QED
        BY <1>2, <4>2, <4>3
    <3> QED
      BY <1>1, <1>2, <1>3, <1>10, <3>1, <3>4 DEF EntryOk
  <2>6. x.state.hash = HashAt(x.entries, x.state.last)
    BY <1>1 DEF HashAt
  <2>7. Declared(x) => /\ HashAt(x.entries, x.incident.end) # Null
                       /\ x.incident.end + 1 \in DOMAIN x.entries
    BY <1>1, <1>3, <1>6, <2>1 DEF Verified, Shape
  <2>8. \A s \in DOMAIN x.entries : EntryOk(x, s)
    BY <1>1, <2>4, <2>5
  <2>9. \E s \in DOMAIN x.entries : x.entries[s].hash # Null
    <3>1. n + 1 \in DOMAIN x.entries /\ x.entries[n + 1].hash # Null
      BY <1>10
    <3> QED
      BY <3>1
  <2> QED
    BY <2>2, <2>3, <2>6, <2>7, <2>8, <2>9, <2>11 DEF Verified
<1> QED
  BY <1>1, <1>6, <1>7, <1>8 DEF x, Sharp

\* The first rows of a chain by themselves, which is what an approval verifies.
LEMMA PrefixFields ==
    ASSUME NEW d \in Tables, NEW n \in 1..MaxSeq
    PROVE  LET x == Prefix(d, n) IN
           /\ x.epochs = <<>> /\ ~Declared(x) /\ Historical(x) = {} /\ ~Managed(x)
           /\ x.entries = [s \in {t \in DOMAIN d.entries : t <= n} |-> d.entries[s]]
           /\ x.entries \in Rows
<1> DEFINE es == [s \in {t \in DOMAIN d.entries : t <= n} |-> d.entries[s]]
           x == Prefix(d, n)
<1>1. es \in [{t \in DOMAIN d.entries : t <= n} -> Entry]
  BY TableFields
<1>2. {t \in DOMAIN d.entries : t <= n} \in SUBSET (1..MaxSeq)
  BY TableFields
<1>3. es \in Rows
  BY <1>1, <1>2 DEF Rows
<1>4. /\ x.epochs = <<>> /\ x.incident = NoIncident /\ x.state.active = 0
      /\ x.entries = es
  BY DEF Prefix, Legacy
<1> HIDE DEF x
<1>5. ~Declared(x) /\ Historical(x) = {} /\ ~Managed(x)
  BY <1>4 DEF Declared, Historical, Managed
<1> QED
  BY <1>3, <1>4, <1>5 DEF x

\* The damaged range declared, the boundary entry behind it.
LEMMA BoundedSharp ==
    ASSUME NEW d \in Tables, NEW a \in Approver, NEW req \in Request,
           req.latest < MaxSeq, req.latest > req.trusted,
           Shape(d), Approvable(d, req)
    PROVE  LET x == Bounded(d, a, req)
               s == req.latest + 1
           IN  /\ x \in Tables /\ x.state.last = s /\ x.epochs # <<>>
               /\ DOMAIN x.entries = DOMAIN d.entries \cup {s}
               /\ \A t \in DOMAIN d.entries \ {s} : x.entries[t] = d.entries[t]
               /\ Shape(x) /\ Sharp(x)
<1> DEFINE x == Bounded(d, a, req)
           n == req.latest
           m == req.trusted
<1>1. a \in Proc /\ a # "legacy"
  BY AuditAssumption DEF Proc
<1>2. /\ m \in Nat /\ n \in Nat /\ 1 <= m /\ m < n /\ m \in 1..MaxSeq
  BY AuditAssumption DEF Request
<1>3. /\ d.state.last = n /\ d.state.hash # Null /\ d.epochs = <<>>
      /\ DOMAIN d.entries = 1..n
      /\ HashAt(d.entries, n) = d.state.hash
      /\ \A s \in 1..m : d.entries[s].hash # Null
      /\ Verified(Prefix(d, m))
      /\ Anomalous(d.entries, m + 1)
      /\ \A s \in 1..m : ~Anomalous(d.entries, s)
      /\ \A s \in DOMAIN d.entries : d.entries[s].by = "legacy"
  BY DEF Approvable, Shape
<1>4. /\ x \in Tables
      /\ x.state.last = n + 1 /\ x.state.hash = <<a, n + 1>> /\ x.state.active = 2
      /\ x.epochs = <<[start |-> 1, end |-> m], [start |-> n + 1, end |-> 0]>>
      /\ x.incident = [trusted |-> m, end |-> n]
      /\ DOMAIN x.entries = DOMAIN d.entries \cup {n + 1}
      /\ \A t \in DOMAIN d.entries \ {n + 1} : x.entries[t] = d.entries[t]
      /\ x.entries[n + 1] = [by |-> a, hash |-> <<a, n + 1>>, sound |-> TRUE,
                             prev |-> Commitment(n)]
      /\ <<a, n + 1>> \in Hash /\ Named(<<a, n + 1>>) = n + 1
  BY <1>1, <1>3, BoundedFields
<1> HIDE DEF x, n, m
<1>5. /\ Declared(x) /\ x.incident.trusted = m /\ x.incident.end = n
      /\ Historical(x) = m + 1 .. n /\ Managed(x)
  BY <1>2, <1>4 DEF Declared, Historical, Managed, NoIncident
<1>6. \A s \in 1..n : s \in DOMAIN x.entries /\ x.entries[s] = d.entries[s]
  BY <1>2, <1>3, <1>4
<1>7. /\ \A s \in Nat : s <= n => HashAt(x.entries, s) = HashAt(d.entries, s)
      /\ \A s \in 1..n : Linked(x.entries, s) <=> Linked(d.entries, s)
      /\ \A s \in 1..n : Anomalous(x.entries, s) <=> Anomalous(d.entries, s)
  <2>1. \A s \in Nat : s <= n => (s \in DOMAIN x.entries <=> s \in DOMAIN d.entries)
    BY <1>2, <1>3, <1>4
  <2>2. \A s \in DOMAIN d.entries : s <= n => x.entries[s] = d.entries[s]
    BY <1>3, <1>6
  <2>3. /\ \A s \in Nat : s <= n => HashAt(x.entries, s) = HashAt(d.entries, s)
        /\ \A s \in DOMAIN d.entries : s <= n =>
             (Linked(x.entries, s) <=> Linked(d.entries, s))
        /\ \A s \in DOMAIN d.entries : s <= n =>
             (Anomalous(x.entries, s) <=> Anomalous(d.entries, s))
    BY <1>2, <1>4, <2>1, <2>2, SameLinks
  <2>4. \A s \in 1..n : s \in DOMAIN d.entries /\ s <= n
    BY <1>2, <1>3
  <2> QED
    BY <2>3, <2>4
<1>12. \A s \in 1..n :
         /\ Named(d.entries[s].hash) \in Nat /\ Named(d.entries[s].hash) <= n
         /\ Named(d.entries[s].prev) \in Nat /\ Named(d.entries[s].prev) <= n
         /\ d.entries[s].hash = Null => d.entries[s].prev = Null
  BY <1>3, TableFields, HashTypes DEF Shape, Entry
<1>13. /\ Named(Commitment(n)) = n /\ <<a, n + 1>> # Null
       /\ Commitment(n) # <<a, n + 1>>
  <2>1. Named(Commitment(n)) = n
    BY DEF Commitment, Named
  <2> QED
    BY <1>2, <1>4, <2>1, HashTypes
<1>8. Shape(x)
  <2>1. \A s \in 1..n :
          /\ s <= n + 1
          /\ Named(x.entries[s].hash) <= n + 1
          /\ Named(x.entries[s].prev) <= n + 1
          /\ x.entries[s].hash = Null => x.entries[s].prev = Null
          /\ x.entries[s].prev # <<a, n + 1>>
    <3> TAKE s \in 1..n
    <3>1. x.entries[s] = d.entries[s] /\ s <= n + 1
      BY <1>2, <1>6
    <3>2. /\ Named(d.entries[s].hash) <= n + 1 /\ Named(d.entries[s].prev) <= n + 1
          /\ Named(d.entries[s].prev) # n + 1
      BY <1>2, <1>12
    <3> QED
      BY <1>4, <1>12, <3>1, <3>2
  <2>2. x.epochs # <<>>
    BY <1>4
  <2>3. HashAt(x.entries, n) # Null
    BY <1>2, <1>3, <1>7
  <2>4. /\ n + 1 <= n + 1
        /\ Named(x.entries[n + 1].hash) <= n + 1
        /\ Named(x.entries[n + 1].prev) <= n + 1
        /\ x.entries[n + 1].hash # Null
        /\ x.entries[n + 1].prev # <<a, n + 1>>
    BY <1>2, <1>4, <1>13
  <2>5. \A s \in DOMAIN x.entries : s \in 1..n \/ s = n + 1
    BY <1>3, <1>4
  <2>6. Named(x.state.hash) <= x.state.last
    BY <1>2, <1>4
  <2>7. n < n + 1
    BY <1>2
  <2> QED
    BY <1>4, <1>5, <2>1, <2>2, <2>3, <2>4, <2>5, <2>6, <2>7 DEF Shape
<1>9. Exact(x)
  <2>1. m + 1 \in 1..n /\ \A s \in 1..m : s \in 1..n
    BY <1>2
  <2>2. Anomalous(x.entries, m + 1) /\ \A s \in 1..m : ~Anomalous(x.entries, s)
    BY <1>3, <1>7, <2>1
  <2>3. \A s \in DOMAIN x.entries : s <= n <=> x.entries[s].by = "legacy"
    BY <1>1, <1>2, <1>3, <1>4, <1>6
  <2> QED
    BY <1>2, <1>5, <1>6, <2>1, <2>2, <2>3 DEF Exact
<1>10. ASSUME ~TrustedHashRepeated(x) PROVE Verified(x)
  <2>8. Unrepeated(x)
    <3> SUFFICES ASSUME NEW s \in DOMAIN x.entries, NEW t \in DOMAIN x.entries,
                        s # t, x.entries[s].hash = x.entries[t].hash, x.entries[s].hash # Null
                 PROVE  s \in Historical(x) /\ t \in Historical(x)
      BY DEF Unrepeated
    <3>1. \A r \in DOMAIN x.entries : r \in 1..m \/ r \in m + 1 .. n \/ r = n + 1
      BY <1>2, <1>3, <1>4
    <3>2. \A r \in 1..n : x.entries[r].hash # x.entries[n + 1].hash
      <4> TAKE r \in 1..n
      <4>1. Named(x.entries[r].hash) # n + 1
        BY <1>2, <1>6, <1>12
      <4> QED
        BY <1>4, <4>1
    <3>3. s # n + 1 /\ t # n + 1
      BY <1>2, <3>1, <3>2
    <3>4. CASE s \in 1..m /\ t \in 1..m
      <4> DEFINE y == Prefix(d, m)
      <4>1. /\ Historical(y) = {}
            /\ y.entries = [r \in {q \in DOMAIN d.entries : q <= m} |-> d.entries[r]]
        BY <1>2, PrefixFields
      <4>2. Unrepeated(y)
        BY <1>3 DEF Verified
      <4> HIDE DEF y
      <4>3. /\ \A r \in 1..m : r \in DOMAIN y.entries /\ y.entries[r] = x.entries[r]
        BY <1>2, <1>3, <1>6, <4>1
      <4> QED
        BY <3>4, <4>1, <4>2, <4>3 DEF Unrepeated
    <3>5. ASSUME NEW p \in m + 1 .. n, NEW q \in 1..m,
                 x.entries[p].hash = x.entries[q].hash, x.entries[p].hash # Null
          PROVE  FALSE
      <4>1. p \in Historical(x) \cap DOMAIN x.entries /\ q \in 1..x.incident.trusted
        BY <1>2, <1>5, <1>6
      <4>2. HashAt(x.entries, q) = x.entries[q].hash
        BY <1>2, <1>6 DEF HashAt
      <4> QED
        BY <1>10, <3>5, <4>1, <4>2 DEF TrustedHashRepeated
    <3> QED
      BY <1>5, <3>1, <3>3, <3>4, <3>5
  <2>9. HashAt(x.entries, n) # Null
    BY <1>5, <1>8 DEF Shape
  <2>1. EpochsOk(x)
    <3>1. DOMAIN x.epochs = {1, 2} /\ x.epochs[1].end # 0 /\ x.epochs[2].end = 0
      BY <1>2, <1>4
    <3>2. ActiveEpochs(x) = {2}
      BY <3>1 DEF ActiveEpochs
    <3> QED
      BY <1>4, <1>5, <3>2 DEF EpochsOk
  <2>2. ASSUME NEW s \in 1..m
        PROVE  EntryOk(x, s)
    <3> DEFINE y == Prefix(d, m)
    <3>1. /\ ~Declared(y) /\ Historical(y) = {}
          /\ y.entries = [r \in {t \in DOMAIN d.entries : t <= m} |-> d.entries[r]]
      BY <1>2, PrefixFields
    <3>2. Verified(y)
      BY <1>3
    <3> HIDE DEF y
    <3>3. /\ DOMAIN y.entries = 1..m
          /\ \A r \in 1..m : y.entries[r] = d.entries[r]
      BY <1>2, <1>3, <3>1
    <3>4. y.entries[s].hash # Null /\ s \in DOMAIN y.entries
      BY <1>3, <3>3
    <3>5. y.entries[s].sound /\ Linked(y.entries, s)
      BY <3>1, <3>2, <3>4 DEF Verified, EntryOk
    <3>6. Linked(x.entries, s)
      <4> DEFINE E(es) == {t \in DOMAIN es : t < s /\ es[t].hash # Null}
      <4>1. \A t \in 1..m : x.entries[t] = y.entries[t]
        BY <1>2, <1>6, <3>3
      <4>2. E(x.entries) = E(y.entries)
        BY <1>2, <1>3, <1>4, <3>3, <4>1
      <4>3. \A t \in 1..m : HashAt(x.entries, t) = HashAt(y.entries, t)
        BY <1>2, <1>6, <3>3, <4>1 DEF HashAt
      <4>4. E(y.entries) \subseteq 1..m
        BY <3>3
      <4>5. \A es : Linked(es, s) <=>
              \/ E(es) = {} /\ es[s].prev = Null
              \/ \E t \in E(es) : es[s].prev = HashAt(es, t) /\ \A u \in E(es) : u <= t
        BY DEF Linked
      <4> HIDE DEF E
      <4> QED
        BY <3>5, <4>1, <4>2, <4>3, <4>4, <4>5
    <3>7. s \in 1..n /\ s # n + 1 /\ x.epochs[2].start = n + 1
      BY <1>2, <1>4
    <3> QED
      BY <1>4, <1>6, <3>3, <3>4, <3>5, <3>6, <3>7 DEF EntryOk
  <2>3. ASSUME NEW s \in m + 1 .. n
        PROVE  EntryOk(x, s)
    BY <1>5, <2>3 DEF EntryOk
  <2>4. EntryOk(x, n + 1)
    <3>1. Marker(x, n + 1) /\ x.entries[n + 1].hash # Null
      BY <1>4, <1>5, <1>13 DEF Marker
    <3>2. x.epochs[x.state.active].start = n + 1
      BY <1>4
    <3> QED
      BY <1>4, <1>5, <3>1, <3>2 DEF EntryOk
  <2>5. DOMAIN x.entries = 1..x.state.last
    <3>1. (1..n) \cup {n + 1} = 1 .. (n + 1)
      BY <1>2
    <3> QED
      BY <1>3, <1>4, <3>1
  <2>6. \A s \in DOMAIN x.entries : EntryOk(x, s)
    <3>1. \A s \in DOMAIN x.entries : s \in 1..m \/ s \in m + 1 .. n \/ s = n + 1
      BY <1>2, <1>3, <1>4
    <3> QED
      BY <2>2, <2>3, <2>4, <3>1
  <2>7. /\ x.state.hash = HashAt(x.entries, x.state.last)
        /\ n + 1 \in DOMAIN x.entries /\ x.entries[n + 1].hash # Null
    BY <1>4, <1>13 DEF HashAt
  <2> QED
    BY <1>5, <2>1, <2>5, <2>6, <2>7, <2>8, <2>9 DEF Verified
<1>11. x.epochs # <<>>
  BY <1>4
<1> QED
  BY <1>4, <1>8, <1>9, <1>10, <1>11 DEF Sharp, x, n

\* What a transaction sees of its own and of the committed rows.
LEMMA OverlayFields ==
    ASSUME db \in Tables, NEW view \in Tables, Extends(view.entries, db.entries)
    PROVE  LET o == Overlay(view) IN
           /\ o \in Tables
           /\ o.state = view.state /\ o.epochs = view.epochs /\ o.incident = view.incident
           /\ DOMAIN o.entries = DOMAIN view.entries
           /\ \A s \in DOMAIN view.entries :
                /\ o.entries[s].by = view.entries[s].by
                /\ o.entries[s].hash = view.entries[s].hash
                /\ o.entries[s].prev = view.entries[s].prev
           /\ \A s \in DOMAIN db.entries : o.entries[s] = db.entries[s]
           /\ drifts = 0 => o = view
<1> DEFINE es == [s \in DOMAIN view.entries |->
                    IF s \in DOMAIN db.entries THEN db.entries[s] ELSE view.entries[s]]
           o == Overlay(view)
<1>1. es \in [DOMAIN view.entries -> Entry]
  BY TableFields
<1>2. es \in Rows
  BY <1>1, TableFields DEF Rows
<1>3. /\ DOMAIN es = DOMAIN view.entries
      /\ \A s \in DOMAIN view.entries :
           /\ es[s].by = view.entries[s].by
           /\ es[s].hash = view.entries[s].hash
           /\ es[s].prev = view.entries[s].prev
      /\ \A s \in DOMAIN db.entries : es[s] = db.entries[s]
  BY DEF Extends
<1>4. drifts = 0 => es = view.entries
  <2> SUFFICES ASSUME drifts = 0 PROVE es = view.entries
    OBVIOUS
  <2>1. \A s \in DOMAIN view.entries : es[s] = view.entries[s]
    BY DEF Extends
  <2>2. view.entries \in [DOMAIN view.entries -> Entry]
    BY TableFields
  <2> HIDE DEF es
  <2> QED
    BY <1>1, <2>1, <2>2
<1>5. o = [view EXCEPT !.entries = es]
  BY DEF Overlay
<1> HIDE DEF es, o
<1>6. /\ o \in Tables /\ o.entries = es
      /\ o.state = view.state /\ o.epochs = view.epochs /\ o.incident = view.incident
  BY <1>2, <1>5 DEF Tables
<1>7. es = view.entries => o = view
  BY <1>5 DEF Tables
<1> QED
  BY <1>3, <1>4, <1>6, <1>7 DEF o

LEMMA OverlayShape ==
    ASSUME db \in Tables, NEW view \in Tables, Extends(view.entries, db.entries),
           Shape(view), view.epochs # <<>>
    PROVE  Shape(Overlay(view)) /\ Overlay(view).epochs # <<>>
<1> DEFINE o == Overlay(view)
<1>1. /\ o \in Tables
      /\ o.state = view.state /\ o.epochs = view.epochs /\ o.incident = view.incident
      /\ DOMAIN o.entries = DOMAIN view.entries
      /\ \A s \in DOMAIN view.entries : /\ o.entries[s].hash = view.entries[s].hash
                                         /\ o.entries[s].prev = view.entries[s].prev
  BY OverlayFields
<1> HIDE DEF o
<1>2. Declared(o) <=> Declared(view)
  BY <1>1 DEF Declared
<1>3. HashAt(view.entries, view.incident.end) # Null => HashAt(o.entries, o.incident.end) # Null
  BY <1>1 DEF HashAt
<1> QED
  BY <1>1, <1>2, <1>3 DEF Shape, o

-----------------------------------------------------------------------------
(* The transactions, one action after the other.                            *)

LEMMA EmptyTables == Empty \in Tables /\ Idle \in Tx
<1>1. DOMAIN <<>> = {}
  OBVIOUS
<1>2. Empty = [entries |-> <<>>, state |-> [last |-> 0, hash |-> Null, active |-> 0],
               epochs |-> <<>>, incident |-> NoIncident]
  BY <1>1 DEF Empty, Legacy, LastOf, HashAt
<1>3. <<>> \in Rows
  <2>1. <<>> \in [{} -> Entry]
    OBVIOUS
  <2> QED
    BY <2>1 DEF Rows
<1>4. <<>> \in Epochs
  BY DEF Epochs
<1>5. [last |-> 0, hash |-> Null, active |-> 0] \in State
  BY HashTypes, AuditAssumption DEF State
<1>6. NoIncident \in [trusted : 0..MaxSeq, end : 0..MaxSeq]
  BY AuditAssumption DEF NoIncident
<1>7. Empty \in Tables
  BY <1>2, <1>3, <1>4, <1>5, <1>6 DEF Tables
<1> HIDE DEF Empty
<1> QED
  BY <1>7 DEF Idle, Tx, Pcs

LEMMA TxFields ==
    ASSUME Types, NEW p \in Proc
    PROVE  /\ tx[p] \in Tx /\ tx[p].pc \in Pcs /\ tx[p].view \in Tables
           /\ tx[p].asked \in Request \cup {NoRequest}
BY DEF Types, Tx

LEMMA MoveFields ==
    ASSUME Types, NEW p \in Proc, NEW pc \in Pcs, NEW view \in Tables, MoveTo(p, pc, view)
    PROVE  /\ tx' \in [Proc -> Tx]
           /\ tx'[p].pc = pc /\ tx'[p].view = view /\ tx'[p].asked = tx[p].asked
           /\ \A q \in Proc \ {p} : tx'[q] = tx[q]
<1>1. tx \in [Proc -> Tx]
  BY DEF Types
<1>2. tx' = [tx EXCEPT ![p] = [tx[p] EXCEPT !.pc = pc, !.view = view]]
  BY DEF MoveTo
<1>3. /\ [tx[p] EXCEPT !.pc = pc, !.view = view] \in Tx
      /\ [tx[p] EXCEPT !.pc = pc, !.view = view].pc = pc
      /\ [tx[p] EXCEPT !.pc = pc, !.view = view].view = view
      /\ [tx[p] EXCEPT !.pc = pc, !.view = view].asked = tx[p].asked
  BY <1>1 DEF Tx
<1> QED
  BY <1>1, <1>2, <1>3

LEMMA EndFields ==
    ASSUME Types, NEW p \in Proc, End(p)
    PROVE  /\ tx' \in [Proc -> Tx]
           /\ tx'[p] = Idle /\ tx'[p].pc = "idle"
           /\ \A q \in Proc \ {p} : tx'[q] = tx[q]
           /\ lock' \in Proc \cup {Nobody}
BY EmptyTables DEF End, Types, Idle

\* Nobody else is beyond waiting when p holds the lock or nobody does.
LEMMA OthersWait ==
    ASSUME IInv, NEW p \in Proc, lock \in {p, Nobody}, NEW q \in Proc \ {p}
    PROVE  tx[q].pc \in {"idle", "waiting"}
BY AuditAssumption DEF IInv, Part, LockedBy

\* An idle transaction owes nothing.
LEMMA IdlePart ==
    ASSUME NEW p \in Proc, tx[p].pc = "idle"
    PROVE  Part(p)
BY DEF Part, WriterAt, ApproverAt, Snapshot, LockedBy, Continues, Appending, Deliberating

\* A step of one transaction that commits nothing.
LEMMA OneMoves ==
    ASSUME IInv, NEW p \in Proc, UNCHANGED <<db, drifts>>,
           tx' \in [Proc -> Tx], lock' \in Proc \cup {Nobody},
           \A q \in Proc \ {p} : tx'[q] = tx[q],
           lock' = lock \/ lock \in {p, Nobody},
           Part(p)'
    PROVE  IInv'
<1>1. Types' /\ ChainInv'
  BY DEF IInv, Types, ChainInv, Started
<1>2. ASSUME NEW q \in Proc \ {p}
      PROVE  Part(q)'
  <2>1. Part(q) /\ tx'[q] = tx[q]
    BY DEF IInv
  <2>2. LockedBy(q)'
    BY <2>1, OthersWait DEF LockedBy, Part
  <2>3. Continues(q)' /\ (q \in Approver \cup Serializer => Snapshot(q)')
    BY <2>1 DEF Part, Continues, Snapshot, Appending, Deliberating, Extends
  <2>4. (q \in Writer => WriterAt(q)') /\ (q \in Approver => ApproverAt(q)')
    BY <2>1 DEF Part, WriterAt, ApproverAt
  <2> QED
    BY <2>2, <2>3, <2>4 DEF Part
<1> QED
  BY <1>1, <1>2 DEF IInv

LEMMA Roles ==
    /\ \A w \in Serializer : w \in Writer
    /\ \A w \in Writer : w \in Proc /\ w \notin Approver
    /\ \A a \in Approver : a \in Proc /\ a \notin Writer
BY AuditAssumption DEF Proc

LEMMA EnterKeeps ==
    ASSUME IInv, NEW w \in Writer, Enter(w)
    PROVE  IInv'
<1>1. w \in Proc /\ w \notin Approver /\ Types
  BY Roles DEF IInv
<1>2. /\ tx' \in [Proc -> Tx] /\ tx'[w].pc = "open"
      /\ \A q \in Proc \ {w} : tx'[q] = tx[q]
  BY <1>1, MoveFields, EmptyTables DEF Enter, Pcs
<1>3. Part(w)'
  BY <1>1, <1>2 DEF Enter, Part, WriterAt, LockedBy, Continues, Appending
<1> QED
  BY <1>1, <1>2, <1>3, OneMoves DEF Enter

\* What the next statement of a writer sees: the present, or, for a serializable
\* one, a snapshot that a commit may have overtaken.
LEMMA SeenByWriter ==
    ASSUME IInv, NEW w \in Writer, tx[w].pc \in {"open", "written"}
    PROVE  LET seen == Sees(w) IN
           /\ seen \in Tables /\ Shape(seen) /\ Started(seen)
           /\ drifts = 0 => Sharp(seen)
           /\ tx[w].pc = "written" => seen.epochs # <<>>
           /\ \/ /\ w \in Serializer /\ seen.state.last < db.state.last /\ Overtaken(seen, db)
                 /\ tx[w].pc = "open"
              \/ /\ Extends(seen.entries, db.entries)
                 /\ seen.state.last >= db.state.last /\ Overtaken(db, seen)
<1> DEFINE seen == Sees(w)
           view == tx[w].view
<1>1. /\ w \in Proc /\ Types /\ Part(w) /\ ChainInv /\ db \in Tables /\ view \in Tables
  BY Roles, TxFields DEF IInv, Types
<1>2. db.state.last \in Nat /\ view.state.last \in Nat
  BY <1>1, TableFields
<1>3. CASE tx[w].pc = "open" /\ w \notin Serializer
  <2>1. seen = db
    BY <1>3 DEF Sees
  <2> QED
    BY <1>1, <1>2, <1>3, <2>1 DEF ChainInv, Extends, Overtaken
<1>4. CASE tx[w].pc = "open" /\ w \in Serializer
  <2>1. seen = view
    BY <1>4 DEF Sees
  <2>2. Snapshot(w) /\ Deliberating(w)
    BY <1>1, <1>4 DEF Part, Deliberating
  <2>3. view.state.last = db.state.last => Overtaken(db, view)
    BY <1>2 DEF Overtaken
  <2>4. view.state.last < db.state.last \/ view.state.last = db.state.last
    BY <1>2, <2>2 DEF Snapshot
  <2> HIDE DEF seen, view
  <2> QED
    BY <1>1, <1>2, <1>4, <2>1, <2>2, <2>3, <2>4 DEF Snapshot, Deliberating, view, seen
<1>5. CASE tx[w].pc = "written"
  <2>1. /\ Extends(view.entries, db.entries) /\ Shape(view) /\ view.epochs # <<>>
        /\ drifts = 0 => Sharp(view)
        /\ view.state.last > db.state.last /\ Overtaken(db, view)
    BY <1>1, <1>5 DEF Part, Continues, Appending
  <2>2. Started(view) /\ view.state.last >= db.state.last
    BY <1>2, <2>1 DEF Started
  <2>3. CASE w \in Serializer
    <3>1. seen = view
      BY <2>3 DEF Sees
    <3> HIDE DEF seen, view
    <3> QED
      BY <1>1, <2>1, <2>2, <3>1, <1>5 DEF seen
  <2>4. CASE w \notin Serializer
    <3>1. seen = Overlay(view)
      BY <1>5, <2>4 DEF Sees
    <3> HIDE DEF seen, view
    <3>2. /\ seen \in Tables /\ seen.state = view.state /\ seen.epochs = view.epochs
          /\ drifts = 0 => seen = view
          /\ DOMAIN seen.entries = DOMAIN view.entries
          /\ \A s \in DOMAIN db.entries : seen.entries[s] = db.entries[s]
      BY <1>1, <2>1, <3>1, OverlayFields
    <3>3. Shape(seen)
      BY <1>1, <2>1, <3>1, OverlayShape
    <3>4. Started(seen) /\ seen.state.last >= db.state.last /\ Overtaken(db, seen)
      BY <2>1, <2>2, <3>2 DEF Started, Overtaken
    <3>5. Extends(seen.entries, db.entries)
      BY <2>1, <3>2 DEF Extends
    <3>6. drifts = 0 => Sharp(seen)
      BY <2>1, <3>2
    <3> QED
      BY <3>2, <3>3, <3>4, <3>5, <3>6, <1>5, <2>1 DEF seen
  <2> QED
    BY <2>3, <2>4
<1> QED
  BY <1>3, <1>4, <1>5

LEMMA ResolveKeeps ==
    ASSUME IInv, NEW w \in Writer, Resolve(w)
    PROVE  IInv'
<1> DEFINE seen == Sees(w)
<1>1. /\ w \in Proc /\ w \notin Approver /\ Types /\ lock = w
      /\ tx[w].pc \in {"open", "written"}
  BY Roles DEF IInv, Part, LockedBy, Resolve
<1>2. db \in Tables /\ Part(w) /\ ChainInv
  BY <1>1 DEF Types, IInv
<1>3. /\ seen \in Tables /\ Shape(seen) /\ Started(seen)
      /\ drifts = 0 => Sharp(seen)
      /\ tx[w].pc = "written" => seen.epochs # <<>>
      /\ \/ /\ w \in Serializer /\ seen.state.last < db.state.last /\ Overtaken(seen, db)
            /\ tx[w].pc = "open"
         \/ /\ Extends(seen.entries, db.entries)
            /\ seen.state.last >= db.state.last /\ Overtaken(db, seen)
  BY <1>1, SeenByWriter
<1>4. /\ UNCHANGED <<db, lock, drifts>>
      /\ \/ ~Accepts(seen) /\ MoveTo(w, "refused", seen)
         \/ Accepts(seen) /\ seen.epochs = <<>> /\ db.epochs # <<>> /\ MoveTo(w, "collided", seen)
         \/ Accepts(seen) /\ MoveTo(w, "resolved", OpenEpoch(seen))
  BY DEF Resolve
<1>7. db.state.last \in Nat /\ seen.state.last \in Nat
  BY <1>2, <1>3, TableFields
<1> HIDE DEF seen
<1>5. CASE Accepts(seen) /\ MoveTo(w, "resolved", OpenEpoch(seen))
  <2> DEFINE view == OpenEpoch(seen)
  <2>1. /\ view \in Tables /\ view.entries = seen.entries
        /\ view.state.last = seen.state.last /\ view.epochs # <<>>
    BY <1>3, OpenEpochFields
  <2>2. Shape(view) /\ (drifts = 0 => Sharp(view))
    BY <1>3, <1>5, OpenedSharp
  <2> HIDE DEF view
  <2>3. /\ tx' \in [Proc -> Tx] /\ tx'[w].pc = "resolved" /\ tx'[w].view = view
        /\ \A q \in Proc \ {w} : tx'[q] = tx[q]
    BY <1>1, <1>5, <2>1, MoveFields DEF Pcs, view
  <2>4. \/ /\ w \in Serializer /\ view.state.last < db.state.last /\ Overtaken(view, db)
        \/ /\ Extends(view.entries, db.entries)
           /\ view.state.last >= db.state.last /\ Overtaken(db, view)
    BY <1>3, <2>1 DEF Overtaken
  <2>5. Continues(w)'
    BY <1>4, <2>1, <2>2, <2>3, <2>4 DEF Continues, Extends, Overtaken
  <2>6. WriterAt(w)' /\ LockedBy(w)' /\ Snapshot(w)'
    BY <1>1, <1>4, <2>3 DEF WriterAt, LockedBy, Snapshot, Deliberating
  <2>7. Part(w)'
    BY <1>1, <2>5, <2>6 DEF Part
  <2> QED
    BY <1>1, <1>4, <2>3, <2>7, OneMoves
<1>6. CASE ~Accepts(seen) /\ MoveTo(w, "refused", seen)
  <2>1. ~Verified(seen) \/ TooLong(seen)
    BY <1>3, <1>6, VerifiedAccepted
  <2>2. /\ tx' \in [Proc -> Tx] /\ tx'[w].pc = "refused" /\ tx'[w].view = seen
        /\ \A q \in Proc \ {w} : tx'[q] = tx[q]
    BY <1>1, <1>3, <1>6, MoveFields DEF Pcs
  <2>3. Part(w)'
    BY <1>1, <1>4, <2>1, <2>2
       DEF Part, WriterAt, LockedBy, Continues, Appending, Snapshot, Deliberating
  <2> QED
    BY <1>1, <1>4, <2>2, <2>3, OneMoves
<1>8. CASE /\ seen.epochs = <<>> /\ db.epochs # <<>> /\ MoveTo(w, "collided", seen)
  <2>1. /\ tx' \in [Proc -> Tx] /\ tx'[w].pc = "collided" /\ tx'[w].view = seen
        /\ \A q \in Proc \ {w} : tx'[q] = tx[q]
    BY <1>1, <1>3, <1>8, MoveFields DEF Pcs
  <2>2. w \in Serializer /\ seen.state.last < db.state.last
    <3>1. CASE tx[w].pc = "written"
      BY <1>3, <1>8, <3>1
    <3>2. CASE tx[w].pc = "open" /\ w \notin Serializer
      BY <1>8, <3>2 DEF Sees, seen
    <3>3. CASE tx[w].pc = "open" /\ w \in Serializer
      <4>1. Snapshot(w) /\ Deliberating(w) /\ seen = tx[w].view
        BY <1>2, <3>3 DEF Part, Deliberating, Sees, seen
      <4>2. seen.state.last <= db.state.last
        BY <4>1 DEF Snapshot
      <4> QED
        BY <1>2, <1>7, <1>8, <3>3, <4>1, <4>2 DEF Snapshot
    <3> QED
      BY <1>1, <3>1, <3>2, <3>3
  <2>3. Part(w)'
    BY <1>1, <1>4, <2>1, <2>2
       DEF Part, WriterAt, LockedBy, Continues, Appending, Snapshot, Deliberating
  <2> QED
    BY <1>1, <1>4, <2>1, <2>3, OneMoves
<1> QED
  BY <1>4, <1>5, <1>6, <1>8

LEMMA InsertKeeps ==
    ASSUME IInv, NEW w \in Writer, Insert(w)
    PROVE  IInv'
<1> DEFINE view == tx[w].view
           s == view.state.last + 1
<1>1. /\ w \in Proc /\ w \notin Approver /\ Types /\ Part(w)
      /\ tx[w].pc = "resolved" /\ lock = w
  BY Roles DEF IInv, Part, LockedBy, Insert
<1>2. db \in Tables /\ view \in Tables /\ db.state.last \in Nat /\ view.state.last \in Nat
  BY <1>1, TxFields, TableFields DEF Types
<1>3. /\ Shape(view) /\ view.epochs # <<>>
      /\ drifts = 0 => Sharp(view)
      /\ \/ w \in Serializer /\ view.state.last < db.state.last /\ s \in DOMAIN db.entries
         \/ /\ Extends(view.entries, db.entries)
            /\ view.state.last >= db.state.last /\ Overtaken(db, view)
  BY <1>1 DEF Part, Continues, Appending, Overtaken
<1>4. /\ UNCHANGED <<db, lock, drifts>>
      /\ view.state.last < MaxSeq
      /\ \/ s \in DOMAIN db.entries /\ MoveTo(w, "collided", view)
         \/ /\ s \notin DOMAIN db.entries
            /\ \E hash \in NextHashes(view, w) :
                 MoveTo(w, "written", Extended(view, w, view.state.hash, hash))
  BY <1>2, AuditAssumption DEF Insert
<1> HIDE DEF view
<1>5. CASE s \in DOMAIN db.entries /\ MoveTo(w, "collided", view)
  <2>1. /\ tx' \in [Proc -> Tx] /\ tx'[w].pc = "collided" /\ tx'[w].view = view
        /\ \A q \in Proc \ {w} : tx'[q] = tx[q]
    BY <1>1, <1>2, <1>5, MoveFields DEF Pcs
  <2>2. w \in Serializer /\ view.state.last < db.state.last
    <3>1. ~Extends(view.entries, db.entries)
      BY <1>2, <1>3, <1>5 DEF Shape, Extends
    <3> QED
      BY <1>3, <3>1
  <2>3. Part(w)'
    BY <1>1, <1>4, <2>1, <2>2
       DEF Part, WriterAt, LockedBy, Continues, Appending, Snapshot, Deliberating
  <2> QED
    BY <1>1, <1>4, <2>1, <2>3, OneMoves
<1>6. CASE /\ s \notin DOMAIN db.entries
           /\ \E hash \in NextHashes(view, w) :
                MoveTo(w, "written", Extended(view, w, view.state.hash, hash))
  <2>1. PICK hash \in NextHashes(view, w) :
          MoveTo(w, "written", Extended(view, w, view.state.hash, hash))
    BY <1>6
  <2> DEFINE x == Extended(view, w, view.state.hash, hash)
  <2>2. /\ Extends(view.entries, db.entries)
        /\ view.state.last >= db.state.last /\ Overtaken(db, view)
    BY <1>3, <1>6
  <2>3. s \notin DOMAIN view.entries
    BY <1>2, <1>3, TableFields DEF Shape
  <2>4. /\ x \in Tables /\ x.state.last = s /\ x.epochs = view.epochs
        /\ DOMAIN x.entries = DOMAIN view.entries \cup {s}
        /\ \A t \in DOMAIN view.entries \ {s} : x.entries[t] = view.entries[t]
        /\ Shape(x) /\ (Sharp(view) => Sharp(x))
    BY <1>1, <1>2, <1>3, <1>4, ExtendedSharp
  <2> HIDE DEF x
  <2>5. /\ tx' \in [Proc -> Tx] /\ tx'[w].pc = "written" /\ tx'[w].view = x
        /\ \A q \in Proc \ {w} : tx'[q] = tx[q]
    BY <1>1, <2>1, <2>4, MoveFields DEF Pcs, x
  <2>6. Extends(x.entries, db.entries)
    BY <1>6, <2>2, <2>4 DEF Extends
  <2>7. x.state.last > db.state.last /\ Overtaken(db, x)
    BY <1>2, <2>2, <2>4 DEF Overtaken
  <2>8. Continues(w)'
    BY <1>2, <1>3, <1>4, <2>4, <2>5, <2>6, <2>7 DEF Continues, Appending, Extends, Overtaken
  <2>9. Part(w)'
    BY <1>1, <1>4, <2>5, <2>8 DEF Part, WriterAt, LockedBy, Snapshot, Deliberating
  <2> QED
    BY <1>1, <1>4, <2>5, <2>9, OneMoves
<1> QED
  BY <1>4, <1>5, <1>6

\* A transaction that ends leaves the tables as they are and owes nothing.
LEMMA EndKeeps ==
    ASSUME IInv, NEW p \in Proc, End(p), UNCHANGED <<db, drifts>>
    PROVE  IInv'
<1>1. /\ tx' \in [Proc -> Tx] /\ tx'[p].pc = "idle"
      /\ \A q \in Proc \ {p} : tx'[q] = tx[q]
      /\ lock' \in Proc \cup {Nobody}
  BY EndFields DEF IInv
<1>2. Part(p)'
  BY <1>1 DEF Part, WriterAt, ApproverAt, Snapshot, LockedBy, Continues, Appending, Deliberating
<1>3. lock' = lock \/ lock \in {p, Nobody}
  BY DEF End
<1> QED
  BY <1>1, <1>2, <1>3, OneMoves

\* A snapshot that is taken now.
Current(view) ==
    /\ Shape(view) /\ Started(view) /\ (drifts = 0 => Sharp(view))
    /\ view.state.last <= db.state.last /\ Overtaken(view, db)
    /\ Extends(view.entries, db.entries) /\ view.epochs = db.epochs

LEMMA SnapshotOfNow ==
    ASSUME db \in Tables, ChainInv
    PROVE  Current(db)
<1>1. db.state.last <= db.state.last /\ ~(db.state.last < db.state.last)
  BY TableFields
<1> QED
  BY <1>1 DEF Current, ChainInv, Extends, Overtaken

LEMMA BeginKeeps ==
    ASSUME IInv, NEW w \in Serializer, Begin(w)
    PROVE  IInv'
<1>1. /\ w \in Proc /\ w \notin Approver /\ Types /\ db \in Tables /\ ChainInv
      /\ UNCHANGED <<db, lock, drifts>> /\ lock \in Proc \cup {Nobody}
  BY Roles DEF IInv, Types, Begin
<1>2. /\ tx' \in [Proc -> Tx] /\ tx'[w].pc = "waiting" /\ tx'[w].view = db
      /\ \A q \in Proc \ {w} : tx'[q] = tx[q]
  BY <1>1, MoveFields DEF Begin, Pcs
<1>3. Current(db)
  BY <1>1, SnapshotOfNow
<1>4. Snapshot(w)'
  BY <1>1, <1>2, <1>3 DEF Current, Snapshot, Extends, Overtaken
<1>5. WriterAt(w)' /\ LockedBy(w)' /\ Continues(w)'
  BY <1>2 DEF WriterAt, LockedBy, Continues, Appending
<1>6. Part(w)'
  BY <1>1, <1>4, <1>5 DEF Part
<1> QED
  BY <1>1, <1>2, <1>6, OneMoves

LEMMA AskKeeps ==
    ASSUME IInv, NEW a \in Approver, NEW req \in Request, Ask(a, req)
    PROVE  IInv'
<1> DEFINE next == [pc |-> "waiting", view |-> db, asked |-> req]
<1>1. a \in Proc /\ a \notin Writer /\ db \in Tables /\ tx \in [Proc -> Tx] /\ ChainInv
      /\ lock \in Proc \cup {Nobody}
  BY Roles DEF IInv, Types
<1>2. next \in Tx
  BY <1>1 DEF Tx, Pcs
<1>3. /\ tx' = [tx EXCEPT ![a] = next] /\ UNCHANGED <<db, lock, drifts>>
      /\ req.latest > req.trusted
  BY DEF Ask
<1>4. /\ tx' \in [Proc -> Tx] /\ tx'[a] = next
      /\ \A q \in Proc \ {a} : tx'[q] = tx[q]
  BY <1>1, <1>2, <1>3
<1>5. Current(db)
  BY <1>1, SnapshotOfNow
<1>6. Snapshot(a)'
  BY <1>3, <1>4, <1>5 DEF Current, Snapshot, Extends, Overtaken
<1>7. ApproverAt(a)' /\ LockedBy(a)' /\ Continues(a)'
  BY <1>3, <1>4 DEF ApproverAt, LockedBy, Continues, Appending
<1>8. Part(a)'
  BY <1>1, <1>6, <1>7 DEF Part
<1> QED
  BY <1>1, <1>3, <1>4, <1>8, OneMoves

LEMMA GrantedKeeps ==
    ASSUME IInv, NEW p \in Approver \cup Serializer, Granted(p)
    PROVE  IInv'
<1>1. /\ p \in Proc /\ Types /\ Part(p)
      /\ tx[p].pc = "waiting" /\ lock = Nobody /\ lock' = p
      /\ UNCHANGED <<db, drifts>>
  BY Roles DEF IInv, Granted
<1>2. tx[p].view \in Tables
  BY <1>1, TxFields
<1>3. /\ tx' \in [Proc -> Tx] /\ tx'[p].pc = "open"
      /\ tx'[p].view = tx[p].view /\ tx'[p].asked = tx[p].asked
      /\ \A q \in Proc \ {p} : tx'[q] = tx[q]
  BY <1>1, <1>2, MoveFields DEF Granted, Pcs
<1>4. Snapshot(p)'
  BY <1>1, <1>3 DEF Part, Snapshot, Deliberating, Extends
<1>5. /\ p \in Approver => ApproverAt(p)'
      /\ p \in Writer => WriterAt(p)'
      /\ LockedBy(p)' /\ Continues(p)'
  BY <1>1, <1>3 DEF Part, ApproverAt, WriterAt, LockedBy, Continues, Appending
<1>6. Part(p)'
  BY <1>4, <1>5 DEF Part
<1> QED
  BY <1>1, <1>3, <1>6, OneMoves

LEMMA DecideKeeps ==
    ASSUME IInv, NEW a \in Approver, NEW dryRun \in BOOLEAN, Decide(a, dryRun)
    PROVE  IInv'
<1>1. /\ a \in Proc /\ a \notin Writer /\ Types /\ Part(a)
      /\ tx[a].pc = "open" /\ UNCHANGED <<db, drifts>>
  BY Roles DEF IInv, Decide
<1>2. CASE End(a)
  BY <1>1, <1>2, EndKeeps
<1>3. CASE /\ Approvable(tx[a].view, tx[a].asked)
           /\ MoveTo(a, "ready", tx[a].view) /\ UNCHANGED lock
  <2>1. tx[a].view \in Tables
    BY <1>1, TxFields
  <2>2. /\ tx' \in [Proc -> Tx] /\ tx'[a].pc = "ready"
        /\ tx'[a].view = tx[a].view /\ tx'[a].asked = tx[a].asked
        /\ \A q \in Proc \ {a} : tx'[q] = tx[q]
    BY <1>1, <1>3, <2>1, MoveFields DEF Pcs
  <2>3. Snapshot(a)'
    BY <1>1, <2>2 DEF Part, Snapshot, Deliberating, Extends
  <2>4. ApproverAt(a)' /\ LockedBy(a)' /\ Continues(a)'
    BY <1>1, <1>3, <2>2 DEF Part, ApproverAt, LockedBy, Continues, Appending
  <2>5. Part(a)'
    BY <1>1, <2>3, <2>4 DEF Part
  <2>6. lock' \in Proc \cup {Nobody}
    BY <1>1, <1>3 DEF Types
  <2> QED
    BY <1>1, <1>3, <2>2, <2>5, <2>6, OneMoves
<1> QED
  BY <1>2, <1>3 DEF Decide

LEMMA ApproveKeeps ==
    ASSUME IInv, NEW a \in Approver, Approve(a)
    PROVE  IInv'
<1> DEFINE view == tx[a].view
           req == tx[a].asked
           stale == db.epochs # <<>> \/ db.state # view.state \/ req.latest + 1 \in DOMAIN db.entries
           x == Bounded(view, a, req)
<1>1. /\ a \in Proc /\ a \notin Writer /\ Types /\ Part(a)
      /\ tx[a].pc = "ready" /\ UNCHANGED <<db, drifts>>
      /\ req.latest < MaxSeq
      /\ IF stale THEN End(a) ELSE MoveTo(a, "written", x) /\ UNCHANGED lock
  BY Roles DEF IInv, Approve
<1>2. CASE stale
  <2>1. End(a)
    BY <1>1, <1>2
  <2> QED
    BY <1>1, <2>1, EndKeeps
<1>3. CASE ~stale
  <2>1. /\ db.state = view.state /\ req.latest + 1 \notin DOMAIN db.entries
        /\ MoveTo(a, "written", x) /\ UNCHANGED lock
    BY <1>1, <1>3
  <2> HIDE DEF stale, x, view, req
  <2>2. db \in Tables /\ view \in Tables
    BY <1>1, TxFields DEF Types, view
  <2>3. /\ req \in Request /\ req.latest > req.trusted /\ Approvable(view, req)
        /\ Shape(view) /\ Extends(view.entries, db.entries)
    BY <1>1, <2>1, Roles DEF Part, ApproverAt, Snapshot, Deliberating, view, req
  <2>4. view.state.last = req.latest /\ req.latest \in Nat
    BY <2>3, AuditAssumption DEF Approvable, Request
  <2>5. /\ x \in Tables /\ x.state.last = req.latest + 1 /\ x.epochs # <<>>
        /\ DOMAIN x.entries = DOMAIN view.entries \cup {req.latest + 1}
        /\ \A t \in DOMAIN view.entries \ {req.latest + 1} : x.entries[t] = view.entries[t]
        /\ Shape(x) /\ Sharp(x)
    BY <1>1, <2>2, <2>3, BoundedSharp DEF x
  <2>6. /\ tx' \in [Proc -> Tx] /\ tx'[a].pc = "written" /\ tx'[a].view = x
        /\ tx'[a].asked = req
        /\ \A q \in Proc \ {a} : tx'[q] = tx[q]
    BY <1>1, <2>1, <2>5, MoveFields DEF Pcs, req
  <2>7. Extends(x.entries, db.entries)
    BY <2>1, <2>3, <2>5 DEF Extends
  <2>12. x.state.last > db.state.last /\ Overtaken(db, x)
    BY <2>1, <2>4, <2>5 DEF Overtaken
  <2>8. Continues(a)'
    BY <1>1, <2>1, <2>4, <2>5, <2>6, <2>7, <2>12 DEF Continues, Extends, Overtaken
  <2>9. ApproverAt(a)' /\ LockedBy(a)' /\ Snapshot(a)'
    BY <1>1, <2>1, <2>3, <2>6 DEF Part, ApproverAt, LockedBy, Snapshot, Deliberating
  <2>10. Part(a)'
    BY <1>1, <2>8, <2>9 DEF Part
  <2>11. lock' \in Proc \cup {Nobody}
    BY <1>1, <2>1 DEF Types
  <2> QED
    BY <1>1, <2>1, <2>6, <2>10, <2>11, OneMoves
<1> QED
  BY <1>2, <1>3

\* A commit continues the tables, and every other transaction is idle or still
\* waits for the lock, with a snapshot that the commit outdates.
LEMMA CommitKeeps ==
    ASSUME IInv, NEW p \in Proc, Commit(p)
    PROVE  IInv'
<1> DEFINE view == tx[p].view
           o == Overlay(view)
<1>1. /\ Types /\ Part(p) /\ tx[p].pc = "written" /\ lock = p
      /\ db' = o /\ End(p) /\ drifts' = drifts
  BY DEF IInv, Part, LockedBy, Commit
<1> HIDE DEF view, o
<1>2. db \in Tables /\ view \in Tables
  BY <1>1, TxFields DEF Types, view
<1>3. /\ Extends(view.entries, db.entries) /\ Shape(view) /\ view.epochs # <<>>
      /\ drifts = 0 => Sharp(view)
      /\ view.state.last > db.state.last /\ Overtaken(db, view)
  BY <1>1 DEF Part, Continues, Appending, view
<1>4. /\ o \in Tables /\ o.state = view.state /\ o.epochs = view.epochs
      /\ drifts = 0 => o = view
      /\ DOMAIN o.entries = DOMAIN view.entries
  BY <1>2, <1>3, OverlayFields DEF o
<1>5. Shape(o)
  BY <1>2, <1>3, OverlayShape DEF o
<1>6. o.state.last \in Nat /\ db.state.last \in Nat /\ o.state.last > db.state.last
  BY <1>2, <1>3, <1>4, TableFields
<1>7. /\ tx' \in [Proc -> Tx] /\ tx'[p].pc = "idle"
      /\ \A q \in Proc \ {p} : tx'[q] = tx[q]
      /\ lock' \in Proc \cup {Nobody}
  BY <1>1, EndFields
<1>8. Types'
  BY <1>1, <1>4, <1>7 DEF Types
<1>9. ChainInv'
  <2>1. Started(o)
    BY <1>6 DEF Started
  <2>2. drifts = 0 => Sharp(o)
    BY <1>3, <1>4
  <2> QED
    BY <1>1, <1>5, <2>1, <2>2 DEF ChainInv
<1>10. Part(p)'
  BY <1>7 DEF Part, WriterAt, ApproverAt, Snapshot, LockedBy, Continues, Appending, Deliberating
<1>11. ASSUME NEW q \in Proc \ {p}
       PROVE  Part(q)'
  <2>1. Part(q) /\ tx'[q] = tx[q] /\ tx[q].pc \in {"idle", "waiting"}
    BY <1>1, <1>7, OthersWait DEF IInv
  <2>2. tx[q].view.state.last \in Nat
    BY <1>1, TxFields, TableFields
  <2>6. /\ DOMAIN db.entries \subseteq DOMAIN o.entries
        /\ db.state.last + 1 \in DOMAIN o.entries
    BY <1>3, <1>4, <1>6 DEF Extends, Overtaken
  <2>7. ASSUME Snapshot(q), Deliberating(q)
        PROVE  Overtaken(tx[q].view, o)
    <3>1. tx[q].view.state.last <= db.state.last /\ Overtaken(tx[q].view, db)
      BY <2>7 DEF Snapshot
    <3>2. tx[q].view.state.last = db.state.last \/ tx[q].view.state.last < db.state.last
      BY <1>6, <2>2, <3>1
    <3> QED
      BY <2>6, <3>1, <3>2 DEF Overtaken
  <2>3. q \in Approver \cup Serializer => Snapshot(q)'
    BY <1>1, <1>6, <2>1, <2>2, <2>7 DEF Part, Snapshot, Deliberating
  <2>4. (q \in Writer => WriterAt(q)') /\ (q \in Approver => ApproverAt(q)')
    BY <2>1 DEF Part, WriterAt, ApproverAt
  <2>5. LockedBy(q)' /\ Continues(q)'
    BY <2>1 DEF LockedBy, Continues, Appending
  <2> QED
    BY <2>3, <2>4, <2>5 DEF Part
<1> QED
  BY <1>8, <1>9, <1>10, <1>11 DEF IInv

LEMMA DriftKeeps ==
    ASSUME IInv, NEW s \in DOMAIN db.entries, Drift(s)
    PROVE  IInv'
<1> DEFINE e == [db.entries[s] EXCEPT !.sound = FALSE]
           es == [db.entries EXCEPT ![s] = e]
<1>1. /\ Types /\ ChainInv /\ db \in Tables
      /\ drifts < MaxDrifts /\ drifts' = drifts + 1 /\ UNCHANGED <<tx, lock>>
      /\ db' = [db EXCEPT !.entries = es]
  BY DEF IInv, Types, Drift
<1>2. drifts' \in 0..MaxDrifts /\ drifts' # 0
  BY <1>1, AuditAssumption DEF Types
<1>3. /\ e \in Entry /\ e.by = db.entries[s].by
      /\ e.hash = db.entries[s].hash /\ e.prev = db.entries[s].prev
  BY <1>1, TableFields DEF Entry
<1>4. /\ es \in [DOMAIN db.entries -> Entry]
      /\ \A t \in DOMAIN db.entries : /\ es[t].by = db.entries[t].by
                                      /\ es[t].hash = db.entries[t].hash
                                      /\ es[t].prev = db.entries[t].prev
  BY <1>1, <1>3, TableFields
<1> HIDE DEF e, es
<1>5. es \in Rows /\ DOMAIN es = DOMAIN db.entries
  BY <1>1, <1>4, TableFields DEF Rows
<1>6. /\ db' \in Tables /\ db'.entries = es /\ db'.state = db.state
      /\ db'.epochs = db.epochs /\ db'.incident = db.incident
  BY <1>1, <1>5 DEF Tables
<1>7. Types'
  BY <1>1, <1>2, <1>6 DEF Types
<1>8. ChainInv'
  <2>1. HashAt(db.entries, db.incident.end) # Null => HashAt(db'.entries, db'.incident.end) # Null
    <3> DEFINE n == db.incident.end
    <3>1. n \in Int /\ db'.incident.end = n
      BY <1>1, <1>6, TableFields
    <3> QED
      BY <1>4, <1>5, <1>6, <3>1 DEF HashAt
  <2>2. Declared(db)' <=> Declared(db)
    BY <1>6 DEF Declared
  <2>3. Shape(db)'
    BY <1>1, <1>4, <1>5, <1>6, <2>1, <2>2 DEF ChainInv, Shape
  <2>4. Started(db)'
    BY <1>1, <1>6 DEF ChainInv, Started
  <2> QED
    BY <1>2, <2>3, <2>4 DEF ChainInv
<1>9. ASSUME NEW p \in Proc
      PROVE  Part(p)'
  <2>1. Part(p) /\ tx'[p] = tx[p] /\ lock' = lock
    BY <1>1 DEF IInv
  <2>2. \A fs : Extends(fs, db.entries) => Extends(fs, db.entries)'
    BY <1>2, <1>4, <1>5, <1>6 DEF Extends
  <2>3. Continues(p)'
    BY <1>2, <1>5, <1>6, <2>1, <2>2 DEF Part, Continues, Appending, Overtaken
  <2>4. p \in Approver \cup Serializer => Snapshot(p)'
    BY <1>2, <1>5, <1>6, <2>1, <2>2 DEF Part, Snapshot, Deliberating, Overtaken
  <2>5. /\ p \in Writer => WriterAt(p)'
        /\ p \in Approver => ApproverAt(p)'
        /\ LockedBy(p)'
    BY <1>6, <2>1 DEF Part, WriterAt, ApproverAt, LockedBy
  <2> QED
    BY <2>3, <2>4, <2>5 DEF Part
<1> QED
  BY <1>7, <1>8, <1>9 DEF IInv

\* The tip of the old rows is the last of them.
LEMMA LegacyTip ==
    ASSUME NEW es \in LegacyChains
    PROVE  /\ DOMAIN es \in SUBSET (1..MaxLegacy)
           /\ LastOf(es) \in 0..MaxSeq
           /\ \A s \in DOMAIN es : s <= LastOf(es)
<1>1. MaxLegacy \in Nat /\ MaxSeq \in Nat /\ MaxLegacy <= MaxSeq
  BY AuditAssumption
<1>2. DOMAIN es \in LegacyDomain
  BY DEF LegacyChains
<1>3. /\ DOMAIN es \in SUBSET (1..MaxLegacy)
      /\ DOMAIN es # {} => \E s \in DOMAIN es : \A t \in DOMAIN es : t <= s
  <2>1. CASE \E n \in 0..MaxLegacy : DOMAIN es = 1..n
    <3>1. PICK n \in 0..MaxLegacy : DOMAIN es = 1..n
      BY <2>1
    <3>2. n >= 1 => n \in 1..n /\ \A t \in 1..n : t <= n
      BY <1>1
    <3>3. n < 1 => 1..n = {}
      BY <1>1
    <3> QED
      BY <1>1, <3>1, <3>2, <3>3
  <2>2. CASE DOMAIN es = {1, 3} \cap 1..MaxLegacy
    <3>1. 3 \in DOMAIN es => \A t \in DOMAIN es : t <= 3
      BY <2>2
    <3>2. 3 \notin DOMAIN es => \A s, t \in DOMAIN es : t <= s
      BY <2>2
    <3>3. DOMAIN es \in SUBSET (1..MaxLegacy)
      BY <2>2
    <3> QED
      BY <3>1, <3>2, <3>3
  <2> QED
    BY <1>2, <2>1, <2>2 DEF LegacyDomain
<1>4. CASE DOMAIN es = {}
  BY <1>1, <1>3, <1>4 DEF LastOf
<1>5. CASE DOMAIN es # {}
  <2>1. LastOf(es) \in DOMAIN es /\ \A t \in DOMAIN es : t <= LastOf(es)
    BY <1>3, <1>5 DEF LastOf
  <2> QED
    BY <1>1, <1>3, <2>1
<1> QED
  BY <1>4, <1>5

LEMMA InitIInv == Init => IInv
<1> SUFFICES ASSUME Init PROVE IInv
  OBVIOUS
<1>1. PICK es \in LegacyChains : db = Legacy(es)
  BY DEF Init
<1>2. /\ db.entries = es /\ db.epochs = <<>> /\ db.incident = NoIncident
      /\ db.state = [last |-> LastOf(es), hash |-> HashAt(es, LastOf(es)), active |-> 0]
      /\ db = [entries |-> db.entries, state |-> db.state, epochs |-> db.epochs,
               incident |-> db.incident]
  BY <1>1 DEF Legacy
<1>3. MaxLegacy \in Nat /\ MaxSeq \in Nat /\ MaxLegacy <= MaxSeq /\ MaxDrifts \in Nat
  BY AuditAssumption
<1>4. PICK D \in LegacyDomain : es \in [D -> UNION {LegacyEntry(s) : s \in D}]
  BY DEF LegacyChains
<1>5. /\ D = DOMAIN es /\ D \in SUBSET (1..MaxLegacy)
      /\ LastOf(es) \in 0..MaxSeq /\ \A s \in DOMAIN es : s <= LastOf(es)
  BY <1>4, LegacyTip
<1>6. ASSUME NEW s \in D
      PROVE  es[s] \in Entry /\ es[s].by = "legacy"
  <2>1. PICK r \in D : es[s] \in LegacyEntry(r)
    BY <1>4, <1>6
  <2>2. r \in 1..MaxLegacy /\ r - 1 \in 0..MaxSeq
    BY <1>3, <1>5
  <2>3. /\ LegacyHashes(r) \subseteq Hash /\ LegacyHashes(r - 1) \subseteq Hash
        /\ {Null, Foreign} \subseteq Hash
    BY <1>3, <2>2 DEF Hash, LegacyHashes
  <2> QED
    BY <2>1, <2>3 DEF LegacyEntry, Entry
<1>7. es \in [D -> Entry] /\ D \in SUBSET (1..MaxSeq)
  <2>1. D \in SUBSET (1..MaxSeq)
    BY <1>3, <1>5
  <2> QED
    BY <1>4, <1>6, <2>1
<1>8. es \in Rows
  BY <1>7 DEF Rows
<1>9. HashAt(es, LastOf(es)) \in Hash
  BY <1>5, <1>6, HashTypes DEF HashAt, Entry
<1>14. /\ \A s \in DOMAIN es : /\ Named(es[s].hash) <= LastOf(es)
                               /\ Named(es[s].prev) <= LastOf(es)
                               /\ es[s].hash = Null => es[s].prev = Null
       /\ Named(HashAt(es, LastOf(es))) <= LastOf(es)
  <2>1. ASSUME NEW s \in DOMAIN es, NEW r \in 1..s
        PROVE  Named(<<"legacy", r>>) <= LastOf(es)
    BY <1>3, <1>5, <2>1 DEF Named
  <2>2. Named(Null) = 0 /\ Named(Foreign) = 0 /\ LastOf(es) >= 0
    BY <1>3, <1>5 DEF Named, Null, Foreign
  <2>3. \A s \in DOMAIN es : \E r \in DOMAIN es : es[s] \in LegacyEntry(r)
    BY <1>4, <1>5
  <2>4. ASSUME NEW s \in DOMAIN es PROVE Named(es[s].hash) <= LastOf(es)
    <3>1. PICK r \in DOMAIN es : es[s] \in LegacyEntry(r)
      BY <2>3
    <3>2. es[s].hash = Null \/ \E t \in 1..r : es[s].hash = <<"legacy", t>>
      BY <3>1 DEF LegacyEntry, LegacyHashes
    <3> QED
      BY <2>1, <2>2, <3>2
  <2>5. ASSUME NEW s \in DOMAIN es PROVE Named(es[s].prev) <= LastOf(es)
    <3>1. PICK r \in DOMAIN es : es[s] \in LegacyEntry(r)
      BY <2>3
    <3>2. es[s].prev \in {Null, Foreign} \/ \E t \in 1..(r - 1) : es[s].prev = <<"legacy", t>>
      BY <3>1 DEF LegacyEntry, LegacyHashes
    <3>3. \A t \in 1..(r - 1) : t \in 1..r
      BY <1>3, <1>5
    <3> QED
      BY <2>1, <2>2, <3>2, <3>3
  <2>6. \A s \in DOMAIN es : es[s].hash = Null => es[s].prev = Null
    BY DEF LegacyChains
  <2> QED
    BY <2>2, <2>4, <2>5, <2>6 DEF HashAt
<1>10. db \in Tables
  <2>1. db.state \in State
    BY <1>2, <1>5, <1>9 DEF State
  <2>2. <<>> \in Epochs
    BY DEF Epochs
  <2>3. NoIncident \in [trusted : 0..MaxSeq, end : 0..MaxSeq]
    BY <1>3 DEF NoIncident
  <2> QED
    BY <1>2, <1>8, <2>1, <2>2, <2>3 DEF Tables
<1>11. Types
  BY <1>3, <1>10, EmptyTables DEF Types, Init
<1>12. ChainInv
  <2>1. ~Declared(db)
    BY <1>2 DEF Declared
  <2>2. db.state.last = LastOf(es) /\ db.state.active = 0
    BY <1>2
  <2>3. Shape(db)
    BY <1>2, <1>5, <1>6, <1>14, <2>1, <2>2 DEF Shape
  <2>4. Started(db) /\ Sharp(db)
    BY <1>2, <2>1 DEF Started, Sharp, Exact
  <2> QED
    BY <2>3, <2>4 DEF ChainInv
<1>13. \A p \in Proc : Part(p)
  <2>1. \A p \in Proc : tx[p].pc = "idle"
    BY DEF Init, Idle
  <2> QED
    BY <2>1, IdlePart
<1> QED
  BY <1>11, <1>12, <1>13 DEF IInv

LEMMA StepIInv == IInv /\ [Next]_vars => IInv'
<1> SUFFICES ASSUME IInv, [Next]_vars PROVE IInv'
  OBVIOUS
<1>1. CASE \E w \in Writer : Enter(w) \/ Resolve(w) \/ Insert(w)
  BY <1>1, EnterKeeps, ResolveKeeps, InsertKeeps
<1>2. CASE \E a \in Approver : Granted(a) \/ Approve(a)
  BY <1>2, GrantedKeeps, ApproveKeeps
<1>8. CASE \E w \in Serializer : Begin(w) \/ Granted(w)
  BY <1>8, BeginKeeps, GrantedKeeps
<1>3. CASE \E a \in Approver, req \in Request : Ask(a, req)
  BY <1>3, AskKeeps
<1>4. CASE \E a \in Approver, dryRun \in BOOLEAN : Decide(a, dryRun)
  BY <1>4, DecideKeeps
<1>5. CASE \E p \in Proc : Commit(p) \/ Abort(p)
  <2>1. ASSUME NEW p \in Proc, Abort(p) PROVE IInv'
    BY <2>1, EndKeeps DEF Abort
  <2> QED
    BY <1>5, <2>1, CommitKeeps
<1>6. CASE \E s \in DOMAIN db.entries : Drift(s)
  BY <1>6, DriftKeeps
<1>7. CASE UNCHANGED vars
  BY <1>7 DEF vars, IInv, Types, ChainInv, Started, Part, WriterAt, ApproverAt, Snapshot,
              LockedBy, Continues, Appending, Deliberating, Extends, Overtaken
<1> QED
  BY <1>1, <1>2, <1>3, <1>4, <1>5, <1>6, <1>7, <1>8 DEF Next

\* The inductive invariant: the lock admits one writer or approval to the chain,
\* what it prepares continues the committed rows, and a managed chain that has
\* not drifted verifies (audit-log.ts:104, :254, :347).
THEOREM Invariant == Spec => []IInv
BY InitIInv, StepIInv, PTL DEF Spec

-----------------------------------------------------------------------------
(* What follows for every reachable state.                                  *)

\* The tables and the transactions have the types the model gives them.
THEOREM TypeCorrect == Spec => []TypeOK
<1>1. ASSUME NEW d \in Tables PROVE DbOK(d)
  <2>1. /\ d.entries \in [DOMAIN d.entries -> Entry] /\ d.state \in State
        /\ DOMAIN d.entries \in SUBSET (1..MaxSeq)
        /\ d.epochs \in Seq(Epoch) /\ Len(d.epochs) <= 2
        /\ d.incident \in [trusted : 0..MaxSeq, end : 0..MaxSeq]
    BY TableFields
  <2>2. Len(d.epochs) \in Nat /\ DOMAIN d.epochs = 1..Len(d.epochs)
    BY <2>1
  <2>3. Len(d.epochs) = 0 \/ Len(d.epochs) = 1 \/ Len(d.epochs) = 2
    <3> DEFINE n == Len(d.epochs)
    <3>1. n \in Nat /\ n <= 2
      BY <2>1, <2>2
    <3> HIDE DEF n
    <3>2. n = 0 \/ n = 1 \/ n = 2
      BY <3>1
    <3> QED
      BY <3>2 DEF n
  <2>4. 1..0 = {} /\ 1..1 = {1} /\ 1..2 = {1, 2}
    OBVIOUS
  <2>5. DOMAIN d.epochs \in {{}, {1}, {1, 2}}
    BY <2>2, <2>3, <2>4
  <2>6. \A n \in DOMAIN d.epochs : d.epochs[n] \in Epoch
    BY <2>1, <2>2
  <2> QED
    BY <2>1, <2>5, <2>6 DEF DbOK, Epoch, State
<1>2. ASSUME IInv PROVE TypeOK
  <2>1. \A p \in Proc : /\ tx[p].pc \in Pcs /\ tx[p].view \in Tables
                        /\ tx[p].asked \in Request \cup {NoRequest}
    BY <1>2, TxFields DEF IInv
  <2> QED
    BY <1>1, <1>2, <2>1 DEF IInv, Types, TypeOK, Pcs
<1> QED
  BY <1>2, Invariant, PTL

\* Concurrent READ COMMITTED transactions wait for one another on the advisory
\* lock and never fail on the unique sequence (audit-log.ts:104); a serializable
\* enrolment fails there only when a commit overtook its snapshot while it waited
\* (academic.service.ts:1071).
THEOREM WritersDoNotCollide == Spec => []NoCollision
<1>1. IInv => NoCollision
  BY Roles DEF IInv, Part, WriterAt, NoCollision
<1> QED
  BY <1>1, Invariant, PTL

\* The writer's gate refuses a business transaction only over a chain that the
\* full verifier fails too, however the chain was damaged, or over a chain without
\* epochs that is longer than the rows it loads (audit-log.ts:259, 262, 299).
THEOREM RefusalsAreFounded == Spec => []RefusedOnlyIfBroken
<1>1. IInv => RefusedOnlyIfBroken
  BY Roles DEF IInv, Part, WriterAt, RefusedOnlyIfBroken
<1> QED
  BY <1>1, Invariant, PTL

\* A chain with an epoch verifies from end to end after every commit, for any
\* number of writers and approvals, although a writer looks at the tip alone
\* (audit-log.ts:254, 347) and nothing but that look keeps the hashes apart:
\* unless old rows carry no hash, or the declared range repeats a trusted one.
THEOREM ChainsVerify == Spec => []ManagedChainVerifies
<1>1. UnhashedRows <=> Bare(db)
  BY DEF UnhashedRows, Bare
<1>2. IInv => ManagedChainVerifies
  BY <1>1 DEF IInv, ChainInv, Sharp, ManagedChainVerifies
<1> QED
  BY <1>2, Invariant, PTL

\* An approval declares the damage from its first entry to the last one before
\* the boundary, whatever raced it (audit-trust-boundary.approval.ts:236).
THEOREM DeclarationsAreExact == Spec => []DeclaredFromFirstAnomaly
<1>1. IInv => DeclaredFromFirstAnomaly
  BY DEF IInv, ChainInv, Sharp, Exact, DeclaredFromFirstAnomaly
<1> QED
  BY <1>1, Invariant, PTL

=============================================================================
