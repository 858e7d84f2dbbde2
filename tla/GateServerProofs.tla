-------------------------- MODULE GateServerProofs --------------------------
(***************************************************************************)
(* Theorems about GateServer, for any scans, kinds, handlers and policy.   *)
(*                                                                         *)
(* A handler decides on what it read before other handlers ran.  What it   *)
(* decided stays right because nothing it relied on can be taken back: a   *)
(* row of the day is never changed, Ashar is never withdrawn, an emergency *)
(* keeps its hours, and a scan keeps its time (Grew).                      *)
(***************************************************************************)
EXTENDS GateServer, FiniteSetTheorems, TLAPS

Emergency == [from : Time, until : Nat, off : Time \cup {None}]

Types == TypeOK /\ emergency \subseteq Emergency

\* The hours of some emergency cover t, whenever it was called off.
Covered(t) == \E e \in emergency : e.from <= t /\ t < e.until

\* The day as a ledger: its three entries and the hours that are excused.
Arrival   == IF logs["IN"] = None THEN None ELSE logs["IN"].at
Departure == IF logs["OUT"] = None THEN None
             ELSE [at |-> logs["OUT"].at, why |-> logs["OUT"].why]
Excused   == {t \in 0 .. (MaxTime + Skew) : Covered(t)}

Ledger == INSTANCE DayLedger WITH
    arrival <- Arrival, departure <- Departure, prayed <- ashar,
    excused <- Excused, duty <- Student /\ AsharRequired

-----------------------------------------------------------------------------
(* What each handler may be doing.                                         *)

\* A request is for a scan, a scan timed by the phone has a time, and who is done has an
\* answer.
Served(h) ==
    /\ At(h, "idle") => job[h].reply = None
    /\ At(h, "done") => job[h].reply \in Reply
    /\ ~At(h, "idle") => /\ job[h].scan \in Scan
                         /\ Clocked(job[h].scan) => stamp[job[h].scan] # None

\* A scan timed by the phone is judged at that time.
Timed(h) == ~At(h, "idle") /\ ~At(h, "done") /\ Clocked(job[h].scan) =>
    job[h].at = stamp[job[h].scan]

\* The direction a gate scan is taken for is one that its kind allows; the
\* single menu turns to OUT only behind an arrival tapped no later.
Steered(h) == At(h, "check") \/ At(h, "insert") =>
    LET k == Kind[job[h].scan] IN
    /\ job[h].dir \in Dir
    /\ k \in {"IN", "GATE_IN"} => job[h].dir = "IN"
    /\ k \in {"OUT", "GATE_OUT"} => job[h].dir = "OUT"
    /\ k = "GERBANG" /\ job[h].dir = "OUT" => Sees(h, "IN")
    /\ k # "MUSHOLA"

Praying(h) == At(h, "prayer") \/ At(h, "pray") => Kind[job[h].scan] = "MUSHOLA"

\* A departure about to be stored has its reasons on record.
Founded(h) == At(h, "insert") /\ job[h].dir = "OUT" =>
    /\ job[h].why # "override" => logs["IN"] # None
    /\ job[h].why = "plain" => Round(job[h].at - logs["IN"].at) >= MinStay
    /\ job[h].why = "emergency" => Covered(job[h].at)
    /\ Student /\ AsharRequired /\ job[h].why = "plain" => ashar # None

\* A scan answered ok has the row it asked for.
Has(s, d) == logs[d] # None /\ (Clocked(s) => logs[d].at <= stamp[s])
Row(s) ==
    /\ Kind[s] \in {"IN", "GATE_IN", "GERBANG"} => Has(s, "IN")
    /\ Kind[s] \in {"OUT", "GATE_OUT"} => Has(s, "OUT")
    /\ Kind[s] = "MUSHOLA" => ashar # None
Backed(h) == job[h].reply = "ok" => Row(job[h].scan)

\* A day without an emergency, with a minimum stay, and with phones that say
\* when a scan of the single menu was made.
Calm == /\ MinStay >= 1 /\ emergency = {}
        /\ \A s \in Scan : Kind[s] = "GERBANG" => Clocked(s)

\* On a calm day the arrival is another scan's.
Apart(h) == /\ Calm
            /\ At(h, "check") \/ At(h, "insert")
            /\ job[h].dir = "OUT" /\ Kind[job[h].scan] = "GERBANG"
            => logs["IN"] # None /\ logs["IN"].scan # job[h].scan

Part(h) == /\ Served(h) /\ Timed(h) /\ Steered(h) /\ Praying(h)
           /\ Founded(h) /\ Backed(h) /\ Apart(h)

\* A row is of a scan that may ask for its direction, and keeps its time; the
\* single menu's departure follows an arrival.
RowOf(d) == logs[d] # None =>
    LET k == Kind[logs[d].scan] IN
    /\ d = "IN" => k \in {"IN", "GATE_IN", "GERBANG"}
    /\ d = "OUT" => k \in {"OUT", "GATE_OUT", "GERBANG"}
    /\ Clocked(logs[d].scan) => logs[d].at = stamp[logs[d].scan]
    /\ d = "OUT" /\ k = "GERBANG" => logs["IN"] # None

Records == /\ OutJustified /\ AsharOnRecord
           /\ \A d \in Dir : RowOf(d)
           /\ Calm => CountsOnce

IInv == Types /\ Records /\ \A h \in Handler : Part(h)

-----------------------------------------------------------------------------
(* What no step takes back.                                                 *)

Grew ==
    /\ \A d \in Dir : logs[d] # None => logs'[d] = logs[d]
    /\ ashar # None => ashar' # None
    /\ \A s \in Scan : stamp[s] # None => stamp'[s] = stamp[s]
    /\ \A t \in Nat : Covered(t) => Covered(t)'
    /\ emergency' = {} => emergency = {}

LEMMA Fields ==
    ASSUME GateAssumption, Types
    PROVE  /\ \A h \in Handler :
                /\ job[h] \in Job /\ job[h].at \in Nat /\ job[h].at \in 0 .. (MaxTime + Skew)
                /\ job[h].scan \in Scan \cup {None} /\ job[h].dir \in Dir \cup {None}
           /\ \A d \in Dir : logs[d] # None =>
                /\ logs[d] \in Log /\ logs[d].at \in Nat /\ logs[d].scan \in Scan
           /\ \A s \in Scan : stamp[s] # None => stamp[s] \in Nat
           /\ {MaxTime, Skew, MinStay, MaxAge, DupWindow} \subseteq Nat /\ now \in 0..MaxTime
           /\ \A s \in Scan : Kind[s] \in Kinds
<1>1. /\ MaxTime \in Nat /\ Skew \in Nat
      /\ {MaxTime, Skew, MinStay, MaxAge, DupWindow} \subseteq Nat /\ now \in 0..MaxTime
      /\ \A s \in Scan : Kind[s] \in Kinds
  BY DEF GateAssumption, Types, TypeOK, Time
<1>2. \A n \in 0 .. (MaxTime + Skew) : n \in Nat
  BY <1>1
<1>3. \A h \in Handler :
        /\ job[h] \in Job /\ job[h].at \in Nat /\ job[h].at \in 0 .. (MaxTime + Skew)
        /\ job[h].scan \in Scan \cup {None} /\ job[h].dir \in Dir \cup {None}
  BY <1>2 DEF Types, TypeOK, Job
<1>4. \A d \in Dir : logs[d] # None =>
        /\ logs[d] \in Log /\ logs[d].at \in Nat /\ logs[d].scan \in Scan
  BY <1>2 DEF Types, TypeOK, Log
<1>5. \A s \in Scan : stamp[s] # None => stamp[s] \in Nat
  BY <1>2 DEF Types, TypeOK
<1> QED
  BY <1>1, <1>3, <1>4, <1>5

\* A handler that is left alone keeps its part.
LEMMA PartKept ==
    ASSUME GateAssumption, Types, Grew, NEW h \in Handler, Part(h), job'[h] = job[h]
    PROVE  Part(h)'
<1> DEFINE s == job[h].scan
<1>1. /\ job[h].at \in Nat
      /\ ~At(h, "idle") => s \in Scan /\ (Clocked(s) => stamp[s] # None)
      /\ \A d \in Dir : logs[d] # None => logs'[d] = logs[d]
      /\ "IN" \in Dir /\ "OUT" \in Dir
  BY Fields DEF Part, Served, Grew, Dir
<1>2. Served(h)' /\ Timed(h)' /\ Praying(h)'
  BY <1>1 DEF Part, Served, Timed, Praying, At, Grew, Clocked
<1>3. Steered(h)'
  BY <1>1 DEF Part, Steered, At, Sees
<1>4. Founded(h)'
  BY <1>1 DEF Part, Founded, At, Grew
<1>5. Backed(h)'
  <2> SUFFICES ASSUME job[h].reply = "ok" PROVE Row(s)'
    BY DEF Backed
  <2>1. Row(s) /\ ~At(h, "idle")
    BY DEF Part, Backed, Served, GateAssumption, Reply
  <2>2. s \in Scan /\ (Clocked(s) => stamp'[s] = stamp[s])
    BY <1>1, <2>1 DEF Grew
  <2> QED
    BY <1>1, <2>1, <2>2 DEF Row, Has, Grew, Clocked
<1>6. Apart(h)'
  BY <1>1 DEF Part, Apart, Calm, Clocked, At, Grew
<1> QED
  BY <1>2, <1>3, <1>4, <1>5, <1>6 DEF Part

\* As long as no row is added, the rows stay what they should be.
LEMMA RecordsKept ==
    ASSUME GateAssumption, Types, Records, Grew, UNCHANGED logs
    PROVE  Records'
<1>1. \A d \in Dir : logs[d] # None =>
        /\ logs[d].at \in Nat /\ logs[d].at # None /\ logs[d].scan \in Scan
  BY Fields DEF GateAssumption
<1>2. OutJustified'
  BY <1>1 DEF Records, OutJustified, Grew, Covered, Dir
<1>3. AsharOnRecord'
  BY DEF Records, AsharOnRecord, Grew
<1>4. \A d \in Dir : RowOf(d)'
  BY <1>1 DEF Records, RowOf, Grew, Clocked
<1>5. (Calm => CountsOnce)'
  BY DEF Records, Calm, Clocked, CountsOnce, Grew
<1> QED
  BY <1>2, <1>3, <1>4, <1>5 DEF Records

\* A step of one handler that adds no row.
LEMMA HandlerStep ==
    ASSUME GateAssumption, IInv, NEW h \in Handler, UNCHANGED <<policyVars, logs, ashar, stamp>>,
           flags' \subseteq FlagType, faults' \in Nat,
           job' \in [Handler -> Job], \A g \in Handler \ {h} : job'[g] = job[g],
           Part(h)'
    PROVE  IInv'
<1>1. Types'
  BY DEF IInv, Types, TypeOK, policyVars
<1>2. Grew
  BY DEF Grew, policyVars, Covered
<1>3. Records'
  BY <1>2, RecordsKept DEF IInv
<1>4. \A g \in Handler \ {h} : Part(g)'
  BY <1>2, PartKept DEF IInv
<1> QED
  BY <1>1, <1>3, <1>4 DEF IInv

-----------------------------------------------------------------------------
(* How a handler's job moves.                                               *)

\* An answer ends the work on a scan.  An ok needs the row.
LEMMA AnswerMoves ==
    ASSUME GateAssumption, Types, NEW h \in Handler, Served(h), ~At(h, "idle"),
           NEW r \in Reply, Answer(h, r),
           \A s \in Scan : stamp[s] # None => stamp'[s] # None,
           r = "ok" => \A x \in Scan : x = job[h].scan => Row(x)'
    PROVE  /\ job' \in [Handler -> Job]
           /\ \A g \in Handler \ {h} : job'[g] = job[g]
           /\ Part(h)'
<1> DEFINE s == job[h].scan
           j == [Idle EXCEPT !.pc = "done", !.scan = s, !.reply = r]
<1>1. s \in Scan /\ (Clocked(s) => stamp'[s] # None)
  BY DEF Served
<1>2. Idle \in Job
  BY Fields DEF Idle, Job
<1>3. j \in Job /\ j.pc = "done" /\ j.scan = s /\ j.reply = r
  BY <1>1, <1>2 DEF Job
<1>4. job' = [job EXCEPT ![h] = j]
  BY DEF Answer
<1> HIDE DEF j
<1>6. job' \in [Handler -> Job] /\ job'[h] = j /\ \A g \in Handler \ {h} : job'[g] = job[g]
  BY <1>3, <1>4 DEF Types, TypeOK
<1>7. Part(h)'
  BY <1>1, <1>3, <1>6
     DEF Part, Served, Timed, Clocked, Steered, Praying, Founded, Backed, Apart, At
<1> QED
  BY <1>6, <1>7

\* A gate scan turns to direction d.
LEMMA GoMoves ==
    ASSUME GateAssumption, Types, Records, NEW h \in Handler, Part(h), At(h, "decide"),
           NEW d \in Dir, Go(h, d), UNCHANGED <<policyVars, logs, ashar, stamp>>,
           LET k == Kind[job[h].scan] IN
           /\ k \in QrGate
           /\ k = "GATE_IN" => d = "IN"
           /\ k = "GATE_OUT" => d = "OUT"
           /\ k = "GERBANG" /\ d = "OUT" => Sees(h, "IN") /\ ~TooSoon(h)
    PROVE  /\ job' \in [Handler -> Job]
           /\ \A g \in Handler \ {h} : job'[g] = job[g]
           /\ Part(h)'
<1> DEFINE j == [job[h] EXCEPT !.pc = "check", !.dir = d]
<1>1. job[h] \in Job /\ job[h].at \in Nat /\ job \in [Handler -> Job]
  BY Fields DEF Types, TypeOK
<1>2. /\ j \in Job /\ j.pc = "check" /\ j.dir = d
      /\ j.scan = job[h].scan /\ j.at = job[h].at /\ j.reply = job[h].reply
  BY <1>1 DEF Job
<1>3. job' = [job EXCEPT ![h] = j]
  BY DEF Go
<1> HIDE DEF j
<1>4. job' \in [Handler -> Job] /\ job'[h] = j /\ \A g \in Handler \ {h} : job'[g] = job[g]
  BY <1>1, <1>2, <1>3
<1>5. Served(h)' /\ Timed(h)' /\ Praying(h)' /\ Founded(h)'
  BY <1>2, <1>4 DEF Part, Served, Timed, Clocked, Praying, Founded, At
<1>6. Steered(h)'
  BY <1>2, <1>4 DEF Steered, At, Sees, QrGate
<1>7. Backed(h)'
  BY <1>2, <1>4 DEF Part, Backed, Row, Has, Clocked
<1>8. Apart(h)'
  <2> SUFFICES ASSUME Calm, d = "OUT", Kind[job[h].scan] = "GERBANG"
               PROVE  logs["IN"] # None /\ logs["IN"].scan # job[h].scan
    BY <1>2, <1>4 DEF Apart, Calm, Clocked, policyVars
  <2>0. job[h].scan \in Scan /\ Clocked(job[h].scan) /\ MinStay >= 1 /\ emergency = {}
    BY DEF Calm, Part, Served, At
  <2>1. Sees(h, "IN") /\ ~TooSoon(h) /\ logs["IN"] # None
    BY DEF Sees
  <2>2. ~(Floor(job[h].at - logs["IN"].at) < MinStay)
    BY <2>0, <2>1 DEF TooSoon, EmergencyAt
  <2>3. logs["IN"].at \in Nat /\ logs["IN"].at # job[h].at
    <3>1. logs["IN"].at \in Nat /\ MinStay \in Nat
      BY <2>1, Fields DEF Dir
    <3>2. Floor(0) = 0
      BY DEF Floor
    <3> QED
      BY <1>1, <2>0, <2>2, <3>1, <3>2
  <2>4. job[h].at = stamp[job[h].scan]
    BY <2>0 DEF Part, Timed, At
  <2>5. logs["IN"].scan = job[h].scan => logs["IN"].at = stamp[job[h].scan]
    BY <2>0, <2>1 DEF Records, RowOf, Dir
  <2> QED
    BY <2>1, <2>3, <2>4, <2>5
<1> QED
  BY <1>4, <1>5, <1>6, <1>7, <1>8 DEF Part

\* A scan that passed the checks is to be stored, for reason w.
LEMMA StoreMoves ==
    ASSUME GateAssumption, Types, NEW h \in Handler, Part(h), At(h, "check"),
           NEW w \in {"plain", "emergency", "override"}, Store(h, w),
           UNCHANGED <<policyVars, logs, ashar, stamp>>,
           job[h].dir = "OUT" =>
             /\ w # "override" => logs["IN"] # None
             /\ w = "plain" => Round(job[h].at - logs["IN"].at) >= MinStay
             /\ w = "emergency" => Covered(job[h].at)
             /\ Student /\ AsharRequired /\ w = "plain" => ashar # None
    PROVE  /\ job' \in [Handler -> Job]
           /\ \A g \in Handler \ {h} : job'[g] = job[g]
           /\ Part(h)'
<1> DEFINE j == [job[h] EXCEPT !.pc = "insert", !.why = w]
<1>1. job[h] \in Job /\ job \in [Handler -> Job]
  BY Fields DEF Types, TypeOK
<1>2. /\ j \in Job /\ j.pc = "insert" /\ j.why = w /\ j.dir = job[h].dir
      /\ j.scan = job[h].scan /\ j.at = job[h].at /\ j.reply = job[h].reply
  BY <1>1 DEF Job
<1>3. job' = [job EXCEPT ![h] = j]
  BY DEF Store
<1> HIDE DEF j
<1>4. job' \in [Handler -> Job] /\ job'[h] = j /\ \A g \in Handler \ {h} : job'[g] = job[g]
  BY <1>1, <1>2, <1>3
<1>5. Served(h)' /\ Timed(h)' /\ Praying(h)'
  BY <1>2, <1>4 DEF Part, Served, Timed, Clocked, Praying, At
<1>6. Steered(h)'
  BY <1>2, <1>4 DEF Part, Steered, At, Sees
<1>7. Founded(h)'
  BY <1>2, <1>4 DEF Founded, Covered, policyVars
<1>8. Backed(h)'
  BY <1>2, <1>4 DEF Part, Backed, Row, Has, Clocked
<1>9. Apart(h)'
  BY <1>2, <1>4 DEF Part, Apart, Calm, Clocked, At, policyVars
<1> QED
  BY <1>4, <1>5, <1>6, <1>7, <1>8, <1>9 DEF Part

-----------------------------------------------------------------------------
(* The handlers, one step after the other.                                  *)

LEMMA DecideKeeps ==
    ASSUME GateAssumption, IInv, NEW h \in Handler, Decide(h), UNCHANGED stamp
    PROVE  IInv'
<1> DEFINE s == job[h].scan
           k == Kind[s]
<1>1. /\ Types /\ Records /\ Part(h) /\ At(h, "decide") /\ Served(h) /\ ~At(h, "idle")
      /\ UNCHANGED <<policyVars, logs, ashar, flags, faults, stamp>>
  BY DEF IInv, Part, Decide, At
<1>2. /\ s \in Scan /\ flags' \subseteq FlagType /\ faults' \in Nat
      /\ \A r \in Scan : stamp[r] # None => stamp'[r] # None
  BY <1>1 DEF Served, Types, TypeOK
<1>3. Clocked(s) => job[h].at = stamp[s]
  BY <1>1 DEF Part, Timed, At
<1>4. ASSUME NEW r \in Reply, Answer(h, r),
             r = "ok" => \A x \in Scan : x = job[h].scan => Row(x)'
      PROVE  IInv'
  BY <1>1, <1>2, <1>4, AnswerMoves, HandlerStep
<1>5. ASSUME k = "GATE_IN", Sees(h, "IN"), Answer(h, "ok") PROVE IInv'
  <2>1. ASSUME NEW x \in Scan, x = job[h].scan PROVE Row(x)'
    BY <1>1, <1>3, <1>5, <2>1, Fields DEF Row, Has, Clocked, Sees, Dir, QrGate, GateAssumption
  <2> QED
    BY <1>4, <1>5, <2>1 DEF Reply
<1>6. ASSUME k \in {"GATE_OUT", "GERBANG"}, Sees(h, "IN"), Sees(h, "OUT") \/ k = "GERBANG",
             Answer(h, "ok")
      PROVE  IInv'
  <2>1. ASSUME NEW x \in Scan, x = job[h].scan PROVE Row(x)'
    BY <1>1, <1>3, <1>6, <2>1, Fields DEF Row, Has, Clocked, Sees, Dir, QrGate
  <2> QED
    BY <1>4, <1>6, <2>1 DEF Reply
<1>7. ASSUME Answer(h, "reject") PROVE IInv'
  BY <1>4, <1>7 DEF Reply
<1>8. ASSUME k \in {"GATE_IN", "GERBANG"}, Go(h, "IN") PROVE IInv'
  <2>1. k \in QrGate /\ k # "GATE_OUT" /\ "IN" \in Dir
    BY <1>8 DEF QrGate, Dir
  <2>2. /\ job' \in [Handler -> Job] /\ Part(h)'
        /\ \A g \in Handler \ {h} : job'[g] = job[g]
    BY <1>1, <1>8, <2>1, GoMoves
  <2> QED
    BY <1>1, <1>2, <2>2, HandlerStep
<1>9. ASSUME k \in {"GATE_OUT", "GERBANG"}, Sees(h, "IN"), ~TooSoon(h), Go(h, "OUT") PROVE IInv'
  <2>1. k \in QrGate /\ k # "GATE_IN" /\ "OUT" \in Dir
    BY <1>9 DEF QrGate, Dir
  <2>2. /\ job' \in [Handler -> Job] /\ Part(h)'
        /\ \A g \in Handler \ {h} : job'[g] = job[g]
    BY <1>1, <1>9, <2>1, GoMoves
  <2> QED
    BY <1>1, <1>2, <2>2, HandlerStep
<1> QED
  BY <1>5, <1>6, <1>7, <1>8, <1>9 DEF Decide

LEMMA CheckKeeps ==
    ASSUME GateAssumption, IInv, NEW h \in Handler, Check(h), UNCHANGED stamp
    PROVE  IInv'
<1>1. /\ Types /\ Records /\ Part(h) /\ At(h, "check") /\ Served(h) /\ ~At(h, "idle")
      /\ UNCHANGED <<policyVars, logs, ashar, faults, stamp>>
  BY DEF IInv, Part, Check, At
<1>2. /\ job[h].scan \in Scan /\ faults' \in Nat /\ flags \subseteq FlagType
      /\ \A r \in Scan : stamp[r] # None => stamp'[r] # None
      /\ job[h].dir \in Dir
  BY <1>1 DEF Served, Types, TypeOK, Part, Steered
<1>3. ASSUME Answer(h, "reject"), flags' \subseteq FlagType PROVE IInv'
  <2>1. "reject" \in Reply /\ "reject" # "ok"
    BY DEF Reply
  <2> QED
    BY <1>1, <1>2, <1>3, <2>1, AnswerMoves, HandlerStep
<1>4. ASSUME NEW f \in FlagType, Flagged(h, f) PROVE IInv'
  BY <1>2, <1>3, <1>4 DEF Flagged
<1>5. ASSUME NEW w \in {"plain", "emergency", "override"}, Store(h, w), UNCHANGED flags,
             job[h].dir = "OUT" =>
               /\ w # "override" => logs["IN"] # None
               /\ w = "plain" => Round(job[h].at - logs["IN"].at) >= MinStay
               /\ w = "emergency" => Covered(job[h].at)
               /\ Student /\ AsharRequired /\ w = "plain" => ashar # None
      PROVE  IInv'
  BY <1>1, <1>2, <1>5, StoreMoves, HandlerStep
<1>6. ASSUME logs["IN"] # None, CheckStay(h), job[h].dir = "OUT" PROVE IInv'
  <2> DEFINE t == job[h].at
             stays == Round(t - logs["IN"].at) >= MinStay
  <2>1. CASE Flagged(h, "OUT_TERLALU_CEPAT")
    BY <1>4, <2>1 DEF FlagType
  <2>2. CASE Answer(h, "reject") /\ UNCHANGED flags
    BY <1>2, <1>3, <2>2
  <2>3. CASE Store(h, "override") /\ UNCHANGED flags
    BY <1>5, <2>3
  <2>4. CASE EmergencyAt(t) /\ Store(h, "emergency") /\ UNCHANGED flags
    <3>1. Covered(t)
      BY <2>4 DEF EmergencyAt, Covered
    <3> QED
      BY <1>5, <1>6, <2>4, <3>1
  <2>5. CASE /\ stays /\ ~(Student /\ AsharRequired /\ ashar = None)
             /\ Store(h, "plain") /\ UNCHANGED flags
    BY <1>5, <1>6, <2>5
  <2> HIDE DEF stays, t
  <2>6. \/ Flagged(h, "OUT_TERLALU_CEPAT")
        \/ Answer(h, "reject") /\ UNCHANGED flags
        \/ Store(h, "override") /\ UNCHANGED flags
        \/ EmergencyAt(t) /\ Store(h, "emergency") /\ UNCHANGED flags
        \/ /\ stays /\ ~(Student /\ AsharRequired /\ ashar = None)
           /\ Store(h, "plain") /\ UNCHANGED flags
    BY <1>6 DEF CheckStay, stays, t
  <2> QED
    BY <2>1, <2>2, <2>3, <2>4, <2>5, <2>6
<1>7. \/ Answer(h, "reject") /\ UNCHANGED flags
      \/ \E f \in FlagType : Flagged(h, f)
      \/ job[h].dir = "IN" /\ Store(h, "plain") /\ UNCHANGED flags
      \/ Store(h, "override") /\ UNCHANGED flags
      \/ logs["IN"] # None /\ job[h].dir = "OUT" /\ CheckStay(h)
  <2>1. \A last \in IF LastDirs = {} THEN {None} ELSE LastDirs :
          last = "IN" => logs["IN"] # None
    BY DEF LastDirs, GateAssumption, Dir
  <2>2. {"SCAN_DUPLIKAT", "IN_BERULANG", "OUT_TANPA_IN"} \subseteq FlagType
    BY DEF FlagType
  <2> QED
    BY <2>1, <2>2 DEF Check
<1> QED
  BY <1>2, <1>3, <1>4, <1>5, <1>6, <1>7

LEMMA InsertKeeps ==
    ASSUME GateAssumption, IInv, NEW h \in Handler, Insert(h), UNCHANGED stamp
    PROVE  IInv'
<1> DEFINE s == job[h].scan
           k == Kind[s]
           d == job[h].dir
           row == [at |-> job[h].at, scan |-> s, why |-> job[h].why]
<1>1. /\ Types /\ Records /\ Part(h) /\ At(h, "insert") /\ Served(h) /\ ~At(h, "idle")
      /\ UNCHANGED <<policyVars, ashar, flags, faults, stamp>>
  BY DEF IInv, Part, Insert, At
<1>2. /\ s \in Scan /\ flags' \subseteq FlagType /\ faults' \in Nat
      /\ \A r \in Scan : stamp[r] # None => stamp'[r] # None
      /\ d \in Dir /\ k \in Kinds
  BY <1>1, Fields DEF Served, Types, TypeOK, Part, Steered
<1>3. CASE SameEvent(h) /\ Answer(h, "ok") /\ UNCHANGED logs
  <2>1. k \in Direct
    BY <1>3 DEF SameEvent, GateAssumption
  <2>2. PICK e \in Dir : logs[e] # None /\ logs[e].scan = s
    BY <1>3 DEF SameEvent
  <2>3. RowOf(e)
    BY <1>1 DEF Records
  <2>4. ASSUME NEW x \in Scan, x = job[h].scan PROVE Row(x)'
    BY <1>3, <2>1, <2>2, <2>3, <2>4 DEF RowOf, Row, Has, Clocked, Direct, QrGate, Dir
  <2>5. "ok" \in Reply
    BY DEF Reply
  <2>6. /\ job' \in [Handler -> Job] /\ Part(h)'
        /\ \A g \in Handler \ {h} : job'[g] = job[g]
    BY <1>1, <1>2, <1>3, <2>4, <2>5, AnswerMoves
  <2> QED
    BY <1>1, <1>2, <1>3, <2>6, HandlerStep
<1>4. CASE Answer(h, "reject") /\ UNCHANGED logs
  <2>1. "reject" \in Reply /\ "reject" # "ok"
    BY DEF Reply
  <2>2. /\ job' \in [Handler -> Job] /\ Part(h)'
        /\ \A g \in Handler \ {h} : job'[g] = job[g]
    BY <1>1, <1>2, <1>4, <2>1, AnswerMoves
  <2> QED
    BY <1>1, <1>2, <1>4, <2>2, HandlerStep
<1>5. CASE logs[d] = None /\ logs' = [logs EXCEPT ![d] = row] /\ Answer(h, "ok")
  <2>1. /\ row \in Log /\ row # None
        /\ row.at = job[h].at /\ row.scan = s /\ row.why = job[h].why
    <3>1. row \in Log
      BY <1>1, <1>2, Fields DEF Log, Job
    <3> QED
      BY <3>1 DEF GateAssumption
  <2> HIDE DEF row
  <2>2. /\ logs' \in [Dir -> Log \cup {None}] /\ logs'[d] = row
        /\ \A e \in Dir \ {d} : logs'[e] = logs[e]
    BY <1>1, <1>2, <1>5, <2>1 DEF Types, TypeOK
  <2>3. Grew
    BY <1>1, <1>2, <1>5, <2>2 DEF Grew, Covered, policyVars
  <2>4. /\ Clocked(s) => job[h].at = stamp[s]
        /\ k \in {"IN", "GATE_IN"} => d = "IN"
        /\ k \in {"OUT", "GATE_OUT"} => d = "OUT"
        /\ k = "GERBANG" /\ d = "OUT" => Sees(h, "IN")
        /\ k # "MUSHOLA"
        /\ \A e \in Dir : RowOf(e)
    BY <1>1 DEF Part, Timed, Steered, At, Records
  <2>5. job[h].at \in Nat /\ \A e \in Dir : logs[e] # None => logs[e].at \in Nat
    BY <1>1, Fields
  <2>6. ASSUME NEW x \in Scan, x = job[h].scan PROVE Row(x)'
    BY <1>1, <1>2, <2>1, <2>2, <2>4, <2>5, <2>6 DEF Row, Has, Clocked, Sees, QrGate, Direct, Dir
  <2>7. OutJustified'
    <3>1. CASE d = "OUT"
      <4>1. job[h].why \in {"plain", "emergency", "override"} /\ logs'["IN"] = logs["IN"]
        BY <1>1, <2>2, <3>1, Fields DEF Job, Dir
      <4> QED
        BY <1>1, <2>1, <2>2, <3>1, <4>1 DEF Part, Founded, Covered, OutJustified, policyVars
    <3>2. CASE d = "IN"
      BY <1>1, <1>5, <2>2, <3>2 DEF Records, OutJustified, Dir
    <3> QED
      BY <1>2, <3>1, <3>2 DEF Dir
  <2>8. AsharOnRecord'
    <3>1. CASE d = "OUT"
      BY <1>1, <2>1, <2>2, <3>1 DEF Part, Founded, AsharOnRecord
    <3>2. CASE d = "IN"
      BY <1>1, <2>2, <3>2 DEF Records, AsharOnRecord, Dir
    <3> QED
      BY <1>2, <3>1, <3>2 DEF Dir
  <2>9. ASSUME NEW e \in Dir PROVE RowOf(e)'
    <3>1. CASE e = d
      BY <1>1, <1>2, <2>1, <2>2, <2>4, <3>1 DEF RowOf, Clocked, Sees, Kinds, Direct, QrGate, Dir
    <3>2. CASE e # d
      <4>1. RowOf(e) /\ logs'[e] = logs[e] /\ (logs["IN"] # None => logs'["IN"] # None)
        BY <2>2, <2>3, <2>4, <3>2 DEF Grew, Dir
      <4> QED
        BY <1>1, <4>1 DEF RowOf, Clocked
    <3> QED
      BY <3>1, <3>2
  <2>10. (Calm => CountsOnce)'
    <3> SUFFICES ASSUME Calm, logs'["IN"] # None, logs'["OUT"] # None
                 PROVE  logs'["IN"].scan # logs'["OUT"].scan
      BY <1>1 DEF CountsOnce, Calm, Clocked, policyVars
    <3>1. RowOf("IN") /\ RowOf("OUT")
      BY <2>4 DEF Dir
    <3>2. CASE d = "OUT"
      <4>1. logs'["IN"] = logs["IN"] /\ logs["IN"] # None
        BY <2>2, <3>2 DEF Dir
      <4>2. k = "GERBANG" => logs["IN"].scan # s
        BY <1>1, <3>2 DEF Part, Apart
      <4>3. logs["IN"].scan = s => k = "GERBANG"
        BY <2>4, <3>1, <3>2, <4>1 DEF RowOf
      <4> QED
        BY <2>1, <2>2, <3>2, <4>1, <4>2, <4>3 DEF Dir
    <3>3. CASE d = "IN"
      <4>1. logs'["OUT"] = logs["OUT"] /\ logs["OUT"] # None
        BY <2>2, <3>3 DEF Dir
      <4>2. logs["OUT"].scan # s
        BY <1>5, <2>4, <3>1, <3>3, <4>1 DEF RowOf
      <4> QED
        BY <2>1, <2>2, <3>3, <4>1, <4>2 DEF Dir
    <3> QED
      BY <1>2, <3>2, <3>3 DEF Dir
  <2>11. Records'
    BY <2>7, <2>8, <2>9, <2>10 DEF Records
  <2>12. "ok" \in Reply
    BY DEF Reply
  <2>13. /\ job' \in [Handler -> Job] /\ Part(h)'
         /\ \A g \in Handler \ {h} : job'[g] = job[g]
    BY <1>1, <1>2, <1>5, <2>6, <2>12, AnswerMoves
  <2>14. Types'
    BY <1>1, <1>2, <2>2, <2>13 DEF Types, TypeOK, policyVars
  <2>15. \A g \in Handler \ {h} : Part(g)'
    BY <1>1, <2>3, <2>13, PartKept DEF IInv
  <2> QED
    BY <2>11, <2>13, <2>14, <2>15 DEF IInv
<1> QED
  BY <1>3, <1>4, <1>5 DEF Insert

LEMMA PrayerReadKeeps ==
    ASSUME GateAssumption, IInv, NEW h \in Handler, PrayerRead(h), UNCHANGED stamp
    PROVE  IInv'
<1> DEFINE s == job[h].scan
<1>1. /\ Types /\ Records /\ Part(h) /\ At(h, "prayer") /\ Served(h) /\ ~At(h, "idle")
      /\ UNCHANGED <<policyVars, logs, ashar, flags, faults, stamp>>
  BY DEF IInv, Part, PrayerRead, At
<1>2. /\ s \in Scan /\ flags' \subseteq FlagType /\ faults' \in Nat
      /\ \A r \in Scan : stamp[r] # None => stamp'[r] # None
      /\ Kind[s] = "MUSHOLA" /\ {"ok", "reject"} \subseteq Reply
  BY <1>1 DEF Served, Types, TypeOK, Part, Praying, Reply
<1>3. CASE Answer(h, "reject")
  BY <1>1, <1>2, <1>3, AnswerMoves, HandlerStep
<1>4. CASE ashar # None /\ Answer(h, "ok")
  <2>1. ASSUME NEW x \in Scan, x = job[h].scan PROVE Row(x)'
    BY <1>1, <1>2, <1>4, <2>1 DEF Row
  <2> QED
    BY <1>1, <1>2, <1>4, <2>1, AnswerMoves, HandlerStep
<1>5. CASE job' = [job EXCEPT ![h].pc = "pray"]
  <2> DEFINE j == [job[h] EXCEPT !.pc = "pray"]
  <2>1. job[h] \in Job /\ job \in [Handler -> Job]
    BY <1>1, Fields DEF Types, TypeOK
  <2>2. /\ j \in Job /\ j.pc = "pray" /\ j.scan = s /\ j.at = job[h].at
        /\ j.reply = job[h].reply
    BY <2>1 DEF Job
  <2>3. job' = [job EXCEPT ![h] = j]
    BY <1>5
  <2> HIDE DEF j
  <2>4. job' \in [Handler -> Job] /\ job'[h] = j /\ \A g \in Handler \ {h} : job'[g] = job[g]
    BY <2>1, <2>2, <2>3
  <2>5. Part(h)'
    BY <1>1, <1>2, <2>2, <2>4
       DEF Part, Served, Timed, Clocked, Steered, Praying, Founded, Backed, Row, Has, Apart, At
  <2> QED
    BY <1>1, <1>2, <2>4, <2>5, HandlerStep
<1> QED
  BY <1>1, <1>3, <1>4, <1>5 DEF PrayerRead

LEMMA PrayerInsertKeeps ==
    ASSUME GateAssumption, IInv, NEW h \in Handler, PrayerInsert(h), UNCHANGED stamp
    PROVE  IInv'
<1> DEFINE s == job[h].scan
<1>1. /\ Types /\ Records /\ Part(h) /\ At(h, "pray") /\ Served(h) /\ ~At(h, "idle")
      /\ UNCHANGED <<policyVars, logs, flags, faults, stamp>>
  BY DEF IInv, Part, PrayerInsert, At
<1>2. /\ s \in Scan /\ flags' \subseteq FlagType /\ faults' \in Nat
      /\ \A r \in Scan : stamp[r] # None => stamp'[r] # None
      /\ Kind[s] = "MUSHOLA" /\ {"ok", "retry"} \subseteq Reply
  BY <1>1 DEF Served, Types, TypeOK, Part, Praying, Reply
<1>3. CASE Answer(h, "retry") /\ UNCHANGED ashar
  BY <1>1, <1>2, <1>3, AnswerMoves, HandlerStep
<1>4. CASE ashar' = job[h].at /\ Answer(h, "ok")
  <2>1. ashar' \in 0 .. (MaxTime + Skew) /\ ashar' # None
    BY <1>1, <1>4, Fields DEF GateAssumption
  <2>2. ASSUME NEW x \in Scan, x = job[h].scan PROVE Row(x)'
    BY <1>2, <2>1, <2>2 DEF Row
  <2>3. /\ job' \in [Handler -> Job] /\ Part(h)'
        /\ \A g \in Handler \ {h} : job'[g] = job[g]
    BY <1>1, <1>2, <1>4, <2>2, AnswerMoves
  <2>4. Grew
    BY <1>1, <2>1 DEF Grew, Covered, policyVars
  <2>5. Types'
    BY <1>1, <1>2, <2>1, <2>3 DEF Types, TypeOK, policyVars
  <2>6. Records'
    BY <1>1, <2>4, RecordsKept
  <2>7. \A g \in Handler \ {h} : Part(g)'
    BY <1>1, <2>3, <2>4, PartKept DEF IInv
  <2> QED
    BY <2>3, <2>5, <2>6, <2>7 DEF IInv
<1> QED
  BY <1>3, <1>4 DEF PrayerInsert

LEMMA FaultKeeps ==
    ASSUME GateAssumption, IInv, NEW h \in Handler, Fault(h), UNCHANGED stamp
    PROVE  IInv'
<1>1. /\ Types /\ Part(h) /\ Served(h) /\ ~At(h, "idle") /\ Answer(h, "retry")
      /\ UNCHANGED <<policyVars, logs, ashar, flags, stamp>>
  BY DEF IInv, Part, Fault, At
<1>2. /\ flags' \subseteq FlagType /\ faults' \in Nat
      /\ \A r \in Scan : stamp[r] # None => stamp'[r] # None
      /\ "retry" \in Reply /\ "retry" # "ok"
  BY <1>1 DEF Fault, Types, TypeOK, Reply
<1> QED
  BY <1>1, <1>2, AnswerMoves, HandlerStep

LEMMA RespondKeeps ==
    ASSUME GateAssumption, IInv, NEW h \in Handler, Respond(h), UNCHANGED stamp
    PROVE  IInv'
<1>1. /\ Types /\ job' = [job EXCEPT ![h] = Idle]
      /\ UNCHANGED <<policyVars, logs, ashar, flags, faults, stamp>>
  BY DEF IInv, Respond
<1>2. Idle \in Job /\ Idle.pc = "idle" /\ Idle.reply = None
  BY <1>1, Fields DEF Idle, Job
<1>3. job' \in [Handler -> Job] /\ job'[h] = Idle /\ \A g \in Handler \ {h} : job'[g] = job[g]
  BY <1>1, <1>2 DEF Types, TypeOK
<1>4. None # "ok"
  BY DEF GateAssumption, Reply
<1>5. Part(h)'
  BY <1>2, <1>3, <1>4
     DEF Part, Served, Timed, Steered, Praying, Founded, Backed, Apart, At
<1>6. flags' \subseteq FlagType /\ faults' \in Nat
  BY <1>1 DEF Types, TypeOK
<1> QED
  BY <1>1, <1>3, <1>5, <1>6, HandlerStep

LEMMA ReceiveKeeps ==
    ASSUME GateAssumption, IInv, NEW h \in Handler, NEW s \in Scan,
           NEW t \in 0 .. (MaxTime + Skew), Receive(h, s, t),
           stamp' \in [Scan -> (0 .. (MaxTime + Skew)) \cup {None}],
           \A r \in Scan : stamp[r] # None => stamp'[r] = stamp[r],
           Clocked(s) => stamp'[s] = t
    PROVE  IInv'
<1> DEFINE k      == Kind[s]
           known  == s \in HasEventId /\ \E d \in Dir : logs[d] # None /\ logs[d].scan = s
           timely == ~Clocked(s) \/ (t <= now + Skew /\ now - t <= MaxAge)
           pc     == CASE known \/ ~timely  -> "done"
                       [] k \in QrGate      -> "decide"
                       [] k = "MUSHOLA"     -> "prayer"
                       [] OTHER             -> "check"
           reply  == IF known THEN "ok" ELSE "reject"
           at     == IF Clocked(s) THEN t ELSE now
           dir    == IF k \in Direct THEN k ELSE None
           j      == IF pc = "done"
                     THEN [Idle EXCEPT !.pc = pc, !.scan = s, !.reply = reply]
                     ELSE [Idle EXCEPT !.pc = pc, !.scan = s, !.at = at, !.dir = dir]
<1>1. /\ Types /\ Records /\ At(h, "idle") /\ job' = [job EXCEPT ![h] = j]
      /\ UNCHANGED <<policyVars, logs, ashar, flags, faults>>
  BY DEF IInv, Receive
<1>2. k \in Kinds /\ None \notin Reply /\ (Clocked(s) => stamp'[s] # None)
  <2>1. t # None
    BY <1>1, Fields DEF GateAssumption
  <2> QED
    BY <1>1, <2>1, Fields DEF GateAssumption
<1>3. at \in 0 .. (MaxTime + Skew) /\ dir \in Dir \cup {None} /\ (Clocked(s) => at = stamp'[s])
  <2>1. now \in 0 .. (MaxTime + Skew)
    BY <1>1, Fields
  <2> QED
    BY <2>1 DEF Direct, Dir
<1>4. ASSUME NEW x \in Scan, x = s, known PROVE Row(x)'
  <2>1. k \in Direct
    BY <1>4 DEF GateAssumption
  <2>2. PICK e \in Dir : logs[e] # None /\ logs[e].scan = s
    BY <1>4
  <2>3. RowOf(e)
    BY <1>1 DEF Records
  <2> QED
    BY <1>1, <1>4, <2>1, <2>2, <2>3 DEF RowOf, Row, Has, Clocked, Direct, QrGate, Dir
<1>5. /\ pc \in {"done", "decide", "prayer", "check"}
      /\ pc = "decide" => k \in QrGate
      /\ pc = "prayer" => k = "MUSHOLA"
      /\ pc = "check" => k \in Direct
  BY <1>2 DEF Kinds
<1>6. reply \in Reply /\ (reply = "ok" => known)
  BY DEF Reply
<1>7. Idle \in Job
  BY <1>1, Fields DEF Idle, Job
<1> HIDE DEF known, timely, pc, reply, at, dir
<1>8. /\ j \in Job /\ j.pc = pc /\ j.scan = s
      /\ pc = "done" => j.reply = reply
      /\ pc # "done" => j.at = at /\ j.dir = dir /\ j.reply = None
  <2>1. CASE pc = "done"
    BY <1>5, <1>6, <1>7, <2>1 DEF Job
  <2>2. CASE pc # "done"
    <3>1. Idle.reply = None
      BY DEF Idle
    <3> QED
      BY <1>3, <1>5, <1>7, <2>2, <3>1 DEF Job
  <2> QED
    BY <2>1, <2>2
<1> HIDE DEF j
<1>9. job' \in [Handler -> Job] /\ job'[h] = j /\ \A g \in Handler \ {h} : job'[g] = job[g]
  BY <1>1, <1>8 DEF Types, TypeOK
<1>10. Served(h)' /\ Timed(h)' /\ Praying(h)' /\ Founded(h)'
  BY <1>2, <1>3, <1>5, <1>6, <1>8, <1>9 DEF Served, Timed, Clocked, Praying, Founded, At
<1>11. Steered(h)' /\ Apart(h)'
  <2>1. dir = IF k \in Direct THEN k ELSE None
    BY DEF dir
  <2> QED
    BY <1>5, <1>8, <1>9, <2>1 DEF Steered, Apart, At, Direct, Dir
<1>12. Backed(h)'
  BY <1>2, <1>4, <1>6, <1>8, <1>9 DEF Backed, Reply
<1>13. Grew
  BY <1>1 DEF Grew, Covered, policyVars
<1>14. Types'
  BY <1>1, <1>9 DEF Types, TypeOK, policyVars
<1>15. Records'
  BY <1>1, <1>13, RecordsKept
<1>16. \A g \in Handler \ {h} : Part(g)'
  BY <1>1, <1>9, <1>13, PartKept DEF IInv
<1> QED
  BY <1>10, <1>11, <1>12, <1>14, <1>15, <1>16 DEF IInv, Part

LEMMA ArriveKeeps ==
    ASSUME GateAssumption, IInv, NEW h \in Handler, Arrive(h)
    PROVE  IInv'
<1>1. Types /\ now \in 0 .. (MaxTime + Skew) /\ MaxTime \in Nat /\ Skew \in Nat
  BY Fields DEF IInv, GateAssumption
<1>2. ASSUME NEW s \in Scan, ~Clocked(s), Receive(h, s, now), UNCHANGED stamp
      PROVE  IInv'
  BY <1>1, <1>2, ReceiveKeeps DEF Types, TypeOK
<1>3. ASSUME NEW s \in Scan, NEW t \in 0 .. (now + Skew), stamp[s] \in {None, t},
             stamp' = [stamp EXCEPT ![s] = t], Receive(h, s, t)
      PROVE  IInv'
  <2>1. t \in 0 .. (MaxTime + Skew)
    BY <1>1 DEF Types, TypeOK, Time
  <2>2. /\ stamp' \in [Scan -> (0 .. (MaxTime + Skew)) \cup {None}] /\ stamp'[s] = t
        /\ \A r \in Scan : stamp[r] # None => stamp'[r] = stamp[r]
    BY <1>1, <1>3, <2>1 DEF Types, TypeOK
  <2> QED
    BY <1>3, <2>1, <2>2, ReceiveKeeps
<1> QED
  BY <1>2, <1>3 DEF Arrive

\* A deactivation ends an emergency's effect from a moment on, and a later one
\* begins with hours of its own: what was covered stays covered.
LEMMA EnvironmentMoves ==
    ASSUME GateAssumption, Types, Environment
    PROVE  /\ now' \in Time /\ leaving' \in Time \cup {None} /\ override' \in BOOLEAN
           /\ emergency' \subseteq Emergency
           /\ \A t \in Nat : Covered(t) => Covered(t)'
           /\ emergency' = {} => emergency = {}
<1>0. /\ now \in Time /\ leaving \in Time \cup {None} /\ override \in BOOLEAN
      /\ emergency \subseteq Emergency /\ MaxTime \in Nat
  BY DEF Types, TypeOK, GateAssumption
<1>1. CASE Tick
  BY <1>0, <1>1 DEF Tick, Time, Covered
<1>2. CASE ActivateEmergency
  <2>1. PICK until \in (now + 1) .. MaxTime :
          emergency' = emergency \cup {[from |-> now, until |-> until, off |-> None]}
    BY <1>2 DEF ActivateEmergency
  <2>2. until \in Nat
    BY <1>0 DEF Time
  <2>3. emergency' \subseteq Emergency
    BY <1>0, <2>1, <2>2 DEF Emergency
  <2> QED
    BY <1>0, <1>2, <2>1, <2>3 DEF ActivateEmergency, Covered
<1>3. CASE AskDeactivate
  BY <1>0, <1>3 DEF AskDeactivate, Covered
<1>4. CASE DeactivateEmergency
  <2>1. PICK e \in emergency :
          emergency' = IF e.off = None /\ e.from <= leaving /\ leaving < e.until
                       THEN (emergency \ {e}) \cup {[e EXCEPT !.off = leaving]}
                       ELSE emergency
    BY <1>4 DEF DeactivateEmergency
  <2> DEFINE ended == [e EXCEPT !.off = leaving]
  <2>2. ended \in Emergency /\ ended.from = e.from /\ ended.until = e.until
    BY <1>0, <1>4 DEF Emergency, DeactivateEmergency
  <2> HIDE DEF ended
  <2>3. emergency' = (emergency \ {e}) \cup {ended} \/ emergency' = emergency
    BY <2>1 DEF ended
  <2>4. emergency' \subseteq Emergency /\ (emergency' = {} => emergency = {})
    BY <1>0, <2>2, <2>3
  <2>5. ASSUME NEW t \in Nat, Covered(t) PROVE Covered(t)'
    <3>1. PICK f \in emergency : f.from <= t /\ t < f.until
      BY <2>5 DEF Covered
    <3>2. \E g \in emergency' : g.from <= t /\ t < g.until
      BY <2>2, <2>3, <3>1
    <3> QED
      BY <3>2 DEF Covered
  <2> QED
    BY <1>0, <1>4, <2>4, <2>5 DEF DeactivateEmergency
<1>5. CASE SetOverride
  BY <1>0, <1>5 DEF SetOverride, Covered
<1> QED
  BY <1>1, <1>2, <1>3, <1>4, <1>5 DEF Environment

LEMMA EnvironmentKeeps ==
    ASSUME GateAssumption, IInv, Environment, UNCHANGED stamp
    PROVE  IInv'
<1>1. Types /\ Records /\ UNCHANGED <<logs, ashar, flags, job, faults, stamp>>
  BY DEF IInv, Environment, Tick, ActivateEmergency, AskDeactivate, DeactivateEmergency,
         SetOverride
<1>2. /\ now' \in Time /\ leaving' \in Time \cup {None} /\ override' \in BOOLEAN
      /\ emergency' \subseteq Emergency
      /\ \A t \in Nat : Covered(t) => Covered(t)'
      /\ emergency' = {} => emergency = {}
  BY <1>1, EnvironmentMoves
<1>3. Grew
  BY <1>1, <1>2 DEF Grew
<1>4. Types'
  BY <1>1, <1>2 DEF Types, TypeOK, Emergency
<1>5. Records'
  BY <1>1, <1>3, RecordsKept
<1>6. \A g \in Handler : Part(g)'
  BY <1>1, <1>3, PartKept DEF IInv
<1> QED
  BY <1>4, <1>5, <1>6 DEF IInv

-----------------------------------------------------------------------------
(* The invariant, and what follows from it.                                 *)

LEMMA InitIInv == ASSUME GateAssumption, Init PROVE IInv
<1>1. /\ MaxTime \in Nat /\ Skew \in Nat /\ 0 \in 0 .. (MaxTime + Skew) /\ 0 \in Time
      /\ None # "ok"
  BY DEF GateAssumption, Time, Reply
<1>2. Idle \in Job /\ Idle.pc = "idle" /\ Idle.reply = None
  BY <1>1 DEF Idle, Job
<1>3. job \in [Handler -> Job] /\ \A h \in Handler : job[h] = Idle
  BY <1>2 DEF Init
<1>4. Types
  BY <1>1, <1>3 DEF Init, Types, TypeOK
<1>5. Records
  BY DEF Init, Records, OutJustified, AsharOnRecord, RowOf, CountsOnce, Dir
<1>6. ASSUME NEW h \in Handler PROVE Part(h)
  BY <1>1, <1>2, <1>3
     DEF Part, Served, Timed, Steered, Praying, Founded, Backed, Apart, At
<1> QED
  BY <1>4, <1>5, <1>6 DEF IInv

LEMMA StepIInv == ASSUME GateAssumption, IInv, [Next]_vars PROVE IInv'
<1>1. CASE Environment /\ UNCHANGED stamp
  BY <1>1, EnvironmentKeeps
<1>2. ASSUME NEW h \in Handler, Work(h), UNCHANGED stamp PROVE IInv'
  BY <1>2, DecideKeeps, CheckKeeps, InsertKeeps, PrayerReadKeeps, PrayerInsertKeeps DEF Work
<1>3. ASSUME NEW h \in Handler, Fault(h) \/ Respond(h), UNCHANGED stamp PROVE IInv'
  BY <1>3, FaultKeeps, RespondKeeps
<1>4. ASSUME NEW h \in Handler, Arrive(h) PROVE IInv'
  BY <1>4, ArriveKeeps
<1>5. CASE UNCHANGED vars
  <2>1. UNCHANGED <<policyVars, logs, ashar, flags, job, stamp, faults>>
    BY <1>5 DEF vars
  <2>2. Types'
    BY <2>1 DEF IInv, Types, TypeOK, policyVars
  <2>3. Grew
    BY <2>1 DEF Grew, Covered, policyVars
  <2>4. Records'
    BY <2>1, <2>3, RecordsKept DEF IInv
  <2>5. \A h \in Handler : Part(h)'
    BY <2>1, <2>3, PartKept DEF IInv
  <2> QED
    BY <2>2, <2>4, <2>5 DEF IInv
<1> QED
  BY <1>1, <1>2, <1>3, <1>4, <1>5 DEF Next

LEMMA StepGrew == ASSUME GateAssumption, IInv, [Next]_vars PROVE [Grew]_vars
<1> SUFFICES ASSUME Next PROVE Grew
  OBVIOUS
<1>1. CASE Environment /\ UNCHANGED stamp
  <2>1. UNCHANGED <<logs, ashar, stamp>>
    BY <1>1 DEF Environment, Tick, ActivateEmergency, AskDeactivate, DeactivateEmergency,
           SetOverride
  <2> QED
    BY <1>1, <2>1, EnvironmentMoves DEF Grew, IInv
<1>2. ASSUME NEW h \in Handler, UNCHANGED stamp,
             Decide(h) \/ Check(h) \/ PrayerRead(h) \/ Fault(h) \/ Respond(h)
      PROVE  Grew
  <2>1. UNCHANGED <<policyVars, logs, ashar, stamp>>
    BY <1>2 DEF Decide, Check, PrayerRead, Fault, Respond
  <2> QED
    BY <2>1 DEF Grew, Covered, policyVars
<1>3. ASSUME NEW h \in Handler, UNCHANGED stamp, Insert(h) PROVE Grew
  <2>1. UNCHANGED <<policyVars, ashar, stamp>>
    BY <1>3 DEF Insert
  <2>2. \A d \in Dir : logs[d] # None => logs'[d] = logs[d]
    BY <1>3 DEF Insert, IInv, Types, TypeOK
  <2> QED
    BY <2>1, <2>2 DEF Grew, Covered, policyVars
<1>4. ASSUME NEW h \in Handler, UNCHANGED stamp, PrayerInsert(h) PROVE Grew
  <2>1. UNCHANGED <<policyVars, logs, stamp>> /\ (ashar # None => ashar' = ashar)
    BY <1>4 DEF PrayerInsert
  <2> QED
    BY <2>1 DEF Grew, Covered, policyVars
<1>5. ASSUME NEW h \in Handler, Arrive(h) PROVE Grew
  <2>1. UNCHANGED <<policyVars, logs, ashar>>
    BY <1>5 DEF Arrive, Receive
  <2>2. \A s \in Scan : stamp[s] # None => stamp'[s] = stamp[s]
    BY <1>5 DEF Arrive, IInv, Types, TypeOK
  <2> QED
    BY <2>1, <2>2 DEF Grew, Covered, policyVars
<1> QED
  BY <1>1, <1>2, <1>3, <1>4, <1>5 DEF Next, Work

\* Whatever the handlers do between each other's reads and inserts, each of
\* them may rely on what it read (attendance-gate.service.ts, the scan handlers).
THEOREM Invariant == ASSUME GateAssumption PROVE Spec => []IInv
<1>1. Init => IInv
  BY InitIInv
<1>2. IInv /\ [Next]_vars => IInv'
  BY StepIInv
<1> QED
  BY <1>1, <1>2, PTL DEF Spec

\* The variables keep their types: times, rows, replies and flags.
THEOREM TypeCorrect == ASSUME GateAssumption PROVE Spec => []TypeOK
<1>1. IInv => TypeOK
  BY DEF IInv, Types
<1> QED
  BY <1>1, Invariant, PTL

\* Whoever is recorded as gone came first, and stayed the minimum or left under
\* the emergency mode of that moment, or an override says otherwise: for every
\* number of handlers, scans and emergencies (ensureGateScanAllowed reads
\* before recordGateScanWithoutPolicy inserts).
THEOREM GoneForAReason == ASSUME GateAssumption PROVE Spec => []OutJustified
<1>1. IInv => OutJustified
  BY DEF IInv, Records
<1> QED
  BY <1>1, Invariant, PTL

\* A student recorded as gone has prayed Ashar, or was excused
\* (ensureStudentAsharBeforeCheckout reads before the row is inserted).
THEOREM PrayedBeforeLeaving == ASSUME GateAssumption PROVE Spec => []AsharOnRecord
<1>1. IInv => AsharOnRecord
  BY DEF IInv, Records
<1> QED
  BY <1>1, Invariant, PTL

\* An answer ok means that the row the scan asked for is there: an Android
\* reader may delete the scan from its queue.
THEOREM NoScanLost == ASSUME GateAssumption PROVE Spec => []OkMeansRecorded
<1>1. ASSUME IInv PROVE OkMeansRecorded
  <2> SUFFICES ASSUME NEW h \in Handler, job[h].reply = "ok",
                      Kind[job[h].scan] \in Kinds, Row(job[h].scan)
               PROVE  LET s == job[h].scan
                          Had(d) == logs[d] # None /\ (Clocked(s) => logs[d].at <= stamp[s])
                      IN  CASE Kind[s] \in {"IN", "GATE_IN", "GERBANG"} -> Had("IN")
                            [] Kind[s] \in {"OUT", "GATE_OUT"}          -> Had("OUT")
                            [] Kind[s] = "MUSHOLA"                      -> ashar # None
    <3>1. ASSUME NEW h \in Handler, job[h].reply = "ok"
          PROVE  Kind[job[h].scan] \in Kinds /\ Row(job[h].scan)
      <4>1. Served(h) /\ Backed(h) /\ None # "ok"
        BY <1>1 DEF IInv, Part, GateAssumption, Reply
      <4> QED
        BY <1>1, <3>1, <4>1, Fields DEF Served, Backed, IInv
    <3> QED
      BY <3>1 DEF OkMeansRecorded
  <2> QED
    BY DEF Row, Has, Kinds, Direct, QrGate
<1> QED
  BY <1>1, Invariant, PTL

\* A row of the day, Ashar and a scan's time are never taken back, and what an
\* emergency covered stays covered: the reason why a decision made on an older
\* read is still right when its row is inserted.
THEOREM NothingTakenBack == ASSUME GateAssumption PROVE Spec => [][Grew]_vars
<1>1. IInv /\ [Next]_vars => [Grew]_vars
  BY StepGrew
<1> QED
  BY <1>1, Invariant, PTL DEF Spec

\* With no emergency mode, a minimum stay, and phones that say when a scan of
\* the single menu was made, no scan stands for both the arrival and the
\* departure of the day, however often it is sent (attendance-gate.service.ts,
\* recordQrAndroidGateScan).  Without clientScannedAt resolveQrReaderEventTime
\* times each copy anew, and the single menu may take a late one for a departure.
THEOREM ScansCountOnce ==
    ASSUME GateAssumption, MinStay >= 1, MaxEmergency = 0,
           \A s \in Scan : Kind[s] = "GERBANG" => s \notin Unstamped
    PROVE  Spec => []CountsOnce
<1> DEFINE Quiet == emergency = {}
<1>1. Init => Quiet
  BY DEF Init
<1>2. Quiet /\ [Next]_vars => Quiet'
  <2> SUFFICES ASSUME Quiet, [Next]_vars PROVE emergency' = {}
    OBVIOUS
  <2>1. ~ActivateEmergency
    <3>1. Cardinality({}) = 0
      BY FS_EmptySet
    <3> QED
      BY <3>1 DEF ActivateEmergency
  <2>2. ~DeactivateEmergency
    BY DEF DeactivateEmergency
  <2>3. Environment => emergency' = {}
    BY <2>1, <2>2 DEF Environment, Tick, AskDeactivate, SetOverride
  <2>4. \A h \in Handler : Work(h) \/ Fault(h) \/ Respond(h) => emergency' = {}
    BY DEF Work, Decide, Check, Insert, PrayerRead, PrayerInsert, Fault, Respond, policyVars
  <2>5. \A h \in Handler : Arrive(h) => emergency' = {}
    BY DEF Arrive, Receive, policyVars
  <2> QED
    BY <2>3, <2>4, <2>5 DEF Next, vars, policyVars
<1>3. IInv /\ Quiet => CountsOnce
  BY DEF IInv, Records, Calm, Clocked, Direct
<1> HIDE DEF Quiet
<1> QED
  BY <1>1, <1>2, <1>3, Invariant, PTL DEF Spec

-----------------------------------------------------------------------------
(* The day is a ledger.                                                     *)

\* Each step of a handler writes an entry of the ledger or none.
LEMMA StepLedger ==
    ASSUME GateAssumption, IInv, [Next]_vars
    PROVE  [Ledger!LedgerNext]_Ledger!ledgerVars
<1>1. ASSUME UNCHANGED <<logs, ashar, emergency>>
      PROVE  UNCHANGED Ledger!ledgerVars
  BY <1>1 DEF Ledger!ledgerVars, Arrival, Departure, Excused, Covered
<1>2. CASE Environment /\ UNCHANGED stamp
  <2>1. UNCHANGED <<logs, ashar>>
    BY <1>2 DEF Environment, Tick, ActivateEmergency, AskDeactivate, DeactivateEmergency,
           SetOverride
  <2>2. Excused \subseteq Excused'
    BY <1>2, EnvironmentMoves, Fields DEF IInv, Excused
  <2>3. Ledger!Declare
    BY <2>1, <2>2 DEF Ledger!Declare, Arrival, Departure
  <2> QED
    BY <2>3 DEF Ledger!LedgerNext
<1>3. ASSUME NEW h \in Handler,
             Decide(h) \/ Check(h) \/ PrayerRead(h) \/ Fault(h) \/ Respond(h) \/ Arrive(h)
      PROVE  UNCHANGED Ledger!ledgerVars
  <2>1. UNCHANGED <<logs, ashar, emergency>>
    BY <1>3 DEF Decide, Check, PrayerRead, Fault, Respond, Arrive, Receive, policyVars
  <2> QED
    BY <1>1, <2>1
<1>4. ASSUME NEW h \in Handler, PrayerInsert(h)
      PROVE  [Ledger!LedgerNext]_Ledger!ledgerVars
  <2>1. UNCHANGED <<logs, emergency>>
    BY <1>4 DEF PrayerInsert, policyVars
  <2>2. CASE UNCHANGED ashar
    BY <1>1, <2>1, <2>2
  <2>3. CASE ashar = None /\ ashar' = job[h].at
    <3>1. ashar' \in Nat
      BY <2>3, Fields DEF IInv
    <3>2. Ledger!Pray
      BY <2>1, <2>3, <3>1 DEF Ledger!Pray, Arrival, Departure, Excused, Covered
    <3> QED
      BY <3>2 DEF Ledger!LedgerNext
  <2> QED
    BY <1>4, <2>2, <2>3 DEF PrayerInsert
<1>5. ASSUME NEW h \in Handler, Insert(h)
      PROVE  [Ledger!LedgerNext]_Ledger!ledgerVars
  <2>1. UNCHANGED <<ashar, emergency>> /\ At(h, "insert")
    BY <1>5 DEF Insert, policyVars
  <2>2. CASE UNCHANGED logs
    BY <1>1, <2>1, <2>2
  <2>3. CASE logs[job[h].dir] = None /\ ~UNCHANGED logs
    <3> DEFINE d == job[h].dir
               row == [at |-> job[h].at, scan |-> job[h].scan, why |-> job[h].why]
    <3>1. /\ logs' = [logs EXCEPT ![d] = row] /\ d \in Dir /\ Founded(h)
          /\ logs \in [Dir -> Log \cup {None}]
      BY <1>5, <2>1, <2>3 DEF Insert, IInv, Part, Steered, Types, TypeOK
    <3>2. /\ job[h].at \in Nat /\ job[h].at \in 0 .. (MaxTime + Skew)
          /\ job[h].scan \in Scan /\ job[h].why \in {"plain", "emergency", "override"}
          /\ logs["IN"] # None => logs["IN"].at \in Nat
      BY <2>1, Fields DEF IInv, Part, Served, At, Job, Dir
    <3>3. row \in Log /\ row # None /\ row.at = job[h].at /\ row.why = job[h].why
      <4>1. row \in Log
        BY <3>2 DEF Log
      <4> QED
        BY <4>1 DEF GateAssumption
    <3> HIDE DEF row
    <3>4. CASE d = "IN"
      <4>1. Arrival = None /\ Arrival' \in Nat /\ UNCHANGED Departure
        BY <2>3, <3>1, <3>2, <3>3, <3>4 DEF Arrival, Departure, Dir
      <4>2. Ledger!Arrive
        BY <2>1, <4>1 DEF Ledger!Arrive, Excused, Covered
      <4> QED
        BY <4>2 DEF Ledger!LedgerNext
    <3>5. CASE d = "OUT"
      <4>1. /\ Departure = None /\ Departure' \in [at : Nat, why : {job[h].why}]
            /\ UNCHANGED Arrival /\ Departure'.at = job[h].at
        BY <2>3, <3>1, <3>2, <3>3, <3>5 DEF Arrival, Departure, Dir
      <4>2. Ledger!Depart(job[h].why)
        BY <2>1, <4>1 DEF Ledger!Depart, Excused, Covered
      <4>3. CASE job[h].why = "override"
        BY <4>2, <4>3 DEF Ledger!LedgerNext, Ledger!LeaveByOverride
      <4>4. CASE job[h].why # "override"
        <5>1. Arrival # None /\ Arrival = logs["IN"].at
          BY <2>1, <3>1, <3>2, <3>5, <4>4 DEF Founded, Arrival, GateAssumption
        <5>2. CASE job[h].why = "plain"
          <6>1. /\ (Departure'.at - Arrival + 1) \div 2 >= MinStay
                /\ Student /\ AsharRequired => ashar # None
            BY <2>1, <3>1, <3>5, <4>1, <5>1, <5>2 DEF Founded, Round
          <6>2. Ledger!Leave
            BY <4>2, <5>1, <5>2, <6>1 DEF Ledger!Leave
          <6> QED
            BY <6>2 DEF Ledger!LedgerNext
        <5>3. CASE job[h].why = "emergency"
          <6>1. Departure'.at \in Excused
            BY <2>1, <3>1, <3>2, <3>5, <4>1, <5>3 DEF Founded, Excused
          <6>2. Ledger!LeaveEarly
            BY <4>2, <5>1, <5>3, <6>1 DEF Ledger!LeaveEarly
          <6> QED
            BY <6>2 DEF Ledger!LedgerNext
        <5> QED
          BY <3>2, <4>4, <5>2, <5>3
      <4> QED
        BY <4>3, <4>4
    <3> QED
      BY <3>1, <3>4, <3>5 DEF Dir
  <2> QED
    BY <1>5, <2>2, <2>3 DEF Insert
<1>6. CASE UNCHANGED vars
  BY <1>1, <1>6 DEF vars, policyVars
<1> QED
  BY <1>2, <1>3, <1>4, <1>5, <1>6 DEF Next, Work

\* The handlers implement the ledger of a day: the arrival, the departure and
\* Ashar are written once each and stay, and the departure is written for a
\* reason that the ledger has at that moment, although each handler decided on
\* an older one (attendance-gate.service.ts, the scan handlers).
THEOREM LedgerImplemented == ASSUME GateAssumption PROVE Spec => Ledger!LedgerSpec
<1>1. Init => Ledger!LedgerInit
  BY DEF Init, Ledger!LedgerInit, GateAssumption, Dir, Arrival, Departure, Excused, Covered
<1>2. IInv /\ [Next]_vars => [Ledger!LedgerNext]_Ledger!ledgerVars
  BY StepLedger
<1> QED
  BY <1>1, <1>2, Invariant, PTL DEF Spec, Ledger!LedgerSpec
=============================================================================
