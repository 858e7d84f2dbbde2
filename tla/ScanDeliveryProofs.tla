------------------------- MODULE ScanDeliveryProofs -------------------------
(***************************************************************************)
(* Theorems about ScanDelivery, for any scans, handlers, deaths and        *)
(* failures: the link runs ReaderQueue's phone and GateServer's handlers   *)
(* so that what was proved of each carries over, and end to end no scan    *)
(* disappears and none counts twice.                                       *)
(*                                                                         *)
(* The invariants of the two components are not enough: a request is       *)
(* served by a handler of its own, for its own scan (Serves), and what a   *)
(* handler answered ok, the phone writes down as sent (Sent).              *)
(***************************************************************************)
EXTENDS MCGateDay, TLAPS

Queue == INSTANCE ReaderQueueProofs WITH NoScan <- None
Gate  == INSTANCE GateServerProofs WITH HasEventId <- {}, Unstamped <- {}

-----------------------------------------------------------------------------
(* The components as the link instantiates them are those of the proofs.    *)

LEMMA SameQueue ==
    /\ Phone!QueueAssumption => Queue!QueueAssumption
    /\ Phone!QueueInit => Queue!QueueInit
    /\ \A s \in Scan : Phone!Take(s) => Queue!Take(s)
    /\ \A r \in Phone!Answers : Phone!LiveAnswer(r) => r \in Queue!Answers /\ Queue!LiveAnswer(r)
    /\ \A r \in Phone!Answers : Phone!FlushFinal(r) => r \in Queue!Answers /\ Queue!FlushFinal(r)
    /\ Phone!LiveForgotten => Queue!LiveForgotten
    /\ Phone!StartFlush => Queue!StartFlush
    /\ Phone!TryNext => Queue!TryNext
    /\ Phone!FlushRetry => Queue!FlushRetry
    /\ Phone!WriteNote => Queue!WriteNote
    /\ Phone!Drop => Queue!Drop
    /\ Phone!FlushUnexpected => Queue!FlushUnexpected
    /\ Phone!FlushTrouble => Queue!FlushTrouble
    /\ Phone!Clear => Queue!Clear
    /\ Phone!ClearHistory => Queue!ClearHistory
    /\ Phone!Die => Queue!Die
    /\ Phone!Told = Queue!Told
<1> USE DEF Phone!flushVars, Queue!flushVars, Phone!storeVars, Queue!storeVars,
            Phone!Break, Queue!Break,
            Phone!Channel, Queue!Channel, Phone!Answers, Queue!Answers
<1>0. \A S : Phone!Cardinality(S) = Queue!Cardinality(S)
  BY DEF Phone!Cardinality, Queue!Cardinality
<1>t. \A h : Phone!Outcomes(h) = Queue!Outcomes(h)
  BY DEF Phone!Outcomes, Queue!Outcomes, Phone!Notes, Queue!Notes
<1>u. Phone!Told = Queue!Told
  BY <1>t DEF Phone!Told, Queue!Told
<1>v. \A h : Phone!Store(h) <=> Queue!Store(h)
  BY <1>t, <1>u DEF Phone!Store, Queue!Store
<1>w. \A s, e : Phone!Add(s, e) => Queue!Add(s, e)
  BY <1>v DEF Phone!Add, Queue!Add
<1>1. Phone!QueueAssumption => Queue!QueueAssumption
  BY DEF Phone!QueueAssumption, Queue!QueueAssumption, Phone!Notes, Queue!Notes
<1>2. Phone!QueueInit => Queue!QueueInit
  BY DEF Phone!QueueInit, Queue!QueueInit
<1>3. \A s \in Scan : Phone!Take(s) => Queue!Take(s)
  BY DEF Phone!Take, Queue!Take
<1>4. \A r \in Phone!Answers : Phone!LiveAnswer(r) => r \in Queue!Answers /\ Queue!LiveAnswer(r)
  BY <1>0, <1>w DEF Phone!LiveAnswer, Queue!LiveAnswer
<1>5. \A r \in Phone!Answers : Phone!FlushFinal(r) => r \in Queue!Answers /\ Queue!FlushFinal(r)
  BY DEF Phone!FlushFinal, Queue!FlushFinal
<1>6. Phone!LiveForgotten => Queue!LiveForgotten
  BY <1>0, <1>w DEF Phone!LiveForgotten, Queue!LiveForgotten
<1>7. Phone!StartFlush => Queue!StartFlush
  <2>1. Phone!Ready = Queue!Ready /\ (Phone!Flushing <=> Queue!Flushing)
    BY DEF Phone!Ready, Queue!Ready, Phone!Flushing, Queue!Flushing
  <2>2. \A S : Phone!OldestOf(S) = Queue!OldestOf(S)
    BY <1>0 DEF Phone!OldestOf, Queue!OldestOf
  <2> QED
    BY <2>1, <2>2 DEF Phone!StartFlush, Queue!StartFlush
<1>8. Phone!TryNext => Queue!TryNext
  BY DEF Phone!TryNext, Queue!TryNext, Phone!First, Queue!First
<1>9. Phone!FlushRetry => Queue!FlushRetry
  BY DEF Phone!FlushRetry, Queue!FlushRetry, Phone!Parked, Queue!Parked
<1>10. Phone!WriteNote => Queue!WriteNote
  BY <1>w DEF Phone!WriteNote, Queue!WriteNote, Phone!Notes, Queue!Notes
<1>11. Phone!Drop => Queue!Drop
  BY DEF Phone!Drop, Queue!Drop
<1>12. Phone!FlushTrouble => Queue!FlushTrouble
  BY <1>w DEF Phone!FlushTrouble, Queue!FlushTrouble, Phone!Flushing, Queue!Flushing
<1>13. Phone!Clear => Queue!Clear
  BY DEF Phone!Clear, Queue!Clear
<1>14. Phone!Die => Queue!Die
  BY DEF Phone!Die, Queue!Die
<1>15. Phone!FlushUnexpected => Queue!FlushUnexpected
  BY <1>w DEF Phone!FlushUnexpected, Queue!FlushUnexpected
<1>16. Phone!ClearHistory => Queue!ClearHistory
  BY <1>v DEF Phone!ClearHistory, Queue!ClearHistory
<1> QED
  BY <1>u, <1>1, <1>2, <1>3, <1>4, <1>5, <1>6, <1>7, <1>8, <1>9, <1>10, <1>11, <1>12, <1>13, <1>14,
     <1>15, <1>16

LEMMA SameGate ==
    /\ Server!GateAssumption => Gate!GateAssumption
    /\ Server!Init => Gate!Init
    /\ Server!Tick => Gate!Tick
    /\ \A h \in Handler : Server!Work(h) => Gate!Work(h)
    /\ \A h \in Handler : Server!Fault(h) => Gate!Fault(h)
    /\ \A h \in Handler : Server!Respond(h) => Gate!Respond(h)
    /\ \A h \in Handler, s \in Scan, t \in Nat : Server!Receive(h, s, t) => Gate!Receive(h, s, t)
    /\ Gate!TypeOK => Server!TypeOK
<1> USE DEF Server!Clocked, Gate!Clocked, Server!At, Gate!At, Server!Idle, Gate!Idle, Server!Answer, Gate!Answer,
            Server!policyVars, Gate!policyVars, Server!Dir, Gate!Dir,
            Server!Kinds, Gate!Kinds, Server!Direct, Gate!Direct, Server!QrGate, Gate!QrGate,
            Server!Reply, Gate!Reply, Server!Log, Gate!Log,
            Server!EmergencyAt, Gate!EmergencyAt, Server!Floor, Gate!Floor,
            Server!Round, Gate!Round, Server!Store, Gate!Store
<1>1. Server!GateAssumption => Gate!GateAssumption
  BY DEF Server!GateAssumption, Gate!GateAssumption
<1>2. Server!Init => Gate!Init
  BY DEF Server!Init, Gate!Init
<1>3. Server!Tick => Gate!Tick
  BY DEF Server!Tick, Gate!Tick
<1>4. ASSUME NEW h \in Handler, Server!Work(h) PROVE Gate!Work(h)
  <2>1. Server!Decide(h) => Gate!Decide(h)
    BY DEF Server!Decide, Gate!Decide, Server!Go, Gate!Go, Server!Sees, Gate!Sees,
           Server!TooSoon, Gate!TooSoon
  <2>2. Server!Check(h) => Gate!Check(h)
    BY DEF Server!Check, Gate!Check, Server!CheckStay, Gate!CheckStay,
           Server!Flagged, Gate!Flagged, Server!LastDirs, Gate!LastDirs
  <2>3. Server!Insert(h) => Gate!Insert(h)
    BY DEF Server!Insert, Gate!Insert, Server!SameEvent, Gate!SameEvent
  <2>4. Server!PrayerRead(h) => Gate!PrayerRead(h)
    BY DEF Server!PrayerRead, Gate!PrayerRead
  <2>5. Server!PrayerInsert(h) => Gate!PrayerInsert(h)
    BY DEF Server!PrayerInsert, Gate!PrayerInsert
  <2> QED
    BY <1>4, <2>1, <2>2, <2>3, <2>4, <2>5 DEF Server!Work, Gate!Work
<1>5. \A h \in Handler : Server!Fault(h) => Gate!Fault(h)
  BY DEF Server!Fault, Gate!Fault
<1>6. \A h \in Handler : Server!Respond(h) => Gate!Respond(h)
  BY DEF Server!Respond, Gate!Respond
<1>7. \A h \in Handler, s \in Scan, t \in Nat : Server!Receive(h, s, t) => Gate!Receive(h, s, t)
  BY DEF Server!Receive, Gate!Receive
<1>8. Gate!TypeOK => Server!TypeOK
  BY DEF Server!TypeOK, Gate!TypeOK, Server!Time, Gate!Time, Server!FlagType, Gate!FlagType,
         Server!Job, Gate!Job
<1> QED
  BY <1>1, <1>2, <1>3, <1>4, <1>5, <1>6, <1>7, <1>8

-----------------------------------------------------------------------------
(* The invariant of the link.                                               *)

\* Who has been taken has a time.
Stamped == \A s \in Scan : s \in taken <=> stamp[s] # None

\* A request is served by one handler, which works for no other.
Serves ==
    /\ serving \in [Phone!Channel -> Handler \cup {None}]
    /\ \A c \in Phone!Channel : serving[c] # None =>
         /\ out[c] # None
         /\ job[serving[c]].pc # "idle" /\ job[serving[c]].scan = out[c]
    /\ \A c, d \in Phone!Channel : serving[c] # None /\ serving[c] = serving[d] => c = d
    /\ late \subseteq taken

\* What the phone ever told was sent, or is about to, is on record.
Sent ==
    /\ \A s \in Scan : <<s, "SENT">> \in Queue!Told => Recorded(s)
    /\ note = "SENT" => Recorded(row)

IInv == /\ Queue!IInv /\ Gate!IInv
        /\ Stamped /\ Serves /\ Sent
        /\ emergency = {}

\* What no step of the link takes back.
Stays ==
    /\ \A d \in {"IN", "OUT"} : logs[d] # None => logs'[d] = logs[d]
    /\ ashar # None => ashar' # None
    /\ \A s \in taken : stamp'[s] = stamp[s]
    /\ taken \subseteq taken'

-----------------------------------------------------------------------------
\* Both components' assumptions hold, and a phone's scan is of a phone's kind.
LEMMA Assumed ==
    /\ Queue!QueueAssumption /\ Gate!GateAssumption
    /\ \A s \in Scan : Kind[s] \in {"GATE_IN", "GATE_OUT", "GERBANG", "MUSHOLA"}
    /\ None \notin Scan \cup {"SENT", "REJECTED", "ok", "reject", "retry"}
<1>1. Queue!QueueAssumption /\ Gate!GateAssumption
  BY DeliveryAssumption, SameQueue, SameGate
<1>2. \A s \in Scan : Kind[s] \in Gate!Kinds /\ Kind[s] \notin {"IN", "OUT"}
  BY <1>1, DeliveryAssumption DEF Gate!GateAssumption, Server!Direct
<1>3. \A s \in Scan : Kind[s] \in {"GATE_IN", "GATE_OUT", "GERBANG", "MUSHOLA"}
  BY <1>2 DEF Gate!Kinds, Gate!Direct, Gate!QrGate
<1> QED
  BY <1>1, <1>3 DEF Gate!GateAssumption, Gate!Reply, Queue!QueueAssumption, Queue!Notes

\* What the phone's types say of its requests and rows.
LEMMA PhoneFields ==
    ASSUME Queue!IInv
    PROVE  /\ taken \subseteq Scan /\ queue \subseteq taken
           /\ out \in [Phone!Channel -> Scan \cup {None}]
           /\ \A c \in Phone!Channel : out[c] # None => out[c] \in taken
           /\ "live" \in Phone!Channel /\ "flush" \in Phone!Channel
           /\ out["flush"] # None => row = out["flush"] /\ note = None
           /\ row \in taken \cup {None}
           /\ note # None => row # None
           /\ note \in {"SENT", "REJECTED", "SAVED", None}
           /\ \A p \in Queue!Told : p[1] \in taken
           /\ Queue!Told \subseteq Scan \X {"SENT", "REJECTED"}
<1> USE DEF Queue!IInv, Queue!QueueTypeOK, Queue!Channel, Phone!Channel, Queue!Notes
<1>1. \A c \in Phone!Channel : out[c] # None => out[c] \in taken
  BY Assumed DEF Queue!AtRow, Queue!Fresh
<1> QED
  BY <1>1 DEF Queue!AtRow, Queue!Fresh

\* A scan that is recorded stays recorded.
LEMMA RecordedStays ==
    ASSUME Stays, NEW s \in taken, s \in Scan, Recorded(s) PROVE Recorded(s)'
<1>1. Kind[s] \in {"GATE_IN", "GATE_OUT", "GERBANG", "MUSHOLA"}
  BY Assumed
<1>2. stamp'[s] = stamp[s]
  BY DEF Stays
<1> QED
  BY <1>1, <1>2 DEF Recorded, Stays

\* A step of the phone that hears no ok writes nothing new down as sent.
LEMMA SentStays ==
    ASSUME Queue!IInv, Sent, Stays,
           \A s \in Scan : <<s, "SENT">> \in Queue!Told' =>
               <<s, "SENT">> \in Queue!Told \/ (s = row /\ note = "SENT"),
           note' = "SENT" => note = "SENT" /\ row' = row
    PROVE  Sent'
<1>1. \A s \in Scan : <<s, "SENT">> \in Queue!Told => s \in taken
  BY PhoneFields
<1>2. row # None => row \in taken /\ row \in Scan
  BY PhoneFields
<1>3. ASSUME NEW s \in Scan, s \in taken,
             <<s, "SENT">> \in Queue!Told \/ (s = row /\ note = "SENT")
      PROVE  Recorded(s)'
  <2>1. Recorded(s)
    BY <1>3 DEF Sent, Recorded
  <2> QED
    BY <1>3, <2>1, RecordedStays
<1>4. ASSUME NEW s \in Scan, <<s, "SENT">> \in Queue!Told' PROVE Recorded(s)'
  <2>1. s = row /\ note = "SENT" => s \in taken
    BY <1>2, <1>4, PhoneFields, Assumed
  <2> QED
    BY <1>1, <1>3, <1>4, <2>1
<1>5. note' = "SENT" => row \in Scan /\ row \in taken
  BY <1>2, PhoneFields, Assumed
<1>6. ASSUME note' = "SENT" PROVE Recorded(row)'
  <2>1. \A r \in Scan : r = row => Recorded(r)'
    BY <1>3, <1>5, <1>6
  <2> QED
    BY <1>5, <1>6, <2>1 DEF Recorded
<1> QED
  BY <1>4, <1>6 DEF Sent

\* A step that leaves the served requests' jobs alone, and may end requests.
LEMMA ServesStays ==
    ASSUME Queue!IInv, Serves, Hangs, taken \subseteq taken',
           \A c \in Phone!Channel : out[c] # None => out'[c] \in {out[c], None},
           \A c \in Phone!Channel : serving'[c] # None => job'[serving[c]] = job[serving[c]]
    PROVE  Serves'
<1>1. \A c \in Phone!Channel :
        /\ serving'[c] \in {serving[c], None}
        /\ serving'[c] # None => serving'[c] = serving[c] /\ out'[c] = out[c]
  BY DEF Hangs, Ended, Serves
<1>2. serving' \in [Phone!Channel -> Handler \cup {None}]
  BY <1>1 DEF Hangs, Serves
<1>3. late' \subseteq taken'
  BY PhoneFields DEF Hangs, Ended, Serves
<1> QED
  BY <1>1, <1>2, <1>3 DEF Serves

-----------------------------------------------------------------------------
(* What the steps do to the components.                                     *)

\* A handler at work keeps its scan.
LEMMA WorkMoves ==
    ASSUME Gate!IInv, NEW h \in Handler, Gate!Work(h) \/ Gate!Fault(h)
    PROVE  /\ \A g \in Handler \ {h} : job'[g] = job[g]
           /\ job'[h].pc # "idle" /\ job'[h].scan = job[h].scan
           /\ emergency' = emergency
<1> DEFINE Moved == /\ \A g \in Handler \ {h} : job'[g] = job[g]
                    /\ job'[h].pc # "idle" /\ job'[h].scan = job[h].scan
<1>1. job \in [Handler -> Gate!Job] /\ job[h] \in Gate!Job
  BY DEF Gate!IInv, Gate!Types, Gate!TypeOK
<1>2. ASSUME NEW r \in {"ok", "reject", "retry"}, Gate!Answer(h, r) PROVE Moved
  BY <1>1, <1>2 DEF Gate!Answer, Gate!Idle
<1>3. ASSUME NEW d \in {"IN", "OUT"}, Gate!Go(h, d) PROVE Moved
  BY <1>1, <1>3 DEF Gate!Go, Gate!Job
<1>4. ASSUME NEW w \in {"plain", "emergency", "override"}, Gate!Store(h, w) PROVE Moved
  BY <1>1, <1>4 DEF Gate!Store, Gate!Job
<1>5. ASSUME job' = [job EXCEPT ![h].pc = "pray"] PROVE Moved
  BY <1>1, <1>5 DEF Gate!Job
<1> HIDE DEF Moved
<1>6. ASSUME Gate!Decide(h) PROVE Moved
  BY <1>2, <1>3, <1>6 DEF Gate!Decide
<1>7. ASSUME Gate!Check(h) PROVE Moved
  BY <1>2, <1>4, <1>7 DEF Gate!Check, Gate!CheckStay, Gate!Flagged
<1>8. ASSUME Gate!Insert(h) PROVE Moved
  BY <1>2, <1>8 DEF Gate!Insert
<1>9. ASSUME Gate!PrayerRead(h) \/ Gate!PrayerInsert(h) PROVE Moved
  BY <1>2, <1>5, <1>9 DEF Gate!PrayerRead, Gate!PrayerInsert
<1>10. ASSUME Gate!Fault(h) PROVE Moved
  BY <1>2, <1>10 DEF Gate!Fault
<1>11. emergency' = emergency
  BY DEF Gate!Work, Gate!Decide, Gate!Check, Gate!Insert, Gate!PrayerRead, Gate!PrayerInsert,
         Gate!Fault, Gate!policyVars
<1> QED
  BY <1>6, <1>7, <1>8, <1>9, <1>10, <1>11 DEF Gate!Work, Moved

\* A handler that receives a scan works on that scan.
LEMMA ReceiveMoves ==
    ASSUME Gate!IInv, NEW h \in Handler, NEW s \in Scan, NEW t, Gate!Receive(h, s, t)
    PROVE  /\ job[h].pc = "idle"
           /\ \A g \in Handler \ {h} : job'[g] = job[g]
           /\ job'[h].pc # "idle" /\ job'[h].scan = s
           /\ UNCHANGED <<logs, ashar, emergency>>
<1>1. job \in [Handler -> Gate!Job]
  BY DEF Gate!IInv, Gate!Types, Gate!TypeOK
<1> QED
  BY <1>1 DEF Gate!Receive, Gate!At, Gate!Idle, Gate!policyVars

\* The rows and times a server step leaves behind.
LEMMA GateStep ==
    ASSUME Gate!IInv, [Gate!Next]_Gate!vars, UNCHANGED <<stamp, taken>>
    PROVE  Gate!IInv' /\ Stays
<1>1. Gate!IInv'
  BY Assumed, Gate!StepIInv
<1>2. CASE Gate!Grew
  BY <1>1, <1>2 DEF Gate!Grew, Gate!Dir, Stays
<1>3. CASE UNCHANGED Gate!vars
  BY <1>1, <1>3 DEF Gate!vars, Stays
<1> QED
  BY <1>2, <1>3, Assumed, Gate!StepGrew

\* What only the phone does leaves the server where it is.
LEMMA GateRests ==
    ASSUME Gate!IInv, UNCHANGED <<serverVars, stamp>>, taken \subseteq taken'
    PROVE  Gate!IInv' /\ Stays /\ emergency' = emergency /\ job' = job
<1>1. UNCHANGED Gate!vars /\ emergency' = emergency /\ job' = job
  BY DEF serverVars, Gate!vars, Gate!policyVars
<1>2. Gate!IInv'
  BY <1>1, Assumed, Gate!StepIInv
<1>3. Stays
  BY DEF Stays, serverVars
<1> QED
  BY <1>1, <1>2, <1>3

\* An ok of the handler that serves channel c means that its scan is recorded.
LEMMA OkIsRecorded ==
    ASSUME Gate!IInv, Queue!IInv, Serves, NEW c \in Phone!Channel, serving[c] # None,
           job[serving[c]].reply = "ok"
    PROVE  Recorded(out[c])
<1> DEFINE h == serving[c]
<1>1. h \in Handler /\ job[h].scan = out[c] /\ out[c] \in Scan
  BY PhoneFields DEF Serves
<1>2. Gate!Row(out[c])
  BY <1>1 DEF Gate!IInv, Gate!Part, Gate!Backed
<1> QED
  BY <1>1, <1>2, Assumed DEF Gate!Row, Gate!Has, Gate!Clocked, Gate!Direct, Recorded

-----------------------------------------------------------------------------
(* The steps of the link.                                                   *)

LEMMA QueueStep == ASSUME Queue!IInv, Queue!QueueNext \/ UNCHANGED Queue!queueVars PROVE Queue!IInv'
BY Assumed, Queue!StepIInv

\* The phone's steps are those of its own specification.
LEMMA PhoneNext ==
    /\ \A s \in Scan : Queue!Take(s) => Queue!QueueNext
    /\ \A c \in Phone!Channel, r \in Phone!Answers : Hears(c, r) => Queue!QueueNext
    /\ Queue!LiveForgotten \/ Queue!StartFlush \/ Queue!TryNext \/ Queue!WriteNote
       \/ Queue!Drop \/ Queue!FlushUnexpected \/ Queue!FlushTrouble
       \/ Queue!Clear \/ Queue!ClearHistory \/ Queue!Die => Queue!QueueNext
    /\ UNCHANGED phoneVars => UNCHANGED Queue!queueVars
<1>1. UNCHANGED phoneVars => UNCHANGED Queue!queueVars
  BY DEF phoneVars, Queue!queueVars, Queue!flushVars, Queue!storeVars
<1>2. ASSUME NEW c \in Phone!Channel, NEW r \in Phone!Answers, Hears(c, r) PROVE Queue!QueueNext
  BY <1>2, SameQueue DEF Hears, Queue!QueueNext, Queue!FlushStep, Phone!Channel
<1> QED
  BY <1>1, <1>2 DEF Queue!QueueNext, Queue!FlushStep

LEMMA TakeKeeps == ASSUME IInv, NEW s \in Scan, TakeScan(s) PROVE IInv'
<1>1. /\ Queue!Take(s) /\ UNCHANGED <<serverVars, linkVars>>
      /\ Queue!IInv /\ Gate!IInv /\ Gate!GateAssumption
      /\ taken \subseteq Scan /\ out \in [Phone!Channel -> Scan \cup {None}]
  BY SameQueue, Assumed, PhoneFields DEF TakeScan, IInv
<1>2. /\ s \notin taken /\ taken' = taken \cup {s} /\ out["live"] = None
      /\ out' = [out EXCEPT !["live"] = s] /\ UNCHANGED <<note, row>>
      /\ Queue!Told' = Queue!Told
  BY <1>1, Queue!StoreStays DEF Queue!Take, Queue!flushVars
<1>3. PICK ahead \in 0 .. Skew : stamp' = [stamp EXCEPT ![s] = now + ahead]
  BY DEF TakeScan
<1>4. now + ahead \in 0 .. (MaxTime + Skew) /\ now + ahead # None
  BY <1>1 DEF Gate!GateAssumption, Gate!IInv, Gate!Types, Gate!TypeOK, Gate!Time
<1>5. /\ stamp[s] = None /\ stamp' \in [Scan -> (0 .. (MaxTime + Skew)) \cup {None}]
      /\ stamp'[s] # None /\ \A r \in Scan \ {s} : stamp'[r] = stamp[r]
  BY <1>1, <1>2, <1>3, <1>4 DEF IInv, Stamped, Gate!IInv, Gate!Types, Gate!TypeOK
<1>6. Gate!IInv'
  <2>1. UNCHANGED <<now, emergency, leaving, override, logs, ashar, flags, job, faults>>
    BY <1>1 DEF serverVars
  <2>2. Gate!Grew
    BY <1>5, <2>1 DEF Gate!Grew, Gate!Covered
  <2>3. Gate!Types'
    BY <1>1, <1>5, <2>1 DEF Gate!IInv, Gate!Types, Gate!TypeOK
  <2>4. Gate!Records'
    BY <1>1, <2>1, <2>2, Gate!RecordsKept DEF Gate!IInv
  <2>5. \A h \in Handler : Gate!Part(h)'
    BY <1>1, <2>1, <2>2, Gate!PartKept DEF Gate!IInv
  <2> QED
    BY <2>3, <2>4, <2>5 DEF Gate!IInv
<1>7. Queue!IInv'
  BY <1>1, PhoneNext, QueueStep
<1>8. Stamped'
  BY <1>2, <1>5 DEF IInv, Stamped
<1>9. Serves'
  <2>1. UNCHANGED <<serving, late, job>> /\ \A c \in Phone!Channel : serving[c] # None => out'[c] = out[c]
    BY <1>1, <1>2 DEF linkVars, serverVars, IInv, Serves, Phone!Channel
  <2> QED
    BY <1>2, <2>1 DEF IInv, Serves
<1>10. Stays
  BY <1>1, <1>2, <1>5 DEF Stays, serverVars
<1>11. Sent'
  BY <1>1, <1>2, <1>10, SentStays DEF IInv
<1> QED
  BY <1>1, <1>6, <1>7, <1>8, <1>9, <1>11 DEF IInv, serverVars

\* An answer the phone hears ends its request and is written down for what it
\* is.
LEMMA HearsMoves ==
    ASSUME Queue!IInv, NEW c \in Phone!Channel, NEW r \in Phone!Answers, Hears(c, r)
    PROVE  /\ out[c] # None /\ out' = [out EXCEPT ![c] = None] /\ UNCHANGED taken
           /\ \A s \in Scan : <<s, "SENT">> \in Queue!Told' =>
                <<s, "SENT">> \in Queue!Told \/ (r = "ok" /\ s = out[c])
           /\ note' = "SENT" => \/ note = "SENT" /\ row' = row
                                \/ r = "ok" /\ row' = out[c]
<1>1. CASE c = "live"
  <2>1. Queue!LiveAnswer(r)
    BY <1>1, SameQueue DEF Hears
  <2>2. PICK e \in Queue!Entries : Queue!Add(out["live"], e) /\ (e = "SENT" => r = "ok")
    BY <2>1 DEF Queue!LiveAnswer, Queue!Entries
  <2>3. out["live"] \in Scan /\ Queue!QueueTypeOK
    BY <2>1, PhoneFields DEF Queue!LiveAnswer, Queue!IInv, Phone!Channel
  <2>4. \/ Queue!Told' = Queue!Told
        \/ Queue!Told' = Queue!Told \cup {<<out["live"], e>>}
    BY <2>2, <2>3, Queue!Adds, Assumed
  <2> QED
    BY <1>1, <2>1, <2>2, <2>4 DEF Queue!LiveAnswer, Queue!flushVars
<1>2. CASE c = "flush" /\ r = "retry" /\ Queue!FlushRetry
  <2>1. Queue!Told' = Queue!Told
    BY <1>2, Queue!StoreStays DEF Queue!FlushRetry
  <2> QED
    BY <1>2, <2>1, Assumed, PhoneFields DEF Queue!FlushRetry, Queue!Break
<1>3. CASE c = "flush" /\ Queue!FlushFinal(r)
  <2>1. Queue!Told' = Queue!Told
    BY <1>3, Queue!StoreStays DEF Queue!FlushFinal
  <2> QED
    BY <1>3, <2>1, PhoneFields DEF Queue!FlushFinal
<1> QED
  BY <1>1, <1>2, <1>3, SameQueue DEF Hears, Phone!Channel

\* What the phone does on its own tells of nothing sent but the row it has an
\* answer for.
LEMMA AloneTells ==
    ASSUME Queue!IInv,
           \/ Queue!LiveForgotten \/ Queue!StartFlush \/ Queue!TryNext \/ Queue!WriteNote
           \/ Queue!Drop \/ Queue!FlushUnexpected \/ Queue!FlushTrouble
           \/ Queue!Clear \/ Queue!ClearHistory \/ Queue!Die,
           NEW s \in Scan, <<s, "SENT">> \in Queue!Told'
    PROVE  <<s, "SENT">> \in Queue!Told \/ (s = row /\ note = "SENT")
<1>1. Queue!QueueAssumption /\ Queue!QueueTypeOK
  BY Assumed DEF Queue!IInv
<1>2. CASE UNCHANGED Queue!storeVars
  BY <1>2, Queue!StoreStays
<1>3. ASSUME NEW q \in Scan, Queue!Add(q, "REJECTED") PROVE <<s, "SENT">> \in Queue!Told
  <2>1. \/ Queue!Told' = Queue!Told
        \/ Queue!Told' = Queue!Told \cup {<<q, "REJECTED">>}
    BY <1>1, <1>3, Queue!Adds DEF Queue!Entries
  <2> QED
    BY <2>1
<1>4. CASE Queue!LiveForgotten
  <2>1. out["live"] \in Scan
    BY <1>4, PhoneFields DEF Queue!LiveForgotten, Phone!Channel
  <2> QED
    BY <1>2, <1>3, <1>4, <2>1 DEF Queue!LiveForgotten
<1>5. CASE Queue!FlushUnexpected \/ Queue!FlushTrouble
  <2>1. UNCHANGED Queue!storeVars \/ (row \in Scan /\ Queue!Add(row, "REJECTED"))
    BY <1>1, <1>5 DEF Queue!FlushUnexpected, Queue!FlushTrouble, Queue!QueueAssumption
  <2> QED
    BY <1>2, <1>3, <2>1
<1>6. CASE Queue!WriteNote
  <2>1. row \in Scan /\ note \in Queue!Entries /\ Queue!Add(row, note)
    BY <1>6, PhoneFields, Assumed DEF Queue!WriteNote, Queue!Notes, Queue!Entries
  <2>2. \/ Queue!Told' = Queue!Told
        \/ Queue!Told' = Queue!Told \cup {<<row, note>>}
    BY <1>1, <2>1, Queue!Adds
  <2> QED
    BY <2>2
<1>7. CASE Queue!ClearHistory
  BY <1>1, <1>7, Queue!Clears DEF Queue!ClearHistory
<1> QED
  BY <1>2, <1>4, <1>5, <1>6, <1>7
     DEF Queue!StartFlush, Queue!TryNext, Queue!Drop, Queue!Clear, Queue!Die

LEMMA AloneKeeps == ASSUME IInv, PhoneAlone PROVE IInv'
<1>1. /\ Queue!IInv /\ Gate!IInv /\ Hangs /\ UNCHANGED <<serverVars, stamp>>
      /\ \/ Queue!LiveForgotten \/ Queue!StartFlush \/ Queue!TryNext \/ Queue!WriteNote
         \/ Queue!Drop \/ Queue!FlushUnexpected \/ Queue!FlushTrouble
         \/ Queue!Clear \/ Queue!ClearHistory \/ Queue!Die
  BY SameQueue DEF PhoneAlone, IInv
<1>2. /\ Queue!IInv' /\ UNCHANGED taken
      /\ \A s \in Scan : <<s, "SENT">> \in Queue!Told' =>
            <<s, "SENT">> \in Queue!Told \/ (s = row /\ note = "SENT")
      /\ note' = "SENT" => note = "SENT" /\ row' = row
      /\ \A c \in Phone!Channel : out[c] # None => out'[c] \in {out[c], None}
  <2> USE Assumed, PhoneFields, <1>1 DEF Queue!flushVars, Queue!Break, Phone!Channel
  <2>1. Queue!IInv'
    BY PhoneNext, QueueStep
  <2>t. \A s \in Scan : <<s, "SENT">> \in Queue!Told' =>
            <<s, "SENT">> \in Queue!Told \/ (s = row /\ note = "SENT")
    BY AloneTells
  <2>2. CASE Queue!LiveForgotten
    BY <2>1, <2>t, <2>2 DEF Queue!LiveForgotten
  <2>3. CASE Queue!StartFlush
    BY <2>1, <2>t, <2>3 DEF Queue!StartFlush
  <2>4. CASE Queue!TryNext
    BY <2>1, <2>t, <2>4 DEF Queue!TryNext
  <2>5. CASE Queue!WriteNote
    BY <2>1, <2>t, <2>5 DEF Queue!WriteNote
  <2>6. CASE Queue!Drop
    BY <2>1, <2>t, <2>6 DEF Queue!Drop
  <2>7. CASE Queue!FlushTrouble \/ Queue!FlushUnexpected
    BY <2>1, <2>t, <2>7 DEF Queue!FlushTrouble, Queue!FlushUnexpected
  <2>8. CASE Queue!Clear \/ Queue!ClearHistory
    BY <2>1, <2>t, <2>8 DEF Queue!Clear, Queue!ClearHistory
  <2>9. CASE Queue!Die
    BY <2>1, <2>t, <2>9 DEF Queue!Die, Queue!Channel
  <2> QED
    BY <2>2, <2>3, <2>4, <2>5, <2>6, <2>7, <2>8, <2>9
<1>3. Gate!IInv' /\ Stays /\ emergency' = emergency /\ job' = job
  BY <1>1, <1>2, GateRests
<1>4. Stamped'
  BY <1>1, <1>2 DEF IInv, Stamped
<1>5. Serves'
  BY <1>1, <1>2, <1>3, ServesStays DEF IInv
<1>6. Sent'
  BY <1>1, <1>2, <1>3, SentStays DEF IInv
<1> QED
  BY <1>2, <1>3, <1>4, <1>5, <1>6 DEF IInv

\* A request that ends without an answer, or with the handler's.
LEMMA HeardKeeps ==
    ASSUME IInv, NEW c \in Phone!Channel, NEW r \in Phone!Answers, Hears(c, r), Hangs,
           UNCHANGED stamp, Gate!IInv', Stays, emergency' = emergency,
           r = "ok" => Recorded(out[c]),
           \A d \in Phone!Channel : d # c /\ serving[d] # None =>
               job'[serving[d]] = job[serving[d]]
    PROVE  IInv'
<1>1. /\ Queue!IInv /\ out[c] # None /\ out' = [out EXCEPT ![c] = None] /\ UNCHANGED taken
      /\ out \in [Phone!Channel -> Scan \cup {None}] /\ out[c] \in taken /\ out[c] \in Scan
      /\ note # None => row # None /\ row \in taken /\ row \in Scan
      /\ Queue!Told \subseteq Scan \X {"SENT", "REJECTED"} /\ \A p \in Queue!Told : p[1] \in taken
  BY HearsMoves, PhoneFields DEF IInv
<1>2. Queue!IInv'
  BY <1>1, PhoneNext, QueueStep
<1>3. Stamped'
  BY <1>1 DEF IInv, Stamped
<1>4. Serves'
  <2>1. \A d \in Phone!Channel : out[d] # None => out'[d] \in {out[d], None}
    BY <1>1
  <2>2. \A d \in Phone!Channel : serving'[d] # None => d # c /\ serving[d] # None
    BY <1>1 DEF Hangs, Ended
  <2>3. \A d \in Phone!Channel : serving'[d] # None => job'[serving[d]] = job[serving[d]]
    BY <2>2
  <2> QED
    BY <1>1, <2>1, <2>3, ServesStays DEF IInv
<1>5. ASSUME NEW s \in Scan, s \in taken,
             \/ <<s, "SENT">> \in Queue!Told
             \/ note = "SENT" /\ s = row
             \/ r = "ok" /\ s = out[c]
      PROVE  Recorded(s)'
  <2>1. Recorded(s)
    BY <1>5 DEF IInv, Sent, Recorded
  <2> QED
    BY <1>5, <2>1, RecordedStays
<1>6. ASSUME NEW s \in Scan, <<s, "SENT">> \in Queue!Told' PROVE Recorded(s)'
  <2>1. <<s, "SENT">> \in Queue!Told \/ (r = "ok" /\ s = out[c])
    BY <1>6, <1>1, HearsMoves
  <2> QED
    BY <1>1, <1>5, <2>1
<1>7. ASSUME note' = "SENT" PROVE Recorded(row)'
  <2>1. \/ note = "SENT" /\ row' = row
        \/ r = "ok" /\ row' = out[c]
    BY <1>1, <1>7, HearsMoves
  <2>2. row' \in Scan /\ row' \in taken
    BY <1>1, <2>1, Assumed
  <2>3. \A s \in Scan : s = row' => Recorded(s)'
    BY <1>5, <2>1, <2>2
  <2> QED
    BY <2>2, <2>3 DEF Recorded
<1>8. Sent'
  BY <1>6, <1>7 DEF Sent
<1> QED
  BY <1>2, <1>3, <1>4, <1>8 DEF IInv

LEMMA GiveUpKeeps == ASSUME IInv, NEW c \in Phone!Channel, GiveUp(c) PROVE IInv'
<1>1. Hears(c, "retry") /\ Hangs /\ UNCHANGED <<serverVars, stamp>> /\ "retry" \in Phone!Answers
  BY DEF GiveUp, Phone!Answers
<1>2. UNCHANGED taken
  BY <1>1, HearsMoves DEF IInv
<1>3. Gate!IInv' /\ Stays /\ emergency' = emergency /\ job' = job
  BY <1>1, <1>2, GateRests DEF IInv
<1> QED
  BY <1>1, <1>3, HeardKeeps

LEMMA AnsweredKeeps == ASSUME IInv, NEW c \in Phone!Channel, Answered(c) PROVE IInv'
<1> DEFINE h == serving[c]
           r == job[h].reply
<1>1. /\ h # None /\ h \in Handler /\ Gate!Respond(h) /\ Hears(c, r) /\ Hangs /\ UNCHANGED stamp
      /\ Gate!IInv /\ Queue!IInv
  BY SameGate DEF Answered, IInv, Serves
<1>2. r \in Phone!Answers
  BY <1>1 DEF Gate!IInv, Gate!Part, Gate!Served, Gate!Respond, Gate!Reply, Phone!Answers
<1>3. UNCHANGED taken
  BY <1>1, <1>2, HearsMoves
<1>4. Gate!IInv' /\ Stays
  <2>1. Gate!Next
    BY <1>1 DEF Gate!Next
  <2> QED
    BY <1>1, <1>3, <2>1, GateStep
<1>5. emergency' = emergency /\ \A g \in Handler \ {h} : job'[g] = job[g]
  BY <1>1 DEF Gate!Respond, Gate!policyVars, Gate!IInv, Gate!Types, Gate!TypeOK
<1>6. r = "ok" => Recorded(out[c])
  BY <1>1, OkIsRecorded DEF IInv
<1>7. \A d \in Phone!Channel : d # c /\ serving[d] # None => job'[serving[d]] = job[serving[d]]
  BY <1>1, <1>5 DEF IInv, Serves
<1>8. \A x \in Phone!Answers : x = r => Hears(c, x) /\ (x = "ok" => Recorded(out[c]))
  BY <1>1, <1>6 DEF Hears
<1> HIDE DEF r
<1> QED
  BY <1>1, <1>2, <1>4, <1>5, <1>7, <1>8, HeardKeeps

LEMMA DeliverKeeps ==
    ASSUME IInv, NEW h \in Handler,
           \/ \E c \in Phone!Channel : Deliver(c, h)
           \/ \E s \in Scan : DeliverLate(s, h)
    PROVE  IInv'
<1>1. /\ Queue!IInv /\ Gate!IInv /\ UNCHANGED phoneVars /\ UNCHANGED stamp /\ Gate!GateAssumption
      /\ UNCHANGED <<taken, note, row, out>>
      /\ Queue!Told' = Queue!Told
  BY Assumed, Queue!StoreStays DEF Deliver, DeliverLate, IInv, phoneVars, Queue!storeVars
<1>2. PICK s \in Scan :
        /\ s \in taken /\ Server!Receive(h, s, stamp[s])
        /\ \/ \E c \in Phone!Channel : /\ out[c] = s /\ out[c] # None
                                       /\ serving' = [serving EXCEPT ![c] = h]
                                       /\ UNCHANGED late
           \/ late' \subseteq late /\ UNCHANGED serving
  <2>1. ASSUME NEW c \in Phone!Channel, Deliver(c, h) PROVE out[c] \in Scan /\ out[c] \in taken
    BY <1>1, <2>1, PhoneFields DEF Deliver
  <2>2. ASSUME NEW s \in Scan, DeliverLate(s, h) PROVE s \in taken
    BY <2>2 DEF DeliverLate, IInv, Serves
  <2> QED
    BY <2>1, <2>2 DEF Deliver, DeliverLate
<1>3. stamp[s] \in 0 .. (MaxTime + Skew) /\ stamp[s] # None /\ stamp[s] \in Nat
  <2>1. stamp[s] # None
    BY <1>2 DEF IInv, Stamped
  <2>2. MaxTime \in Nat /\ Skew \in Nat
    BY <1>1 DEF Gate!GateAssumption
  <2> QED
    BY <1>1, <2>1, <2>2 DEF Gate!IInv, Gate!Types, Gate!TypeOK
<1>4. \A t \in Nat : t = stamp[s] => Gate!Receive(h, s, t)
  BY <1>2, <1>3, SameGate
<1>5. PICK t \in 0 .. (MaxTime + Skew) : t \in Nat /\ t = stamp[s] /\ Gate!Receive(h, s, t)
  BY <1>3, <1>4
<1>6. Gate!IInv'
  BY <1>1, <1>5, Gate!ReceiveKeeps DEF Gate!IInv, Gate!Types, Gate!TypeOK
<1>7. /\ job[h].pc = "idle" /\ \A g \in Handler \ {h} : job'[g] = job[g]
      /\ job'[h].pc # "idle" /\ job'[h].scan = s
      /\ UNCHANGED <<logs, ashar, emergency>>
  BY <1>1, <1>5, ReceiveMoves
<1>8. Queue!IInv'
  BY <1>1, PhoneNext, QueueStep
<1>9. Stamped'
  BY <1>1 DEF IInv, Stamped
<1>10. Serves'
  <2>1. \A c \in Phone!Channel : serving[c] # None => serving[c] # h
    BY <1>1, <1>7 DEF IInv, Serves
  <2>2. CASE late' \subseteq late /\ UNCHANGED serving
    BY <1>1, <1>7, <2>1, <2>2 DEF IInv, Serves
  <2>3. ASSUME NEW c \in Phone!Channel, out[c] = s, out[c] # None,
               serving' = [serving EXCEPT ![c] = h], UNCHANGED late
        PROVE  Serves'
    BY <1>1, <1>7, <2>1, <2>3 DEF IInv, Serves
  <2> QED
    BY <1>2, <2>2, <2>3
<1>11. Stays
  BY <1>1, <1>7 DEF Stays
<1>12. Sent'
  BY <1>1, <1>11, SentStays DEF IInv
<1> QED
  BY <1>6, <1>7, <1>8, <1>9, <1>10, <1>12 DEF IInv

LEMMA ServerKeeps ==
    ASSUME IInv, ServerStep \/ \E h \in Handler : Unheard(h)
    PROVE  IInv'
<1>1. /\ Queue!IInv /\ Gate!IInv /\ UNCHANGED <<phoneVars, stamp, linkVars>>
      /\ UNCHANGED <<taken, note, row, out, serving, late>>
      /\ Queue!Told' = Queue!Told
  BY Queue!StoreStays DEF ServerStep, Unheard, IInv, phoneVars, linkVars, Queue!storeVars
<1>2. /\ Gate!Next /\ emergency' = emergency
      /\ \A c \in Phone!Channel : serving[c] # None =>
           /\ job'[serving[c]].pc # "idle" /\ job'[serving[c]].scan = job[serving[c]].scan
  <2>1. CASE Server!Tick
    BY <1>1, <2>1, SameGate DEF Gate!Next, Gate!Environment, Gate!Tick, IInv, Serves
  <2>2. ASSUME NEW h \in Handler, Server!Work(h) \/ Server!Fault(h) PROVE <1>2!:
    <3>1. Gate!Work(h) \/ Gate!Fault(h)
      BY <2>2, SameGate
    <3> QED
      BY <1>1, <3>1, WorkMoves DEF Gate!Next, IInv, Serves
  <2>3. ASSUME NEW h \in Handler, Unheard(h) PROVE <1>2!:
    <3>1. Gate!Respond(h) /\ \A c \in Phone!Channel : serving[c] # h
      BY <2>3, SameGate DEF Unheard
    <3>2. emergency' = emergency /\ \A g \in Handler \ {h} : job'[g] = job[g]
      BY <1>1, <3>1 DEF Gate!Respond, Gate!policyVars, Gate!IInv, Gate!Types, Gate!TypeOK
    <3> QED
      BY <1>1, <3>1, <3>2 DEF Gate!Next, IInv, Serves
  <2> QED
    BY <2>1, <2>2, <2>3 DEF ServerStep
<1>3. Gate!IInv' /\ Stays
  BY <1>1, <1>2, GateStep
<1>4. Queue!IInv'
  BY <1>1, PhoneNext, QueueStep
<1>5. Stamped' /\ Serves'
  BY <1>1, <1>2 DEF IInv, Stamped, Serves
<1>6. Sent'
  BY <1>1, <1>3, SentStays DEF IInv
<1> QED
  BY <1>2, <1>3, <1>4, <1>5, <1>6 DEF IInv

-----------------------------------------------------------------------------
(* The invariant, and what follows from it.                                 *)

LEMMA InitIInv == Init => IInv
<1> SUFFICES ASSUME Init PROVE IInv
  OBVIOUS
<1>1. Queue!IInv /\ Gate!IInv
  BY Assumed, SameQueue, SameGate, Queue!InitIInv, Gate!InitIInv DEF Init
<1>2. Stamped /\ Serves /\ Sent /\ emergency = {}
  <2>1. Queue!Told = {}
    BY DEF Init, Phone!QueueInit, Queue!Told, Queue!Outcomes
  <2> QED
    BY <2>1, Assumed DEF Init, Phone!QueueInit, Server!Init, Stamped, Serves, Sent, Phone!Channel
<1> QED
  BY <1>1, <1>2 DEF IInv

LEMMA StepIInv == IInv /\ [Next]_vars => IInv'
<1> SUFFICES ASSUME IInv, [Next]_vars PROVE IInv'
  OBVIOUS
<1>1. CASE UNCHANGED vars
  <2>1. /\ Queue!IInv /\ Gate!IInv
        /\ UNCHANGED <<phoneVars, serverVars, stamp, taken, note, row, out,
                       serving, late>>
        /\ Queue!Told' = Queue!Told
    BY <1>1, Queue!StoreStays DEF IInv, vars, phoneVars, linkVars, Queue!storeVars
  <2>2. Gate!IInv' /\ Stays /\ emergency' = emergency /\ job' = job
    BY <2>1, GateRests
  <2>3. Queue!IInv'
    BY <2>1, PhoneNext, QueueStep
  <2>4. Stamped' /\ Serves'
    BY <2>1, <2>2 DEF IInv, Stamped, Serves
  <2>5. Sent'
    BY <2>1, <2>2, SentStays DEF IInv
  <2> QED
    BY <2>2, <2>3, <2>4, <2>5 DEF IInv
<1> QED
  BY <1>1, TakeKeeps, AloneKeeps, GiveUpKeeps, AnsweredKeeps, DeliverKeeps, ServerKeeps DEF Next

\* Over the link each component keeps its own invariant, a request is served by
\* a handler of its own, and what the phone takes for sent is recorded.
THEOREM Invariant == Spec => []IInv
BY InitIInv, StepIInv, PTL DEF Spec

\* The variables of the phone, the server and the link keep their types.
THEOREM TypeCorrect == Spec => []TypeOK
<1>1. IInv => TypeOK
  <2> SUFFICES ASSUME IInv PROVE TypeOK
    OBVIOUS
  <2>1. Phone!QueueTypeOK
    BY DEF IInv, Queue!IInv, Queue!QueueTypeOK, Phone!QueueTypeOK, Queue!Channel, Phone!Channel,
           Queue!Notes, Phone!Notes, Queue!Entries, Phone!Entries
  <2>2. Server!TypeOK
    BY SameGate DEF IInv, Gate!IInv, Gate!Types
  <2> QED
    BY <2>1, <2>2 DEF IInv, Serves, TypeOK
<1> QED
  BY <1>1, Invariant, PTL

\* What the phone ever showed as sent is recorded at the server, and no scan of
\* the day disappears untold - the history says what became of it, or said so
\* until newer entries or the operator took that out - whatever requests time
\* out, arrive late or twice, and whatever dies (ScannerScreen and
\* PendingScanRetryOrchestrator on the one side, qrReaderScan on the other).
THEOREM EveryScanAccounted == Spec => []Accounted
<1>1. IInv => Accounted
  <2> SUFFICES ASSUME IInv, NEW s \in taken \ excused, s # out["live"], s \notin queue
               PROVE  \/ <<s, "REJECTED">> \in Phone!Told
                      \/ <<s, "SENT">> \in Phone!Told /\ Recorded(s)
    BY DEF Accounted
  <2>1. s \in Scan /\ Phone!Told = Queue!Told
    BY PhoneFields, SameQueue DEF IInv
  <2>2. <<s, "REJECTED">> \in Queue!Told \/ <<s, "SENT">> \in Queue!Told
    BY DEF IInv, Queue!IInv, Queue!NothingForgotten, Queue!Noted, Queue!Notes
  <2> QED
    BY <2>1, <2>2 DEF IInv, Sent
<1> QED
  BY <1>1, Invariant, PTL

\* Without the emergency mode no scan stands for both the arrival and the
\* departure of the day, however many copies of it are about, provided that
\* a stay has a minimum (MIN_GATE_STAY_MINUTES): the app of this repository
\* puts clientScannedAt on every copy.
THEOREM NoCopyCounts == ASSUME MinStay >= 1 PROVE Spec => []CountsOnce
<1>1. IInv => CountsOnce
  BY DEF IInv, Gate!IInv, Gate!Records, Gate!Calm, Gate!Clocked, Gate!Direct, Gate!CountsOnce, CountsOnce,
     Server!CountsOnce
<1> QED
  BY <1>1, Invariant, PTL

\* The link implements the phone's own specification: whatever the server
\* and the network do, they are answers and silences ReaderQueue allows for.
THEOREM PhoneImplemented == Spec => Phone!QueueSpec
<1>1. Init => Phone!QueueInit
  BY DEF Init
<1>2. IInv /\ [Next]_vars => [Phone!QueueNext]_Phone!queueVars
  <2> SUFFICES ASSUME IInv, Next PROVE Phone!QueueNext \/ UNCHANGED Phone!queueVars
    BY DEF vars, phoneVars, Phone!queueVars, Phone!flushVars, Phone!storeVars
  <2>1. ASSUME UNCHANGED phoneVars PROVE UNCHANGED Phone!queueVars
    BY <2>1 DEF phoneVars, Phone!queueVars, Phone!flushVars, Phone!storeVars
  <2>2. ASSUME NEW c \in Phone!Channel, NEW r \in Phone!Answers, Hears(c, r) PROVE Phone!QueueNext
    BY <2>2 DEF Hears, Phone!QueueNext, Phone!FlushStep, Phone!Channel
  <2>3. CASE PhoneAlone
    BY <2>3 DEF PhoneAlone, Phone!QueueNext, Phone!FlushStep
  <2>4. ASSUME NEW c \in Phone!Channel, GiveUp(c) PROVE Phone!QueueNext
    BY <2>2, <2>4 DEF GiveUp, Phone!Answers
  <2>5. ASSUME NEW c \in Phone!Channel, Answered(c) PROVE Phone!QueueNext
    <3>1. Gate!Respond(serving[c]) /\ serving[c] \in Handler /\ Hears(c, job[serving[c]].reply)
      BY <2>5, SameGate DEF Answered, IInv, Serves
    <3>2. job[serving[c]].reply \in Phone!Answers
      BY <3>1 DEF IInv, Gate!IInv, Gate!Part, Gate!Served, Gate!Respond, Gate!Reply, Phone!Answers
    <3>3. \A r \in Phone!Answers : r = job[serving[c]].reply => Hears(c, r)
      BY <3>1 DEF Hears
    <3> QED
      BY <2>2, <3>2, <3>3
  <2>6. ASSUME NEW s \in Scan, TakeScan(s) PROVE Phone!QueueNext
    BY <2>6 DEF TakeScan, Phone!QueueNext
  <2>7. ASSUME NEW h \in Handler, Unheard(h) PROVE UNCHANGED Phone!queueVars
    BY <2>1, <2>7 DEF Unheard
  <2>8. ASSUME NEW h \in Handler,
               \/ \E s \in Scan : DeliverLate(s, h)
               \/ \E c \in Phone!Channel : Deliver(c, h)
        PROVE  UNCHANGED Phone!queueVars
    BY <2>1, <2>8 DEF DeliverLate, Deliver
  <2>9. CASE ServerStep
    BY <2>1, <2>9 DEF ServerStep
  <2> QED
    BY <2>3, <2>4, <2>5, <2>6, <2>7, <2>8, <2>9 DEF Next
<1> QED
  BY <1>1, <1>2, Invariant, PTL DEF Spec, Phone!QueueSpec

-----------------------------------------------------------------------------
(* The day of MCGateDay: the link, students whose requests arrive in any    *)
(* order, or personnel at card readers.                                     *)

PhonesGate == INSTANCE GateServerProofs WITH
    Scan <- DOMAIN PhoneKind, Kind <- PhoneKind, HasEventId <- {}, Unstamped <- PhoneUnstamped,
    Student <- TRUE, AsharRequired <- TRUE, DupWindow <- RepeatWindow,
    AsharWindow <- PrayerWindow, MaxEmergency <- Emergencies
CardsGate == INSTANCE GateServerProofs WITH
    Scan <- DOMAIN CardKind, Kind <- CardKind, HasEventId <- DOMAIN CardKind, Unstamped <- {},
    Student <- FALSE, AsharRequired <- FALSE, DupWindow <- RepeatWindow,
    OutWindow <- ExitWindow, MaxFaults <- CardFaults, MaxEmergency <- Emergencies

\* The students' handlers are those of the proofs.
LEMMA SamePhones ==
    /\ Phones!GateAssumption => PhonesGate!GateAssumption
    /\ Phones!Init => PhonesGate!Init
    /\ Phones!Next => PhonesGate!Next
    /\ PhonesGate!TypeOK => Phones!TypeOK
    /\ PhonesGate!OutJustified => Phones!OutJustified
    /\ PhonesGate!AsharOnRecord => Phones!AsharOnRecord
    /\ PhonesGate!OkMeansRecorded => Phones!OkMeansRecorded
<1> USE DEF Phones!Clocked, PhonesGate!Clocked, Phones!At, PhonesGate!At, Phones!Idle, PhonesGate!Idle, Phones!Answer, PhonesGate!Answer,
            Phones!policyVars, PhonesGate!policyVars, Phones!Dir, PhonesGate!Dir,
            Phones!Kinds, PhonesGate!Kinds, Phones!Direct, PhonesGate!Direct, Phones!QrGate, PhonesGate!QrGate,
            Phones!Reply, PhonesGate!Reply, Phones!Log, PhonesGate!Log,
            Phones!EmergencyAt, PhonesGate!EmergencyAt, Phones!Floor, PhonesGate!Floor,
            Phones!Round, PhonesGate!Round, Phones!Store, PhonesGate!Store
<1>1. Phones!GateAssumption => PhonesGate!GateAssumption
  BY DEF Phones!GateAssumption, PhonesGate!GateAssumption
<1>2. Phones!Init => PhonesGate!Init
  BY DEF Phones!Init, PhonesGate!Init
<1>3. Phones!Environment => PhonesGate!Environment
  <2>1. Phones!Tick => PhonesGate!Tick
    BY DEF Phones!Tick, PhonesGate!Tick
  <2>2. Phones!ActivateEmergency => PhonesGate!ActivateEmergency
    <3>1. Phones!Cardinality(emergency) = PhonesGate!Cardinality(emergency)
      BY DEF Phones!Cardinality, PhonesGate!Cardinality
    <3> QED
      BY <3>1 DEF Phones!ActivateEmergency, PhonesGate!ActivateEmergency
  <2>3. Phones!AskDeactivate => PhonesGate!AskDeactivate
    BY DEF Phones!AskDeactivate, PhonesGate!AskDeactivate
  <2>4. Phones!DeactivateEmergency => PhonesGate!DeactivateEmergency
    BY DEF Phones!DeactivateEmergency, PhonesGate!DeactivateEmergency
  <2>5. Phones!SetOverride => PhonesGate!SetOverride
    BY DEF Phones!SetOverride, PhonesGate!SetOverride
  <2> QED
    BY <2>1, <2>2, <2>3, <2>4, <2>5 DEF Phones!Environment, PhonesGate!Environment
<1>4. ASSUME NEW h \in Handler, Phones!Work(h) PROVE PhonesGate!Work(h)
  <2>1. Phones!Decide(h) => PhonesGate!Decide(h)
    BY DEF Phones!Decide, PhonesGate!Decide, Phones!Go, PhonesGate!Go,
           Phones!Sees, PhonesGate!Sees, Phones!TooSoon, PhonesGate!TooSoon
  <2>2. Phones!Check(h) => PhonesGate!Check(h)
    <3>1. Phones!CheckStay(h) => PhonesGate!CheckStay(h)
      BY DEF Phones!CheckStay, PhonesGate!CheckStay, Phones!Flagged, PhonesGate!Flagged
    <3>2. Phones!LastDirs = PhonesGate!LastDirs
      BY DEF Phones!LastDirs, PhonesGate!LastDirs
    <3> QED
      BY <3>1, <3>2 DEF Phones!Check, PhonesGate!Check, Phones!Flagged, PhonesGate!Flagged
  <2>3. Phones!Insert(h) => PhonesGate!Insert(h)
    BY DEF Phones!Insert, PhonesGate!Insert, Phones!SameEvent, PhonesGate!SameEvent
  <2>4. Phones!PrayerRead(h) => PhonesGate!PrayerRead(h)
    BY DEF Phones!PrayerRead, PhonesGate!PrayerRead
  <2>5. Phones!PrayerInsert(h) => PhonesGate!PrayerInsert(h)
    BY DEF Phones!PrayerInsert, PhonesGate!PrayerInsert
  <2> QED
    BY <1>4, <2>1, <2>2, <2>3, <2>4, <2>5 DEF Phones!Work, PhonesGate!Work
<1>5. \A h \in Handler : Phones!Fault(h) => PhonesGate!Fault(h)
  BY DEF Phones!Fault, PhonesGate!Fault
<1>6. \A h \in Handler : Phones!Respond(h) => PhonesGate!Respond(h)
  BY DEF Phones!Respond, PhonesGate!Respond
<1>7. \A h \in Handler : Phones!Arrive(h) => PhonesGate!Arrive(h)
  <2>1. \A h, s, t : Phones!Receive(h, s, t) => PhonesGate!Receive(h, s, t)
    BY DEF Phones!Receive, PhonesGate!Receive
  <2> QED
    BY <2>1 DEF Phones!Arrive, PhonesGate!Arrive
<1>8. Phones!Next => PhonesGate!Next
  BY <1>3, <1>4, <1>5, <1>6, <1>7 DEF Phones!Next, PhonesGate!Next
<1>9. PhonesGate!TypeOK => Phones!TypeOK
  BY DEF Phones!TypeOK, PhonesGate!TypeOK, Phones!Time, PhonesGate!Time, Phones!FlagType, PhonesGate!FlagType, Phones!Job, PhonesGate!Job
<1>10. PhonesGate!OutJustified => Phones!OutJustified
  BY DEF Phones!OutJustified, PhonesGate!OutJustified
<1>11. PhonesGate!AsharOnRecord => Phones!AsharOnRecord
  BY DEF Phones!AsharOnRecord, PhonesGate!AsharOnRecord
<1>12. PhonesGate!OkMeansRecorded => Phones!OkMeansRecorded
  BY DEF Phones!OkMeansRecorded, PhonesGate!OkMeansRecorded
<1> QED
  BY <1>1, <1>2, <1>8, <1>9, <1>10, <1>11, <1>12

\* The card readers' handlers are those of the proofs.
LEMMA SameCards ==
    /\ Cards!GateAssumption => CardsGate!GateAssumption
    /\ Cards!Init => CardsGate!Init
    /\ Cards!Next => CardsGate!Next
    /\ CardsGate!TypeOK => Cards!TypeOK
    /\ CardsGate!OutJustified => Cards!OutJustified
    /\ CardsGate!AsharOnRecord => Cards!AsharOnRecord
    /\ CardsGate!OkMeansRecorded => Cards!OkMeansRecorded
<1> USE DEF Cards!Clocked, CardsGate!Clocked, Cards!At, CardsGate!At, Cards!Idle, CardsGate!Idle, Cards!Answer, CardsGate!Answer,
            Cards!policyVars, CardsGate!policyVars, Cards!Dir, CardsGate!Dir,
            Cards!Kinds, CardsGate!Kinds, Cards!Direct, CardsGate!Direct, Cards!QrGate, CardsGate!QrGate,
            Cards!Reply, CardsGate!Reply, Cards!Log, CardsGate!Log,
            Cards!EmergencyAt, CardsGate!EmergencyAt, Cards!Floor, CardsGate!Floor,
            Cards!Round, CardsGate!Round, Cards!Store, CardsGate!Store
<1>1. Cards!GateAssumption => CardsGate!GateAssumption
  BY DEF Cards!GateAssumption, CardsGate!GateAssumption
<1>2. Cards!Init => CardsGate!Init
  BY DEF Cards!Init, CardsGate!Init
<1>3. Cards!Environment => CardsGate!Environment
  <2>1. Cards!Tick => CardsGate!Tick
    BY DEF Cards!Tick, CardsGate!Tick
  <2>2. Cards!ActivateEmergency => CardsGate!ActivateEmergency
    <3>1. Cards!Cardinality(emergency) = CardsGate!Cardinality(emergency)
      BY DEF Cards!Cardinality, CardsGate!Cardinality
    <3> QED
      BY <3>1 DEF Cards!ActivateEmergency, CardsGate!ActivateEmergency
  <2>3. Cards!AskDeactivate => CardsGate!AskDeactivate
    BY DEF Cards!AskDeactivate, CardsGate!AskDeactivate
  <2>4. Cards!DeactivateEmergency => CardsGate!DeactivateEmergency
    BY DEF Cards!DeactivateEmergency, CardsGate!DeactivateEmergency
  <2>5. Cards!SetOverride => CardsGate!SetOverride
    BY DEF Cards!SetOverride, CardsGate!SetOverride
  <2> QED
    BY <2>1, <2>2, <2>3, <2>4, <2>5 DEF Cards!Environment, CardsGate!Environment
<1>4. ASSUME NEW h \in Handler, Cards!Work(h) PROVE CardsGate!Work(h)
  <2>1. Cards!Decide(h) => CardsGate!Decide(h)
    BY DEF Cards!Decide, CardsGate!Decide, Cards!Go, CardsGate!Go,
           Cards!Sees, CardsGate!Sees, Cards!TooSoon, CardsGate!TooSoon
  <2>2. Cards!Check(h) => CardsGate!Check(h)
    <3>1. Cards!CheckStay(h) => CardsGate!CheckStay(h)
      BY DEF Cards!CheckStay, CardsGate!CheckStay, Cards!Flagged, CardsGate!Flagged
    <3>2. Cards!LastDirs = CardsGate!LastDirs
      BY DEF Cards!LastDirs, CardsGate!LastDirs
    <3> QED
      BY <3>1, <3>2 DEF Cards!Check, CardsGate!Check, Cards!Flagged, CardsGate!Flagged
  <2>3. Cards!Insert(h) => CardsGate!Insert(h)
    BY DEF Cards!Insert, CardsGate!Insert, Cards!SameEvent, CardsGate!SameEvent
  <2>4. Cards!PrayerRead(h) => CardsGate!PrayerRead(h)
    BY DEF Cards!PrayerRead, CardsGate!PrayerRead
  <2>5. Cards!PrayerInsert(h) => CardsGate!PrayerInsert(h)
    BY DEF Cards!PrayerInsert, CardsGate!PrayerInsert
  <2> QED
    BY <1>4, <2>1, <2>2, <2>3, <2>4, <2>5 DEF Cards!Work, CardsGate!Work
<1>5. \A h \in Handler : Cards!Fault(h) => CardsGate!Fault(h)
  BY DEF Cards!Fault, CardsGate!Fault
<1>6. \A h \in Handler : Cards!Respond(h) => CardsGate!Respond(h)
  BY DEF Cards!Respond, CardsGate!Respond
<1>7. \A h \in Handler : Cards!Arrive(h) => CardsGate!Arrive(h)
  <2>1. \A h, s, t : Cards!Receive(h, s, t) => CardsGate!Receive(h, s, t)
    BY DEF Cards!Receive, CardsGate!Receive
  <2> QED
    BY <2>1 DEF Cards!Arrive, CardsGate!Arrive
<1>8. Cards!Next => CardsGate!Next
  BY <1>3, <1>4, <1>5, <1>6, <1>7 DEF Cards!Next, CardsGate!Next
<1>9. CardsGate!TypeOK => Cards!TypeOK
  BY DEF Cards!TypeOK, CardsGate!TypeOK, Cards!Time, CardsGate!Time, Cards!FlagType, CardsGate!FlagType, Cards!Job, CardsGate!Job
<1>10. CardsGate!OutJustified => Cards!OutJustified
  BY DEF Cards!OutJustified, CardsGate!OutJustified
<1>11. CardsGate!AsharOnRecord => Cards!AsharOnRecord
  BY DEF Cards!AsharOnRecord, CardsGate!AsharOnRecord
<1>12. CardsGate!OkMeansRecorded => Cards!OkMeansRecorded
  BY DEF Cards!OkMeansRecorded, CardsGate!OkMeansRecorded
<1> QED
  BY <1>1, <1>2, <1>8, <1>9, <1>10, <1>11, <1>12

\* Each scene implements its own specification.
LEMMA ScenesImplemented ==
    DaySpec => /\ scene = "phones" => PhonesGate!Spec
               /\ scene = "cards"  => CardsGate!Spec
               /\ scene = "link"   => Spec
<1>1. DayInit => /\ scene = "phones" => PhonesGate!Init
                 /\ scene = "cards"  => CardsGate!Init
                 /\ scene = "link"   => Init
  BY SamePhones, SameCards DEF DayInit, Init
<1>2. scene = "phones" /\ [DayNext]_<<vars, scene>> => [PhonesGate!Next]_PhonesGate!vars
  <2>1. UNCHANGED vars => UNCHANGED PhonesGate!vars
    BY DEF vars, serverVars, PhonesGate!vars, PhonesGate!policyVars
  <2> QED
    BY <2>1, SamePhones DEF DayNext
<1>3. scene = "cards" /\ [DayNext]_<<vars, scene>> => [CardsGate!Next]_CardsGate!vars
  <2>1. UNCHANGED vars => UNCHANGED CardsGate!vars
    BY DEF vars, serverVars, CardsGate!vars, CardsGate!policyVars
  <2> QED
    BY <2>1, SameCards DEF DayNext
<1>4. scene = "link" /\ [DayNext]_<<vars, scene>> => [Next]_vars
  BY DEF DayNext
<1>5. scene = "phones" /\ [DayNext]_<<vars, scene>> => (scene = "phones")'
  BY DEF DayNext
<1>6. scene = "cards" /\ [DayNext]_<<vars, scene>> => (scene = "cards")'
  BY DEF DayNext
<1>7. scene = "link" /\ [DayNext]_<<vars, scene>> => (scene = "link")'
  BY DEF DayNext
<1> QED
  BY <1>1, <1>2, <1>3, <1>4, <1>5, <1>6, <1>7, PTL DEF DaySpec, PhonesGate!Spec, CardsGate!Spec, Spec

InDay == scene \in {"phones", "cards", "link"}

\* Nobody changes the scene.
LEMMA SceneStays ==
    /\ DaySpec => []InDay
    /\ DaySpec /\ scene # "phones" => [](scene # "phones")
    /\ DaySpec /\ scene # "cards"  => [](scene # "cards")
    /\ DaySpec /\ scene # "link"   => [](scene # "link")
<1>1. DayInit => InDay
  BY DEF DayInit, InDay
<1>2. InDay /\ [DayNext]_<<vars, scene>> => InDay'
  BY DEF DayNext, InDay
<1>3. scene # "phones" /\ [DayNext]_<<vars, scene>> => (scene # "phones")'
  BY DEF DayNext
<1>4. scene # "cards" /\ [DayNext]_<<vars, scene>> => (scene # "cards")'
  BY DEF DayNext
<1>5. scene # "link" /\ [DayNext]_<<vars, scene>> => (scene # "link")'
  BY DEF DayNext
<1> QED
  BY <1>1, <1>2, <1>3, <1>4, <1>5, PTL DEF DaySpec

\* What was proved of the handlers holds of those of a scene.
LEMMA PhonesKeep ==
    PhonesGate!Spec => [](/\ Phones!TypeOK /\ Phones!OutJustified
                         /\ Phones!AsharOnRecord /\ Phones!OkMeansRecorded)
<1>1. PhonesGate!GateAssumption
  BY DayAssumption, SamePhones
<1>2. PhonesGate!Spec => [](/\ PhonesGate!TypeOK /\ PhonesGate!OutJustified
                          /\ PhonesGate!AsharOnRecord /\ PhonesGate!OkMeansRecorded)
  BY <1>1, PhonesGate!TypeCorrect, PhonesGate!GoneForAReason, PhonesGate!PrayedBeforeLeaving,
     PhonesGate!NoScanLost, PTL
<1>3. /\ PhonesGate!TypeOK => Phones!TypeOK
      /\ PhonesGate!OutJustified => Phones!OutJustified
      /\ PhonesGate!AsharOnRecord => Phones!AsharOnRecord
      /\ PhonesGate!OkMeansRecorded => Phones!OkMeansRecorded
  BY SamePhones
<1> QED
  BY <1>2, <1>3, PTL

LEMMA CardsKeep ==
    CardsGate!Spec => [](/\ Cards!TypeOK /\ Cards!OutJustified
                        /\ Cards!AsharOnRecord /\ Cards!OkMeansRecorded)
<1>1. CardsGate!GateAssumption
  BY DayAssumption, SameCards
<1>2. CardsGate!Spec => [](/\ CardsGate!TypeOK /\ CardsGate!OutJustified
                         /\ CardsGate!AsharOnRecord /\ CardsGate!OkMeansRecorded)
  BY <1>1, CardsGate!TypeCorrect, CardsGate!GoneForAReason, CardsGate!PrayedBeforeLeaving,
     CardsGate!NoScanLost, PTL
<1>3. /\ CardsGate!TypeOK => Cards!TypeOK
      /\ CardsGate!OutJustified => Cards!OutJustified
      /\ CardsGate!AsharOnRecord => Cards!AsharOnRecord
      /\ CardsGate!OkMeansRecorded => Cards!OkMeansRecorded
  BY SameCards
<1> QED
  BY <1>2, <1>3, PTL

SceneInOrder ==
    /\ scene = "phones" => /\ Phones!TypeOK /\ Phones!OutJustified
                           /\ Phones!AsharOnRecord /\ Phones!OkMeansRecorded
    /\ scene = "cards"  => /\ Cards!TypeOK /\ Cards!OutJustified
                           /\ Cards!AsharOnRecord /\ Cards!OkMeansRecorded
    /\ scene = "link"   => TypeOK

LEMMA DayInOrder == DaySpec => [](InDay /\ SceneInOrder)
<1>1. scene = "phones" \/ scene # "phones"
  OBVIOUS
<1>2. scene = "cards" \/ scene # "cards"
  OBVIOUS
<1>3. scene = "link" \/ scene # "link"
  OBVIOUS
<1> DEFINE PhonesFine == /\ Phones!TypeOK /\ Phones!OutJustified
                         /\ Phones!AsharOnRecord /\ Phones!OkMeansRecorded
           CardsFine  == /\ Cards!TypeOK /\ Cards!OutJustified
                         /\ Cards!AsharOnRecord /\ Cards!OkMeansRecorded
<1>4. DaySpec => [](scene # "phones" \/ PhonesFine)
  BY <1>1, PhonesKeep, ScenesImplemented, SceneStays, PTL
<1>5. DaySpec => [](scene # "cards" \/ CardsFine)
  BY <1>2, CardsKeep, ScenesImplemented, SceneStays, PTL
<1>6. DaySpec => [](scene # "link" \/ TypeOK)
  BY <1>3, TypeCorrect, ScenesImplemented, SceneStays, PTL
<1>7. (scene # "phones" \/ PhonesFine) /\ (scene # "cards" \/ CardsFine)
      /\ (scene # "link" \/ TypeOK) => SceneInOrder
  BY DEF SceneInOrder
<1> QED
  BY <1>4, <1>5, <1>6, <1>7, SceneStays, PTL

\* In every scene times, rows, replies, flags and the link keep their types.
THEOREM DayTyped == DaySpec => []DayTypeOK
<1>1. InDay /\ SceneInOrder => DayTypeOK
  BY DEF InDay, SceneInOrder, DayTypeOK
<1> QED
  BY <1>1, DayInOrder, PTL

\* At either gate, for any scans, events and policy: whoever is recorded as gone
\* came first and stayed, or was excused.
THEOREM NobodyLeavesWithoutReason == DaySpec => []OutJustified
<1>1. InDay /\ SceneInOrder => OutJustified
  BY DEF InDay, SceneInOrder, OutJustified
<1> QED
  BY <1>1, DayInOrder, PTL

\* A student recorded as gone has prayed Ashar or was excused, in whatever order
\* the queued scans of the gate and of the prayer reader arrive.
THEOREM PrayerBeforeLeaving == DaySpec => []AsharOnRecord
<1>1. InDay /\ SceneInOrder => AsharOnRecord
  BY DEF InDay, SceneInOrder, AsharOnRecord
<1> QED
  BY <1>1, DayInOrder, PTL

\* A reader that hears ok may forget the scan: the row it asked for is there,
\* for queued scans and for signed events that are sent again.
THEOREM OkLeavesARow == DaySpec => []OkMeansRecorded
<1>1. InDay /\ SceneInOrder => OkMeansRecorded
  BY DEF InDay, SceneInOrder, OkMeansRecorded
<1> QED
  BY <1>1, DayInOrder, PTL

\* Over the whole day no scan a phone took disappears untold, with a history that
\* keeps only the newest entries and may be cleared; the readers of the other
\* scenes take none.
THEOREM DayAccounted == DaySpec => []Accounted
<1> DEFINE NoneTaken == taken = {}
<1>1. DayInit => NoneTaken
  BY DEF DayInit, Phone!QueueInit
<1>2. NoneTaken /\ scene # "link" /\ [DayNext]_<<vars, scene>> => NoneTaken'
  BY DEF DayNext, vars, phoneVars
<1>3. NoneTaken => Accounted
  BY DEF Accounted
<1> HIDE DEF NoneTaken
<1>4. DaySpec /\ scene # "link" => []NoneTaken
  BY <1>1, <1>2, SceneStays, PTL DEF DaySpec
<1>5. scene = "link" \/ scene # "link"
  OBVIOUS
<1> QED
  BY <1>3, <1>4, <1>5, EveryScanAccounted, ScenesImplemented, PTL

-----------------------------------------------------------------------------
(* The day of every scene is a ledger.                                      *)

\* A step of the phone, the network or the server writes an entry or none.
LEMMA LinkLedger ==
    ASSUME IInv, [Next]_vars
    PROVE  [Gate!Ledger!LedgerNext]_Gate!Ledger!ledgerVars
<1>1. Gate!IInv /\ Gate!GateAssumption
  BY Assumed DEF IInv
<1>2. ASSUME UNCHANGED <<logs, ashar, emergency>> PROVE UNCHANGED Gate!Ledger!ledgerVars
  BY <1>2 DEF Gate!Ledger!ledgerVars, Gate!Arrival, Gate!Departure, Gate!Excused, Gate!Covered
<1>3. ASSUME UNCHANGED serverVars PROVE UNCHANGED Gate!Ledger!ledgerVars
  BY <1>2, <1>3 DEF serverVars
<1>4. ASSUME NEW h \in Handler, Server!Respond(h) PROVE UNCHANGED Gate!Ledger!ledgerVars
  BY <1>2, <1>4, SameGate DEF Gate!Respond, Gate!policyVars
<1>5. ASSUME NEW h \in Handler, NEW s, NEW t, Server!Receive(h, s, t)
      PROVE  UNCHANGED Gate!Ledger!ledgerVars
  BY <1>2, <1>5 DEF Server!Receive, Server!policyVars
<1>6. CASE ServerStep
  <2>1. UNCHANGED stamp
    BY <1>6 DEF ServerStep
  <2>2. Gate!Next
    BY <1>6, <2>1, SameGate DEF ServerStep, Gate!Next, Gate!Environment
  <2> QED
    BY <1>1, <2>2, Gate!StepLedger
<1>7. CASE PhoneAlone
  BY <1>3, <1>7 DEF PhoneAlone
<1>8. ASSUME NEW c \in Phone!Channel, GiveUp(c) \/ Answered(c)
      PROVE  UNCHANGED Gate!Ledger!ledgerVars
  BY <1>3, <1>4, <1>8 DEF GiveUp, Answered, IInv, Serves
<1>9. ASSUME NEW c \in Phone!Channel, NEW h \in Handler, Deliver(c, h)
      PROVE  UNCHANGED Gate!Ledger!ledgerVars
  BY <1>5, <1>9 DEF Deliver
<1>10. ASSUME NEW s \in Scan,
              TakeScan(s) \/ \E h \in Handler : DeliverLate(s, h)
       PROVE  UNCHANGED Gate!Ledger!ledgerVars
  BY <1>3, <1>5, <1>10 DEF TakeScan, DeliverLate
<1>11. ASSUME NEW h \in Handler, Unheard(h) PROVE UNCHANGED Gate!Ledger!ledgerVars
  BY <1>4, <1>11 DEF Unheard
<1>12. CASE UNCHANGED vars
  BY <1>3, <1>12 DEF vars
<1> QED
  BY <1>6, <1>7, <1>8, <1>9, <1>10, <1>11, <1>12 DEF Next

\* The link implements the ledger of a day (DayLedger): whatever copies the
\* phone and the network make of a scan, the arrival, the departure and Ashar
\* are written once and for their reasons.
THEOREM LinkIsLedger == Spec => Gate!Ledger!LedgerSpec
<1>1. Init => Gate!Ledger!LedgerInit
  BY DEF Init, Server!Init, Gate!Ledger!LedgerInit, Server!Dir,
         Gate!Arrival, Gate!Departure, Gate!Excused, Gate!Covered
<1>2. IInv /\ [Next]_vars => [Gate!Ledger!LedgerNext]_Gate!Ledger!ledgerVars
  BY LinkLedger
<1> QED
  BY <1>1, <1>2, Invariant, PTL DEF Spec, Gate!Ledger!LedgerSpec

\* A step of a scene's own ledger is one of the day's.
LEMMA SameLedger ==
    ASSUME UNCHANGED scene
    PROVE  /\ scene = "phones" /\ [PhonesGate!Ledger!LedgerNext]_PhonesGate!Ledger!ledgerVars
                => [Ledger!LedgerNext]_Ledger!ledgerVars
           /\ scene = "cards" /\ [CardsGate!Ledger!LedgerNext]_CardsGate!Ledger!ledgerVars
                => [Ledger!LedgerNext]_Ledger!ledgerVars
           /\ scene = "link" /\ [Gate!Ledger!LedgerNext]_Gate!Ledger!ledgerVars
                => [Ledger!LedgerNext]_Ledger!ledgerVars
<1>1. ASSUME scene = "phones", [PhonesGate!Ledger!LedgerNext]_PhonesGate!Ledger!ledgerVars
      PROVE  [Ledger!LedgerNext]_Ledger!ledgerVars
  <2>1. PhonesGate!Ledger!LedgerNext => Ledger!LedgerNext
    BY <1>1 DEF PhonesGate!Arrival, PhonesGate!Departure, PhonesGate!Excused, PhonesGate!Covered,
           PhonesGate!Ledger!LedgerNext, Ledger!LedgerNext, PhonesGate!Ledger!Depart, Ledger!Depart,
           PhonesGate!Ledger!Arrive, Ledger!Arrive,
           PhonesGate!Ledger!Leave, Ledger!Leave,
           PhonesGate!Ledger!LeaveEarly, Ledger!LeaveEarly,
           PhonesGate!Ledger!LeaveByOverride, Ledger!LeaveByOverride,
           PhonesGate!Ledger!Pray, Ledger!Pray,
           PhonesGate!Ledger!Declare, Ledger!Declare
  <2>2. UNCHANGED PhonesGate!Ledger!ledgerVars => UNCHANGED Ledger!ledgerVars
    BY <1>1 DEF PhonesGate!Ledger!ledgerVars, Ledger!ledgerVars,
           PhonesGate!Arrival, PhonesGate!Departure, PhonesGate!Excused, PhonesGate!Covered
  <2> QED
    BY <1>1, <2>1, <2>2
<1>2. ASSUME scene = "cards", [CardsGate!Ledger!LedgerNext]_CardsGate!Ledger!ledgerVars
      PROVE  [Ledger!LedgerNext]_Ledger!ledgerVars
  <2>1. CardsGate!Ledger!LedgerNext => Ledger!LedgerNext
    BY <1>2 DEF CardsGate!Arrival, CardsGate!Departure, CardsGate!Excused, CardsGate!Covered,
           CardsGate!Ledger!LedgerNext, Ledger!LedgerNext, CardsGate!Ledger!Depart, Ledger!Depart,
           CardsGate!Ledger!Arrive, Ledger!Arrive,
           CardsGate!Ledger!Leave, Ledger!Leave,
           CardsGate!Ledger!LeaveEarly, Ledger!LeaveEarly,
           CardsGate!Ledger!LeaveByOverride, Ledger!LeaveByOverride,
           CardsGate!Ledger!Pray, Ledger!Pray,
           CardsGate!Ledger!Declare, Ledger!Declare
  <2>2. UNCHANGED CardsGate!Ledger!ledgerVars => UNCHANGED Ledger!ledgerVars
    BY <1>2 DEF CardsGate!Ledger!ledgerVars, Ledger!ledgerVars,
           CardsGate!Arrival, CardsGate!Departure, CardsGate!Excused, CardsGate!Covered
  <2> QED
    BY <1>2, <2>1, <2>2
<1>3. ASSUME scene = "link", [Gate!Ledger!LedgerNext]_Gate!Ledger!ledgerVars
      PROVE  [Ledger!LedgerNext]_Ledger!ledgerVars
  <2>1. Gate!Ledger!LedgerNext => Ledger!LedgerNext
    BY <1>3 DEF Gate!Arrival, Gate!Departure, Gate!Excused, Gate!Covered,
           Gate!Ledger!LedgerNext, Ledger!LedgerNext, Gate!Ledger!Depart, Ledger!Depart,
           Gate!Ledger!Arrive, Ledger!Arrive,
           Gate!Ledger!Leave, Ledger!Leave,
           Gate!Ledger!LeaveEarly, Ledger!LeaveEarly,
           Gate!Ledger!LeaveByOverride, Ledger!LeaveByOverride,
           Gate!Ledger!Pray, Ledger!Pray,
           Gate!Ledger!Declare, Ledger!Declare
  <2>2. UNCHANGED Gate!Ledger!ledgerVars => UNCHANGED Ledger!ledgerVars
    BY <1>3 DEF Gate!Ledger!ledgerVars, Ledger!ledgerVars,
           Gate!Arrival, Gate!Departure, Gate!Excused, Gate!Covered
  <2> QED
    BY <1>3, <2>1, <2>2
<1> QED
  BY <1>1, <1>2, <1>3

\* The invariant of each scene's own proofs.
LEMMA SceneInvariant ==
    DaySpec => [](/\ scene = "phones" => PhonesGate!IInv
                  /\ scene = "cards"  => CardsGate!IInv
                  /\ scene = "link"   => IInv)
<1>1. PhonesGate!GateAssumption /\ CardsGate!GateAssumption
  BY DayAssumption, SamePhones, SameCards
<1>2. (scene = "phones" \/ scene # "phones") /\ (scene = "cards" \/ scene # "cards")
      /\ (scene = "link" \/ scene # "link")
  OBVIOUS
<1>3. /\ scene # "phones" => ~(scene = "phones")
      /\ scene # "cards"  => ~(scene = "cards")
      /\ scene # "link"   => ~(scene = "link")
  OBVIOUS
<1>4. DaySpec => [](scene = "phones" => PhonesGate!IInv)
  BY <1>1, <1>2, <1>3, PhonesGate!Invariant, ScenesImplemented, SceneStays, PTL
<1>5. DaySpec => [](scene = "cards" => CardsGate!IInv)
  BY <1>1, <1>2, <1>3, CardsGate!Invariant, ScenesImplemented, SceneStays, PTL
<1>6. DaySpec => [](scene = "link" => IInv)
  BY <1>2, <1>3, Invariant, ScenesImplemented, SceneStays, PTL
<1> QED
  BY <1>4, <1>5, <1>6, PTL

\* In every scene, for any scans, events, handlers and policy: the day of a
\* person is a ledger whose entries are written once each, the departure for a
\* reason that holds when it is written, although the handlers read and insert
\* in between each other and the phone sends again what was not answered.
THEOREM DayIsLedger == DaySpec => LedgerKept
<1>1. DayInit => Ledger!LedgerInit
  <2>1. logs["IN"] = None /\ logs["OUT"] = None /\ ashar = None /\ emergency = {}
        => Ledger!LedgerInit
    BY DEF Ledger!LedgerInit
  <2>2. DayInit => logs["IN"] = None /\ logs["OUT"] = None /\ ashar = None /\ emergency = {}
    BY DEF DayInit, Phones!Init, Cards!Init, Server!Init, Phones!Dir, Cards!Dir, Server!Dir
  <2> QED
    BY <2>1, <2>2
<1>2. InDay /\ [DayNext]_<<vars, scene>>
        /\ (scene = "phones" => PhonesGate!IInv)
        /\ (scene = "cards"  => CardsGate!IInv)
        /\ (scene = "link"   => IInv)
      => [Ledger!LedgerNext]_Ledger!ledgerVars
  <2> SUFFICES ASSUME InDay, [DayNext]_<<vars, scene>>,
                      scene = "phones" => PhonesGate!IInv,
                      scene = "cards"  => CardsGate!IInv,
                      scene = "link"   => IInv
               PROVE  [Ledger!LedgerNext]_Ledger!ledgerVars
    OBVIOUS
  <2>1. UNCHANGED scene
    BY DEF DayNext
  <2>2. CASE scene = "phones"
    <3>1. PhonesGate!GateAssumption /\ [PhonesGate!Next]_PhonesGate!vars
      <4>1. UNCHANGED vars => UNCHANGED PhonesGate!vars
        BY DEF vars, serverVars, PhonesGate!vars, PhonesGate!policyVars
      <4> QED
        BY <2>2, <4>1, DayAssumption, SamePhones DEF DayNext
    <3> QED
      BY <2>1, <2>2, <3>1, PhonesGate!StepLedger, SameLedger
  <2>3. CASE scene = "cards"
    <3>1. CardsGate!GateAssumption /\ [CardsGate!Next]_CardsGate!vars
      <4>1. UNCHANGED vars => UNCHANGED CardsGate!vars
        BY DEF vars, serverVars, CardsGate!vars, CardsGate!policyVars
      <4> QED
        BY <2>3, <4>1, DayAssumption, SameCards DEF DayNext
    <3> QED
      BY <2>1, <2>3, <3>1, CardsGate!StepLedger, SameLedger
  <2>4. CASE scene = "link"
    <3>1. [Next]_vars
      BY <2>4 DEF DayNext
    <3> QED
      BY <2>1, <2>4, <3>1, LinkLedger, SameLedger
  <2> QED
    BY <2>2, <2>3, <2>4 DEF InDay
<1> QED
  BY <1>1, <1>2, SceneInvariant, SceneStays, PTL DEF DaySpec, LedgerKept, Ledger!LedgerSpec

\* In every scene a scan counts once, however often it is sent, if the phones
\* have the split menu wherever an emergency may be declared: gate_twice shows
\* what the single menu makes of a copy then.
THEOREM DayCountsOnce ==
    ASSUME MinStay >= 1, \A s \in DOMAIN PhoneKind : PhoneKind[s] # "GERBANG"
    PROVE  DaySpec => []CountsOnce
<1>1. PhonesGate!IInv => CountsOnce
  <2> SUFFICES ASSUME PhonesGate!IInv, logs["IN"] # None, logs["OUT"] # None
               PROVE  logs["IN"].scan # logs["OUT"].scan
    BY DEF CountsOnce, Server!CountsOnce
  <2>1. PhonesGate!RowOf("IN") /\ PhonesGate!RowOf("OUT")
    BY DEF PhonesGate!IInv, PhonesGate!Records, PhonesGate!Dir
  <2>2. logs["OUT"].scan \in DOMAIN PhoneKind
    BY DEF PhonesGate!IInv, PhonesGate!Types, PhonesGate!TypeOK, PhonesGate!Dir, PhonesGate!Log
  <2> QED
    BY <2>1, <2>2 DEF PhonesGate!RowOf
<1>2. CardsGate!IInv => CountsOnce
  <2> SUFFICES ASSUME CardsGate!IInv, logs["IN"] # None, logs["OUT"] # None
               PROVE  logs["IN"].scan # logs["OUT"].scan
    BY DEF CountsOnce, Server!CountsOnce
  <2>1. CardsGate!RowOf("IN") /\ CardsGate!RowOf("OUT")
    BY DEF CardsGate!IInv, CardsGate!Records, CardsGate!Dir
  <2>2. logs["OUT"].scan \in DOMAIN CardKind
    BY DEF CardsGate!IInv, CardsGate!Types, CardsGate!TypeOK, CardsGate!Dir, CardsGate!Log
  <2>3. CardKind[logs["OUT"].scan] # "GERBANG"
    BY <2>2, DayAssumption, SameCards DEF CardsGate!GateAssumption, CardsGate!Direct
  <2> QED
    BY <2>1, <2>3 DEF CardsGate!RowOf
<1>3. IInv => CountsOnce
  BY DEF IInv, Gate!IInv, Gate!Records, Gate!Calm, Gate!Clocked, Gate!Direct, Gate!CountsOnce, CountsOnce,
     Server!CountsOnce
<1>4. InDay /\ (scene = "phones" => PhonesGate!IInv) /\ (scene = "cards" => CardsGate!IInv)
        /\ (scene = "link" => IInv)
      => CountsOnce
  BY <1>1, <1>2, <1>3 DEF InDay
<1> QED
  BY <1>4, SceneInvariant, SceneStays, PTL
=============================================================================
