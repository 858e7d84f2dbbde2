---------------------------- MODULE ScanDelivery ----------------------------
(***************************************************************************)
(* A reader's phone and the server together: the requests of ReaderQueue   *)
(* are served by the handlers of GateServer.                               *)
(*                                                                         *)
(* A request the phone gave up goes on at the server, or is still on its   *)
(* way there, while the phone sends the scan again.  Every copy carries    *)
(* the time of the scan by the phone's clock (clientScannedAt).            *)
(***************************************************************************)
EXTENDS Integers, FiniteSets

CONSTANTS
    Scan, Malformed, Odd, Cap, Snapshot, MaxTries, Keep, MaxTrouble, \* ReaderQueue
    Kind, Handler, MaxTime, MinStay, DupWindow, MaxAge, Skew, \* GateServer
    Student, OutWindow, AsharWindow, AsharRequired, MaxFaults, MaxEmergency,
    None

VARIABLES
    taken, out, queue, tries, plan, note, row, history, gone,
    excused, trouble,
    now, logs, ashar, emergency, leaving, override, flags, job, stamp, faults,
    serving,  \* the handler that serves the request of each channel
    late      \* scans with a copy on its way that the phone gave up

Phone  == INSTANCE ReaderQueue WITH NoScan <- None
Server == INSTANCE GateServer WITH HasEventId <- {}, Unstamped <- {}

ASSUME DeliveryAssumption ==
    /\ Phone!QueueAssumption /\ Server!GateAssumption
    /\ \A s \in Scan : Kind[s] \notin Server!Direct

phoneVars  == <<taken, out, queue, tries, plan, note, row, history,
                gone, excused, trouble>>
serverVars == <<now, logs, ashar, emergency, leaving, override, flags, job, faults>>
linkVars   == <<serving, late>>
vars       == <<phoneVars, serverVars, stamp, linkVars>>

TypeOK ==
    /\ Phone!QueueTypeOK
    /\ Server!TypeOK
    /\ serving \in [Phone!Channel -> Handler \cup {None}]
    /\ \A c \in Phone!Channel : serving[c] # None => job[serving[c]].scan = out[c]
    /\ late \subseteq taken

Init ==
    /\ Phone!QueueInit
    /\ Server!Init
    /\ serving = [c \in Phone!Channel |-> None]
    /\ late = {}

-----------------------------------------------------------------------------
(* The link.                                                               *)

\* The requests that this step of the phone ends, served or not.
Ended == {c \in Phone!Channel : out[c] # None /\ out'[c] = None}

\* Mutant of Hangs: the connection outlives the request.
HangsOn ==
    /\ UNCHANGED serving
    /\ late' = late

\* What the network makes of them: a request that has not reached the server
\* may still do so.
Hangs ==
    /\ serving' = [c \in Phone!Channel |-> IF c \in Ended THEN None ELSE serving[c]]
    /\ late' \in {late, late \cup {out[c] : c \in {e \in Ended : serving[e] = None}}}

\* The phone reads a code at its own time, which may run ahead a little.
TakeScan(s) ==
    /\ Phone!Take(s)
    /\ \E ahead \in 0 .. Skew : stamp' = [stamp EXCEPT ![s] = now + ahead]
    /\ UNCHANGED <<serverVars, linkVars>>

\* Steps the phone takes on its own.
PhoneAlone ==
    /\ \/ Phone!LiveForgotten \/ Phone!StartFlush \/ Phone!TryNext \/ Phone!WriteNote
       \/ Phone!Drop \/ Phone!FlushUnexpected \/ Phone!FlushTrouble
       \/ Phone!Clear \/ Phone!ClearHistory \/ Phone!Die
    /\ Hangs
    /\ UNCHANGED <<serverVars, stamp>>

\* The phone takes r for the answer to the request on channel c.
Hears(c, r) ==
    \/ c = "live" /\ Phone!LiveAnswer(r)
    \/ c = "flush" /\ r = "retry" /\ Phone!FlushRetry
    \/ c = "flush" /\ Phone!FlushFinal(r)

\* A timeout or a broken connection, before the server has the request,
\* while it works on it, or when its answer is on the way back.
GiveUp(c) ==
    /\ Hears(c, "retry")
    /\ Hangs
    /\ UNCHANGED <<serverVars, stamp>>

Deliver(c, h) ==
    /\ out[c] # None
    /\ serving[c] = None
    /\ Server!Receive(h, out[c], stamp[out[c]])
    /\ serving' = [serving EXCEPT ![c] = h]
    /\ UNCHANGED <<phoneVars, stamp, late>>

DeliverLate(s, h) ==
    /\ s \in late
    /\ late' = late \ {s}
    /\ Server!Receive(h, s, stamp[s])
    /\ UNCHANGED <<phoneVars, stamp, serving>>

Answered(c) ==
    /\ serving[c] # None
    /\ Server!Respond(serving[c])
    /\ Hears(c, job[serving[c]].reply)
    /\ Hangs
    /\ UNCHANGED stamp

\* Nobody waits for this answer any more.
Unheard(h) ==
    /\ \A c \in Phone!Channel : serving[c] # h
    /\ Server!Respond(h)
    /\ UNCHANGED <<phoneVars, stamp, linkVars>>

ServerStep ==
    /\ \/ Server!Tick
       \/ \E h \in Handler : Server!Work(h) \/ Server!Fault(h)
    /\ UNCHANGED <<phoneVars, stamp, linkVars>>

Next ==
    \/ \E s \in Scan : TakeScan(s) \/ \E h \in Handler : DeliverLate(s, h)
    \/ PhoneAlone
    \/ \E c \in Phone!Channel :
        GiveUp(c) \/ Answered(c) \/ \E h \in Handler : Deliver(c, h)
    \/ \E h \in Handler : Unheard(h)
    \/ ServerStep

Spec == Init /\ [][Next]_vars

-----------------------------------------------------------------------------
(* Properties.                                                             *)

\* The day's records hold what scan s stood for, at its time or before.
Recorded(s) ==
    LET Has(d) == logs[d] # None /\ logs[d].at <= stamp[s]
    IN  CASE Kind[s] \in {"GATE_IN", "GERBANG"} -> Has("IN")
          [] Kind[s] = "GATE_OUT"               -> Has("OUT")
          [] Kind[s] = "MUSHOLA"                -> ashar # None

\* End to end: what the phone ever showed as sent is recorded at the server,
\* and no scan of the day disappears untold - it is on its way, in the queue, or
\* the phone's history says what became of it, or said so until newer entries or
\* the operator took that out.
Accounted ==
    \A s \in taken \ excused :
        \/ s = out["live"] \/ s \in queue
        \/ <<s, "REJECTED">> \in Phone!Told
        \/ <<s, "SENT">> \in Phone!Told /\ Recorded(s)

\* Without the emergency mode a scan counts once, however many copies of it
\* the phone's retries, its deaths and late deliveries put into the world.
CountsOnce == Server!CountsOnce
=============================================================================
