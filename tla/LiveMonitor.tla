---------------------------- MODULE LiveMonitor ----------------------------
(***************************************************************************)
(* The live monitor over server-sent events: streamLiveMonitor of          *)
(* ReportingController with the connection slots, the subscription and the *)
(* replay of OutboxService, for the streams of one user on one replica.    *)
(*                                                                         *)
(* A stream takes a slot (INCR of a Redis counter that lives an hour, or a *)
(* local counter when Redis does not answer), subscribes, sends a snapshot *)
(* of the database, replays what its Last-Event-ID names, and then passes  *)
(* on what the outbox announces.  Each of these is awaited, and meanwhile  *)
(* the client may go away: cleanup releases what the stream has so far,    *)
(* and the rest of the handler runs on.                                    *)
(*                                                                         *)
(* The publisher is Outbox seen from here: a domain transaction commits    *)
(* its row, the row is announced on the channel, the row is marked.  A     *)
(* message reaches a subscription with its PUBLISH, and the limit over all *)
(* users is not reached.                                                   *)
(***************************************************************************)
EXTENDS OutboxRows

CONSTANTS
    Stream,     \* connections the user's clients open, each one once
    PerUser,    \* SSE_MAX_CONNECTIONS_PER_USER
    MaxFaults,  \* bound: Redis commands whose reply is lost or an error
    Lapses      \* TRUE: an hour passes and the counter's key expires

MonitorAssumption ==
    /\ CreationTimed
    /\ IsFiniteSet(Stream)
    /\ PerUser \in Nat \ {0}
    /\ MaxFaults \in Nat
    /\ Lapses \in BOOLEAN

VARIABLES
    posted,   \* how far the publisher is with each row
    count,    \* the user's counter in Redis; a missing key counts as 0
    lapsed,   \* the key has expired since the first stream
    local,    \* localByUser of the replica
    step,     \* where the handler of each stream is
    left,     \* streams whose client has gone: cleanup has run
    slot,     \* which counter releaseConnection gives back
    subs,     \* streams with a subscription to the channel
    screen,   \* events the client of a stream got, as rows or as messages
    faults    \* failed Redis commands so far

monitorVars == <<posted, count, lapsed, local, step, left, slot, subs, screen, faults>>
slotVars    == <<count, lapsed, local, slot, faults>>

Posted == {"none", "committed", "announced", "marked"}
Stage   == {"new", "asked", "refused", "granted", "subscribed", "shown", "live", "over"}
Slot   == {"none", "redis", "local"}

MonitorTypeOK ==
    /\ posted \in [Event -> Posted]
    /\ count \in Int
    /\ lapsed \in BOOLEAN
    /\ local \in Nat
    /\ step \in [Stream -> Stage]
    /\ left \subseteq Stream
    /\ slot \in [Stream -> Slot]
    /\ subs \subseteq Stream
    /\ screen \in [Stream -> SUBSET Event]
    /\ faults \in Nat

MonitorInit ==
    /\ posted = [e \in Event |-> "none"]
    /\ count = 0
    /\ lapsed = FALSE
    /\ local = 0
    /\ step = [s \in Stream |-> "new"]
    /\ left = {}
    /\ slot = [s \in Stream |-> "none"]
    /\ subs = {}
    /\ screen = [s \in Stream |-> {}]
    /\ faults = 0

-----------------------------------------------------------------------------
(* Slots.                                                                  *)

Goes(s, from, to) == step[s] = from /\ step' = [step EXCEPT ![s] = to]

\* The cookie is valid and the role allowed.
Connect(s) ==
    /\ Goes(s, "new", "asked")
    /\ UNCHANGED <<posted, left, subs, screen, slotVars>>

\* incrWithTtl answers; the stream over the limit still has to take its
\* increment back.
Count(s) ==
    /\ count' = count + 1
    /\ IF count < PerUser
       THEN Goes(s, "asked", "granted") /\ slot' = [slot EXCEPT ![s] = "redis"]
       ELSE Goes(s, "asked", "refused") /\ UNCHANGED slot
    /\ UNCHANGED <<posted, lapsed, local, left, subs, screen, faults>>

\* One of the two counters does not answer, with or without having counted:
\* the replica's own count decides, and nobody takes an increment back.
CountLocally(s) ==
    /\ faults < MaxFaults
    /\ faults' = faults + 1
    /\ count' \in {count, count + 1}
    /\ IF local < PerUser
       THEN /\ Goes(s, "asked", "granted")
            /\ slot' = [slot EXCEPT ![s] = "local"]
            /\ local' = local + 1
       ELSE Goes(s, "asked", "over") /\ UNCHANGED <<slot, local>>
    /\ UNCHANGED <<posted, lapsed, left, subs, screen>>

\* DECR: done, or lost, which is not noticed.
Decrement ==
    \/ count' = count - 1 /\ UNCHANGED faults
    \/ faults < MaxFaults /\ faults' = faults + 1 /\ UNCHANGED count

TakeBack(s) ==
    /\ Goes(s, "refused", "over")
    /\ Decrement
    /\ UNCHANGED <<posted, lapsed, local, left, slot, subs, screen>>

\* The hour of the key is over.
KeyExpires ==
    /\ Lapses /\ ~lapsed /\ count # 0
    /\ lapsed' = TRUE /\ count' = 0
    /\ UNCHANGED <<posted, local, step, left, slot, subs, screen, faults>>

\* Mutant of Release: cleanup does not remember that it has run, and a slot
\* is given back twice.
ReleaseEachTime(s) ==
    /\ subs' = subs \ {s}
    /\ slot' = [slot EXCEPT ![s] = "none"]
    /\ count' = IF slot[s] = "redis" THEN count - 2 ELSE count
    /\ local' = IF slot[s] = "local" /\ local > 0 THEN local - 1 ELSE local
    /\ UNCHANGED faults

\* cleanup, the one time it does something: unsubscribe and release, as far
\* as the handler has stored them.
Release(s) ==
    /\ subs' = subs \ {s}
    /\ slot' = [slot EXCEPT ![s] = "none"]
    /\ IF slot[s] = "redis" THEN Decrement ELSE UNCHANGED <<count, faults>>
    /\ local' = IF slot[s] = "local" /\ local > 0 THEN local - 1 ELSE local

-----------------------------------------------------------------------------
(* The rest of the handler.  What it sends to a client that has gone is    *)
(* dropped, and what it acquires then nobody releases.                     *)

\* Mutant of Subscribe: a subscription that fails is passed over.
SubscribeIfPossible(s) ==
    /\ Goes(s, "granted", "subscribed")
    /\ subs' \in {subs, subs \cup {s}}
    /\ UNCHANGED <<posted, left, screen, slotVars>>

Subscribe(s) ==
    /\ Goes(s, "granted", "subscribed")
    /\ subs' = subs \cup {s}
    /\ UNCHANGED <<posted, left, screen, slotVars>>

Sends(s, E) ==
    screen' = IF s \in left THEN screen ELSE [screen EXCEPT ![s] = @ \cup E]

\* reportingService.liveMonitor: the state of the database, with what every
\* committed event is about.
SendSnapshot(s) ==
    /\ Goes(s, "subscribed", "shown")
    /\ Sends(s, {e \in Event : posted[e] # "none"})
    /\ UNCHANGED <<posted, left, subs, slotVars>>

\* replayLiveMonitor: published rows that are younger than the one the
\* client names.  An unknown id, such as a heartbeat's, names none.
Younger(a) == {e \in Event : posted[e] = "marked" /\ CreatedAt[e] > CreatedAt[a]}

\* The last await of the handler; a client that has gone leaves the
\* heartbeat, the subscription and the slot behind.
Replay(s) ==
    /\ \E E \in {{}} \cup {Younger(a) : a \in Event} : Sends(s, E)
    /\ Goes(s, "shown", IF s \in left THEN "over" ELSE "live")
    /\ UNCHANGED <<posted, left, subs, slotVars>>

\* An await throws.  After the client has gone, cleanup has had its turn.
Throws(s) ==
    /\ step[s] \in {"granted", "subscribed", "shown"}
    /\ step' = [step EXCEPT ![s] = "over"]
    /\ IF s \in left THEN UNCHANGED <<subs, slot, count, local, faults>> ELSE Release(s)
    /\ UNCHANGED <<posted, lapsed, left, screen>>

\* The client closes the stream or loses its connection.
Leave(s) ==
    /\ step[s] \notin {"new", "over"} /\ s \notin left
    /\ left' = left \cup {s}
    /\ step' = [step EXCEPT ![s] = IF @ = "live" THEN "over" ELSE @]
    /\ Release(s)
    /\ UNCHANGED <<posted, lapsed, screen>>

-----------------------------------------------------------------------------
(* The publisher.                                                          *)

Posts(e, from, to) == posted[e] \in from /\ posted' = [posted EXCEPT ![e] = to]

Commit(e) ==
    /\ Posts(e, {"none"}, "committed")
    /\ UNCHANGED <<step, left, subs, screen, slotVars>>

\* PUBLISH reaches every subscription; emitEvent drops it for a client that
\* has gone.  A failed attempt may have announced the row as well.
Announce(e) ==
    /\ Posts(e, {"committed", "announced"}, "announced")
    /\ screen' = [s \in Stream |->
                     IF s \in subs \ left THEN screen[s] \cup {e} ELSE screen[s]]
    /\ UNCHANGED <<step, left, subs, slotVars>>

MarkPosted(e) ==
    /\ Posts(e, {"announced"}, "marked")
    /\ UNCHANGED <<step, left, subs, screen, slotVars>>

-----------------------------------------------------------------------------
MonitorNext ==
    \/ \E s \in Stream :
        \/ Connect(s) \/ Count(s) \/ CountLocally(s) \/ TakeBack(s)
        \/ Subscribe(s) \/ SendSnapshot(s) \/ Replay(s) \/ Throws(s) \/ Leave(s)
    \/ KeyExpires
    \/ \E e \in Event : Commit(e) \/ Announce(e) \/ MarkPosted(e)

MonitorSpec == MonitorInit /\ [][MonitorNext]_monitorVars

-----------------------------------------------------------------------------
(* Properties.                                                             *)

\* A client that has its snapshot misses nothing that was announced, before
\* or since: streamLiveMonitor subscribes before it reads the database, so
\* that no event falls between the two.
ScreenComplete ==
    \A s \in Stream \ left, e \in Event :
        step[s] \in {"shown", "live"} /\ posted[e] \in {"announced", "marked"}
            => e \in screen[s]

Holding(kind) == {s \in Stream : slot[s] = kind /\ s \notin left}

\* Until its key expires, the Redis counter is never below the number of
\* the user's open streams that it admitted, and these are at most PerUser,
\* whatever replies are lost and whoever leaves half-way; the replica's own
\* counter keeps its limit as well (acquireSseConnection, cleanup).
LimitHolds ==
    LET redis == Cardinality(Holding("redis")) IN
    /\ ~lapsed => redis <= count /\ redis <= PerUser
    /\ Cardinality(Holding("local")) <= PerUser

\* A stream is refused for the limit only while PerUser others of the user
\* are open, or at least still at work in their handlers.
AtWork == {s \in Stream : step[s] \notin {"new", "over"}}
RefusedOnlyWhenFull ==
    [][\A s \in Stream :
          step[s] = "asked" /\ step'[s] = "refused"
              => Cardinality(AtWork \ {s}) >= PerUser]_monitorVars
=============================================================================
