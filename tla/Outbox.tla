------------------------------- MODULE Outbox -------------------------------
(***************************************************************************)
(* The transactional outbox of the API: apps/api/src/modules/outbox.       *)
(*                                                                         *)
(* A domain transaction inserts an OutboxEvent row (common/outbox-event).  *)
(* Every second each API replica starts a batch: one UPDATE ... FOR UPDATE *)
(* SKIP LOCKED claims the oldest due rows, and the batch then publishes    *)
(* them one by one: XADD to the Redis stream, PUBLISH to the channel, and  *)
(* a last UPDATE of the row.  Batches overlap (setInterval does not wait   *)
(* for the previous one, and there are several replicas), Redis calls      *)
(* return null on any failure, and a process can die between two calls.    *)
(***************************************************************************)
EXTENDS OutboxRows

CONSTANTS
    Batch,        \* concurrent publishPendingBatch calls, over all replicas
    Limit,        \* rows one claim takes at most
    MaxAttempts,  \* MAX_ATTEMPTS
    MaxLost,      \* bound: batches that die before they are done
    MaxDbErrors,  \* bound: failed UPDATEs of a row, applied or not
    Recovers,     \* TRUE: somebody calls recoverStalePublishing
    Slow,         \* TRUE: a batch may hold a row for longer than its lock
    None          \* SQL NULL, and "no row in hand"

ASSUME OutboxAssumption ==
    /\ CreationTimed
    /\ Limit \in Nat \ {0}
    /\ MaxAttempts \in Nat \ {0}
    /\ MaxLost \in Nat
    /\ MaxDbErrors \in Nat
    /\ Recovers \in BOOLEAN
    /\ Slow \in BOOLEAN
    /\ None \notin Event

\* Domain transactions write finitely many rows.
ASSUME FiniteRows == IsFiniteSet(Event)

VARIABLES
    status,       \* OutboxEvent.status; ABSENT before the row is inserted
    attempts,     \* OutboxEvent.attempts
    lockStale,    \* rows whose lockedAt is older than PUBLISHER_LOCK_MS
    publishedAt,  \* rows with OutboxEvent.publishedAt IS NOT NULL
    streamed,     \* entries of the Redis stream that carry the row
    hand,         \* rows a batch has claimed and not finished
    current,      \* the row publishOne is working on
    pc,           \* where publishOne is
    seen,         \* event.attempts as RETURNED by the claim, per batch
    lost,         \* batches that died so far
    dbErrors      \* failed row updates so far

rowVars   == <<status, attempts, lockStale, publishedAt>>
batchVars == <<hand, current, pc, seen>>
vars      == <<rowVars, streamed, batchVars, lost, dbErrors>>

Status == {"ABSENT", "PENDING", "PUBLISHING", "PUBLISHED", "RETRY", "DLQ"}
Step   == {"xadd", "publish", "mark", "fail"}

TypeOK ==
    /\ status \in [Event -> Status]
    /\ attempts \in [Event -> Nat]
    /\ lockStale \subseteq Event
    /\ publishedAt \subseteq Event
    /\ streamed \in [Event -> Nat]
    /\ hand \in [Batch -> SUBSET Event]
    /\ current \in [Batch -> Event \cup {None}]
    /\ pc \in [Batch -> Step]
    /\ seen \in [Batch -> [Event -> Nat]]
    /\ lost \in Nat
    /\ dbErrors \in Nat

Init ==
    /\ status = [e \in Event |-> "ABSENT"]
    /\ attempts = [e \in Event |-> 0]
    /\ lockStale = {}
    /\ publishedAt = {}
    /\ streamed = [e \in Event |-> 0]
    /\ hand = [b \in Batch |-> {}]
    /\ current = [b \in Batch |-> None]
    /\ pc = [b \in Batch |-> "xadd"]
    /\ seen = [b \in Batch |-> [e \in Event |-> 0]]
    /\ lost = 0
    /\ dbErrors = 0

-----------------------------------------------------------------------------
(* The producers and the claim.                                            *)

\* A domain transaction commits, and with it its OutboxEvent row.  createdAt
\* is the transaction's start, so rows do not appear in createdAt order.
Write(e) ==
    /\ status[e] = "ABSENT"
    /\ status' = [status EXCEPT ![e] = "PENDING"]
    /\ UNCHANGED <<attempts, lockStale, publishedAt, streamed, batchVars,
                   lost, dbErrors>>

\* Two plausible slips in the claim, used as mutants of Claimable: stealing
\* rows whose lock is old, and forgetting the RETRY rows.
ClaimableIncludingStale ==
    {e \in Event \ publishedAt : status[e] \in {"PENDING", "RETRY"} \/ e \in lockStale}

ClaimableOnlyPending == {e \in Event : status[e] = "PENDING"}

\* Rows the claim's WHERE selects.  A PENDING or RETRY row has lockedAt NULL:
\* every update that leaves PUBLISHING clears it.
Claimable == {e \in Event \ publishedAt : status[e] \in {"PENDING", "RETRY"}}

\* ORDER BY createdAt LIMIT n, ties broken arbitrarily.
OldestFirst(S, C) ==
    /\ S \subseteq C
    /\ Cardinality(S) = IF Cardinality(C) < Limit THEN Cardinality(C) ELSE Limit
    /\ \A e \in S, f \in C \ S : CreatedAt[e] <= CreatedAt[f]

Claim(b) ==
    /\ hand[b] = {}
    /\ \E S \in SUBSET Claimable :
        /\ S # {}
        /\ OldestFirst(S, Claimable)
        /\ status' = [e \in Event |-> IF e \in S THEN "PUBLISHING" ELSE status[e]]
        /\ attempts' = [e \in Event |->
                           IF e \in S THEN attempts[e] + 1 ELSE attempts[e]]
        /\ lockStale' = lockStale \ S
        /\ hand' = [hand EXCEPT ![b] = S]
        /\ seen' = [seen EXCEPT ![b] = attempts']
    /\ UNCHANGED <<publishedAt, streamed, current, pc, lost, dbErrors>>

-----------------------------------------------------------------------------
(* publishOne, one external call at a time.  RETURNING gives no order, so  *)
(* the batch may take its rows in any order.                               *)

\* this.redis.xAdd: an entry is added and its id returned, or the call
\* returns null, with or without the entry having reached the stream.
XAdd(b) ==
    /\ pc[b] = "xadd"
    /\ \E e \in hand[b], reply, added \in BOOLEAN :
        /\ reply => added
        /\ current' = [current EXCEPT ![b] = e]
        /\ pc' = [pc EXCEPT ![b] = IF reply THEN "publish" ELSE "fail"]
        /\ streamed' = [streamed EXCEPT ![e] = IF added THEN @ + 1 ELSE @]
    /\ UNCHANGED <<rowVars, hand, seen, lost, dbErrors>>

\* this.redis.publish: the number of subscribers, or null on a failure.
PubSub(b) ==
    /\ pc[b] = "publish"
    /\ \E reply \in BOOLEAN :
        pc' = [pc EXCEPT ![b] = IF reply THEN "mark" ELSE "fail"]
    /\ UNCHANGED <<rowVars, streamed, hand, current, seen, lost, dbErrors>>

\* Mutant of Done: a row that is finished ends the whole batch.
DoneWithAll(b, e) ==
    /\ hand' = [hand EXCEPT ![b] = {}]
    /\ current' = [current EXCEPT ![b] = None]
    /\ pc' = [pc EXCEPT ![b] = "xadd"]

\* The batch is done with e and turns to its next row.
Done(b, e) ==
    /\ hand' = [hand EXCEPT ![b] = @ \ {e}]
    /\ current' = [current EXCEPT ![b] = None]
    /\ pc' = [pc EXCEPT ![b] = "xadd"]

MarkedPublished(e) ==
    /\ status' = [status EXCEPT ![e] = "PUBLISHED"]
    /\ publishedAt' = publishedAt \cup {e}
    /\ lockStale' = lockStale \ {e}

\* The UPDATE to PUBLISHED, WHERE id = event.id and nothing else.
Mark(b) ==
    /\ pc[b] = "mark"
    /\ MarkedPublished(current[b])
    /\ Done(b, current[b])
    /\ UNCHANGED <<attempts, streamed, seen, lost, dbErrors>>

\* The same UPDATE throws: the catch block runs.  The connection may have
\* failed after the server committed the statement.
MarkThrows(b) ==
    /\ pc[b] = "mark"
    /\ dbErrors < MaxDbErrors
    /\ dbErrors' = dbErrors + 1
    /\ \/ MarkedPublished(current[b])
       \/ UNCHANGED <<status, publishedAt, lockStale>>
    /\ pc' = [pc EXCEPT ![b] = "fail"]
    /\ UNCHANGED <<attempts, streamed, hand, current, seen, lost>>

\* What the catch block makes of a row after its n-th attempt, and two
\* mutants: one attempt too many, a status nobody reads.
AfterLate(n)   == IF n > MaxAttempts THEN "DLQ" ELSE "RETRY"
AfterFailed(n) == IF n >= MaxAttempts THEN "FAILED" ELSE "RETRY"
After(n)       == IF n >= MaxAttempts THEN "DLQ" ELSE "RETRY"

\* The catch block.  It updates by id, whatever the row says by now, and
\* leaves publishedAt alone.
Fail(b) ==
    /\ pc[b] = "fail"
    /\ LET e == current[b] IN
        /\ status' = [status EXCEPT ![e] = After(seen[b][e])]
        /\ lockStale' = lockStale \ {e}
        /\ Done(b, e)
    /\ UNCHANGED <<attempts, publishedAt, streamed, seen, lost, dbErrors>>

\* The process dies, or the catch block's own UPDATE throws and rejects
\* publishPendingBatch: in both cases the rest of the batch is forgotten.
Abandoned(b) ==
    /\ hand' = [hand EXCEPT ![b] = {}]
    /\ current' = [current EXCEPT ![b] = None]
    /\ pc' = [pc EXCEPT ![b] = "xadd"]

Lose(b) ==
    /\ hand[b] # {}
    /\ lost < MaxLost
    /\ lost' = lost + 1
    /\ Abandoned(b)
    /\ UNCHANGED <<rowVars, streamed, seen, dbErrors>>

-----------------------------------------------------------------------------
(* Stale locks.                                                            *)

\* PUBLISHER_LOCK_MS pass since the claim.  A batch may still be alive then,
\* for it publishes up to 100 rows one after the other: Slow allows that.
LockExpires(e) ==
    /\ status[e] = "PUBLISHING"
    /\ Slow \/ \A b \in Batch : e \notin hand[b]
    /\ e \notin lockStale
    /\ lockStale' = lockStale \cup {e}
    /\ UNCHANGED <<status, attempts, publishedAt, streamed, batchVars,
                   lost, dbErrors>>

Stale == {e \in lockStale \ publishedAt : status[e] = "PUBLISHING"}

\* recoverStalePublishing.  In the repository only the distributed test
\* suite calls it; Recovers says whether an operator does so too.
Recover ==
    /\ Recovers
    /\ Stale # {}
    /\ status' = [e \in Event |-> IF e \in Stale THEN "RETRY" ELSE status[e]]
    /\ lockStale' = lockStale \ Stale
    /\ UNCHANGED <<attempts, publishedAt, streamed, batchVars, lost, dbErrors>>

-----------------------------------------------------------------------------
Publish(b) == XAdd(b) \/ PubSub(b) \/ Mark(b) \/ Fail(b)

Next ==
    \/ \E e \in Event : Write(e) \/ LockExpires(e)
    \/ \E b \in Batch : Claim(b) \/ Publish(b) \/ MarkThrows(b) \/ Lose(b)
    \/ Recover

Spec == Init /\ [][Next]_vars

\* The timer fires again and again, a live batch makes its next call, and
\* time passes.  Nothing obliges Redis or the database to answer well.
Fairness ==
    /\ \A b \in Batch : WF_vars(Claim(b)) /\ WF_vars(Publish(b))
    /\ \A e \in Event : WF_vars(LockExpires(e))
    /\ WF_vars(Recover)

FairSpec == Spec /\ Fairness

-----------------------------------------------------------------------------
(* Properties.                                                             *)

\* Two batches never hold the same row, although they overlap and claim
\* without waiting for one another (claimPending's FOR UPDATE SKIP LOCKED
\* together with the status it leaves behind).
ClaimExclusive ==
    \A b, c \in Batch : b # c => hand[b] \cap hand[c] = {}

\* A row that says it was published is in the stream: no failure of Redis
\* or of the database makes publishOne mark a row it did not send.
PublishedWasStreamed == \A e \in publishedAt : streamed[e] > 0

\* Consumers see an event at most once per attempt, and a row gets at most
\* MAX_ATTEMPTS of them, whatever fails in between.
CopiesBounded == \A e \in Event : streamed[e] <= attempts[e] /\ attempts[e] <= MaxAttempts

\* A row is given up only after its last attempt.
DlqOnlyExhausted == \A e \in Event : status[e] = "DLQ" => attempts[e] >= MaxAttempts

\* Rows are left behind in PUBLISHING by a batch that died, and by nothing
\* else: a batch that lives settles every row it claimed, failures included.
Orphans == {e \in Event : status[e] = "PUBLISHING" /\ \A b \in Batch : e \notin hand[b]}
OnlyLossOrphans == Cardinality(Orphans) <= lost * Limit

\* A row somebody still works on is never offered to a second batch: while
\* it is in a batch's hand its row says PUBLISHING, or it is out of reach
\* of the claim because it is already marked.
InHandNotClaimable == \A b \in Batch : hand[b] \cap Claimable = {}

\* Every row that is written is published or given up: no row is left
\* half-way for good.
Settled == \A e \in Event :
    status[e] = "PENDING" ~> status[e] \in {"PUBLISHED", "DLQ"}

\* A row whose publication was recorded keeps the status that the replay
\* query of replayLiveMonitor asks for.
PublishedReplayable == \A e \in publishedAt : status[e] = "PUBLISHED"
=============================================================================
