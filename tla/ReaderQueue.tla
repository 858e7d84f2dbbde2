---------------------------- MODULE ReaderQueue ----------------------------
(***************************************************************************)
(* The Android reader: the live scan of ScannerScreen, the offline queue   *)
(* (OfflineQueueRepository, a Room table) and its flush                    *)
(* (PendingScanRetryOrchestrator under PendingScanRetryCoordinator).       *)
(*                                                                         *)
(* One live scan and one flush run side by side, each with one request to  *)
(* the server at a time.  A request without an answer may or may not have  *)
(* reached the server.  The process may die; the table and the history     *)
(* survive it.  (Clearing the history is not durable at once: a death right *)
(* after it, or a write that had read the entries before it, brings them   *)
(* back, as if it had not been asked for.)                                 *)
(***************************************************************************)
EXTENDS Integers, FiniteSets, Sequences

CONSTANTS
    Scan,        \* scans, numbered in the order in which they are made
    Malformed,   \* rows that cannot be decrypted or parsed any more
    Odd,         \* rows whose decryption or exchange may fail in a way nobody expects
    Cap,         \* rows the queue takes (100)
    Snapshot,    \* rows one flush looks at (50)
    MaxTries,    \* MAX_PENDING_SCAN_ATTEMPTS
    Keep,        \* entries of the history (20)
    MaxTrouble,  \* bound: deaths, failed history writes, local errors that pass
    NoScan       \* null

Channel == {"live", "flush"}
\* 2xx; a 4xx that is final; 408, 425, 429 and 5xx, or an IOException.
Answers == {"ok", "reject", "retry"}
\* What the history says of a scan, and what of it is final.
Entries == {"SENT", "REJECTED", "QUEUED"}
Notes   == {"SENT", "REJECTED"}

\* Assumed by the modules that give the constants their values.
QueueAssumption ==
    /\ Scan \subseteq Nat
    /\ Malformed \subseteq Scan /\ Odd \subseteq Scan /\ Malformed \cap Odd = {}
    /\ {Cap, Snapshot, MaxTries, Keep} \subseteq Nat \ {0}
    /\ MaxTrouble \in Nat
    /\ NoScan \notin Scan /\ NoScan \notin Notes \cup {"SAVED"}

VARIABLES
    taken,     \* scans made so far
    out,       \* the request in flight on each channel
    queue,     \* rows of pending_scans
    tries,     \* their attempts column
    plan,      \* rows of the running flush's snapshot that it has yet to try
    note,      \* what the flush is about to write for its current row, or SAVED
    row,       \* the flush's current row
    history,   \* the <<scan, entry>> pairs in ScanHistoryStore, newest first
    gone,      \* outcomes the history showed and does not show any more
    excused,   \* scans whose exchange the phone could not finish or record
    trouble    \* deaths and local errors so far

flushVars == <<plan, note, row>>
storeVars == <<history, gone>>
queueVars == <<taken, out, queue, tries, flushVars, storeVars, excused, trouble>>

\* Outcomes(history): what the store says has become of which scan.
Outcomes(h) == {e \in {h[i] : i \in DOMAIN h} : e[2] \in Notes}

\* What it said at any time.
Told == Outcomes(history) \cup gone

QueueTypeOK ==
    /\ taken \subseteq Scan
    /\ out \in [Channel -> Scan \cup {NoScan}]
    /\ queue \subseteq taken
    /\ tries \in [Scan -> 0 .. MaxTries]
    /\ plan \subseteq Scan
    /\ note \in Notes \cup {"SAVED", NoScan}
    /\ row \in Scan \cup {NoScan}
    /\ history \in Seq(Scan \X Entries) /\ Len(history) <= Keep
    /\ gone \subseteq Scan \X Notes
    /\ excused \subseteq taken
    /\ trouble \in Nat

QueueInit ==
    /\ taken = {}
    /\ out = [c \in Channel |-> NoScan]
    /\ queue = {}
    /\ tries = [s \in Scan |-> 0]
    /\ plan = {}
    /\ note = NoScan
    /\ row = NoScan
    /\ history = <<>>
    /\ gone = {}
    /\ excused = {}
    /\ trouble = 0

-----------------------------------------------------------------------------
(* ScanHistoryStore.                                                       *)

Store(h) ==
    /\ history' = h
    /\ gone' = Told \ Outcomes(h)

\* add: durable once it returns; the oldest entry makes room.
Add(s, e) ==
    LET room == IF Len(history) < Keep THEN Len(history) ELSE Keep - 1
    IN  Store(<<<<s, e>>>> \o SubSeq(history, 1, room))

\* The operator empties the history (HistoryScreen).
ClearHistory ==
    /\ history # <<>>
    /\ Store(<<>>)
    /\ UNCHANGED <<taken, out, queue, tries, flushVars, excused, trouble>>

-----------------------------------------------------------------------------
(* The live scan.                                                          *)

\* scanGate lets one scan through at a time; it goes to the server at once.
Take(s) ==
    /\ out["live"] = NoScan
    /\ s \notin taken
    /\ \A r \in Scan : r < s => r \in taken
    /\ taken' = taken \cup {s}
    /\ out' = [out EXCEPT !["live"] = s]
    /\ UNCHANGED <<queue, tries, flushVars, storeVars, excused, trouble>>

\* The answer to the live scan, or the lack of one: enqueue counts all rows,
\* parked ones included, before it inserts.  A full queue is noted REJECTED.
LiveAnswer(r) ==
    LET s    == out["live"]
        full == Cardinality(queue) >= Cap
        e    == IF r = "ok" THEN "SENT"
                ELSE IF r = "retry" /\ ~full THEN "QUEUED" ELSE "REJECTED"
    IN  /\ s # NoScan
        /\ out' = [out EXCEPT !["live"] = NoScan]
        /\ queue' = IF r = "retry" /\ ~full THEN queue \cup {s} ELSE queue
        /\ Add(s, e)
        /\ UNCHANGED <<taken, tries, flushVars, excused, trouble>>

\* The scan's coroutine ends without recording the answer: the operator leaves
\* the screen, the 2xx body does not parse, or the queue or the history cannot
\* be written (a queue that cannot be written is noted REJECTED).  The row may
\* have been queued by then.
LiveForgotten ==
    /\ out["live"] # NoScan
    /\ trouble < MaxTrouble
    /\ trouble' = trouble + 1
    /\ out' = [out EXCEPT !["live"] = NoScan]
    /\ excused' = excused \cup {out["live"]}
    /\ \/ Cardinality(queue) < Cap /\ queue' = queue \cup {out["live"]} /\ UNCHANGED storeVars
       \/ UNCHANGED queue /\ (Add(out["live"], "REJECTED") \/ UNCHANGED storeVars)
    /\ UNCHANGED <<taken, tries, flushVars>>

-----------------------------------------------------------------------------
(* The flush: listForSync, then one row after the other, oldest first.     *)

Flushing == plan # {} \/ row # NoScan

Ready == {s \in queue : tries[s] < MaxTries}

\* ORDER BY createdAt LIMIT 50.
OldestOf(S) == {s \in S : Cardinality({r \in S : r < s}) < Snapshot}

\* The mutex ignores a second flush while one is running.
StartFlush ==
    /\ ~Flushing
    /\ Ready # {}
    /\ plan' = OldestOf(Ready)
    /\ UNCHANGED <<taken, out, queue, tries, note, row, storeVars, excused, trouble>>

First(S) == CHOOSE s \in S : \A r \in S : s <= r

\* The next row: sent, or given up as malformed, or not decrypted (Unexpected).
TryNext ==
    /\ row = NoScan
    /\ plan # {}
    /\ row' = First(plan)
    /\ plan' = plan \ {row'}
    /\ \/ row' \in Malformed /\ note' = "REJECTED" /\ UNCHANGED out
       \/ row' \notin Malformed /\ out' = [out EXCEPT !["flush"] = row'] /\ UNCHANGED note
       \/ row' \in Odd /\ UNCHANGED <<out, note>>
    /\ UNCHANGED <<taken, queue, tries, storeVars, excused, trouble>>

\* break: the flush is over.
Break == plan' = {} /\ row' = NoScan /\ note' = NoScan

\* A final answer is written to the history first ...
FlushFinal(r) ==
    /\ out["flush"] # NoScan
    /\ r # "retry"
    /\ note' = IF r = "ok" THEN "SENT" ELSE "REJECTED"
    /\ out' = [out EXCEPT !["flush"] = NoScan]
    /\ UNCHANGED <<taken, queue, tries, plan, row, storeVars, excused, trouble>>

\* retainRetryable: the row counts as parked if it was deleted meanwhile, or if
\* this was its last attempt.  (The code takes the count from the snapshot: only
\* the flush writes that column, and there is one flush at a time.)
Parked(s) == s \notin queue \/ tries[s] + 1 >= MaxTries

\* Mutant of FlushRetry: the attempt is not counted.
FlushRetryUncounted ==
    LET s == out["flush"] IN
    /\ s # NoScan
    /\ out' = [out EXCEPT !["flush"] = NoScan]
    /\ IF Parked(s) THEN row' = NoScan /\ UNCHANGED <<plan, note>> ELSE Break
    /\ UNCHANGED <<taken, queue, tries, storeVars, excused, trouble>>

\* No final answer: one more attempt, and the flush stops unless that parked
\* the row, so that one bad row does not hold up the others for ever.
FlushRetry ==
    LET s == out["flush"] IN
    /\ s # NoScan
    /\ out' = [out EXCEPT !["flush"] = NoScan]
    /\ tries' = IF s \in queue /\ tries[s] < MaxTries
                   THEN [tries EXCEPT ![s] = @ + 1] ELSE tries
    /\ IF Parked(s) THEN row' = NoScan /\ UNCHANGED <<plan, note>> ELSE Break
    /\ UNCHANGED <<taken, queue, storeVars, excused, trouble>>

\* ... whatever the history may say of the row already ...
WriteNote ==
    /\ note \in Notes
    /\ Add(row, note)
    /\ note' = "SAVED"
    /\ UNCHANGED <<taken, out, queue, tries, plan, row, excused, trouble>>

\* Mutant of Drop: the row goes before its history is written.
DropEarly ==
    /\ note \in Notes
    /\ queue' = queue \ {row}
    /\ row' = NoScan
    /\ note' = NoScan
    /\ UNCHANGED <<taken, out, tries, plan, storeVars, excused, trouble>>

\* Another: the row is not deleted.
DropKept ==
    /\ note = "SAVED"
    /\ row' = NoScan
    /\ note' = NoScan
    /\ UNCHANGED <<taken, out, queue, tries, plan, storeVars, excused, trouble>>

\* ... and only when that returned is the row deleted.
Drop ==
    /\ note = "SAVED"
    /\ queue' = queue \ {row}
    /\ row' = NoScan
    /\ note' = NoScan
    /\ UNCHANGED <<taken, out, tries, plan, storeVars, excused, trouble>>

\* A row that cannot be decrypted for now, or whose exchange ends in anything but
\* an answer or an IOException: noted REJECTED if that can be written, kept, no
\* attempt counted, break.  The next flush may meet the same.
FlushUnexpected ==
    /\ row \in Odd
    /\ note = NoScan
    /\ Add(row, "REJECTED") \/ UNCHANGED storeVars
    /\ out' = [out EXCEPT !["flush"] = NoScan]
    /\ Break
    /\ UNCHANGED <<taken, queue, tries, excused, trouble>>

\* What passes: the history cannot be written, the reader is not provisioned, or
\* the exchange of any row fails as above: break.
FlushTrouble ==
    /\ Flushing
    /\ trouble < MaxTrouble
    /\ trouble' = trouble + 1
    /\ out' = [out EXCEPT !["flush"] = NoScan]
    /\ \/ row \in Scan /\ note = NoScan /\ Add(row, "REJECTED")
       \/ UNCHANGED storeVars
    /\ Break
    /\ UNCHANGED <<taken, queue, tries, excused>>

-----------------------------------------------------------------------------
\* The operator empties the queue (Settings).
Clear ==
    /\ queue # {}
    /\ excused' = excused \cup queue
    /\ queue' = {}
    /\ UNCHANGED <<taken, out, tries, flushVars, storeVars, trouble>>

\* The process dies; what Room and the preferences committed stays.
Die ==
    /\ trouble < MaxTrouble
    /\ trouble' = trouble + 1
    /\ excused' = excused \cup ({out["live"]} \cap Scan)
    /\ out' = [c \in Channel |-> NoScan]
    /\ Break
    /\ UNCHANGED <<taken, queue, tries, storeVars>>

FlushStep ==
    \/ TryNext \/ FlushRetry \/ FlushUnexpected \/ WriteNote \/ Drop
    \/ \E r \in Answers : FlushFinal(r)

QueueNext ==
    \/ \E s \in Scan : Take(s)
    \/ \E r \in Answers : LiveAnswer(r)
    \/ LiveForgotten
    \/ StartFlush
    \/ FlushStep
    \/ FlushTrouble
    \/ Clear \/ ClearHistory
    \/ Die

QueueSpec == QueueInit /\ [][QueueNext]_queueVars

\* Every request ends, for the HTTP client has timeouts, and the operator or
\* the return of the network starts a flush again and again.
QueueFairness ==
    /\ WF_queueVars(StartFlush)
    /\ WF_queueVars(FlushStep)
    /\ WF_queueVars(\E r \in Answers : LiveAnswer(r))

QueueFairSpec == QueueSpec /\ QueueFairness

-----------------------------------------------------------------------------
(* Properties.                                                             *)

Noted(s) == \E n \in Notes : <<s, n>> \in Told

\* A scan the reader took is on its way, in the queue, or its outcome stands in
\* the history, or stood there until newer entries or the operator took it out:
\* neither a death of the process between two writes nor a flush that runs
\* beside a live scan drops one that the history never told of.  Excused are the
\* scans whose own coroutine ended early and those the operator cleared.
NothingForgotten ==
    \A s \in taken \ excused : s = out["live"] \/ s \in queue \/ Noted(s)

\* What the server accepted for good is not waiting to be sent again, except
\* right after a death or while the flush is about to delete it.
SettledLeaves ==
    trouble = 0 => \A s \in queue : <<s, "SENT">> \in Told => s = row

\* Every queued scan leaves the queue or is parked after its last attempt,
\* whatever the server answers: no row waits for ever behind one that the server
\* keeps refusing to answer.  It may wait behind itself or an older row that the
\* phone keeps failing on, for which no attempt counts and the flush stops.
QueueDrains ==
    \A s \in Scan :
        s \in queue ~> \/ s \notin queue \/ tries[s] >= MaxTries
                       \/ \E u \in Odd \cap Ready : u <= s
=============================================================================
