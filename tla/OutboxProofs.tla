---------------------------- MODULE OutboxProofs ----------------------------
(***************************************************************************)
(* Theorems about Outbox, for any rows, batches, limits and failures, and  *)
(* about LiveMonitor, which reads its rows, for any number of streams and  *)
(* any limit.                                                              *)
(*                                                                         *)
(* Exclusion and the stream facts do not hold by themselves: they need to  *)
(* know what a row says while a batch holds it (HeldRows), where a batch   *)
(* is with its row (InHand), and that a batch never outlives its lock when *)
(* somebody recovers stale rows (LockInv).  A monitor misses no event and  *)
(* keeps its limit by invariants of its own (below).                       *)
(***************************************************************************)
EXTENDS MCQueues, FiniteSetTheorems, TLAPS

\* While a batch holds a row, the row says PUBLISHING or is marked already.
HeldRows ==
    \A b \in Batch : \A e \in hand[b] : status[e] = "PUBLISHING" \/ e \in publishedAt

\* Past the XADD a batch is at work on a row of its own.
InHand == \A b \in Batch : pc[b] # "xadd" => current[b] \in hand[b]

\* A row on its way to being marked has reached the stream.
SentBeforeMark ==
    \A b \in Batch : pc[b] \in {"publish", "mark"} => streamed[current[b]] > 0

\* A batch lets go of its rows before their lock is stale.
LockInv ==
    ~Slow => \A b \in Batch : hand[b] \cap lockStale = {}

IInv ==
    /\ TypeOK
    /\ ClaimExclusive
    /\ HeldRows
    /\ InHand
    /\ SentBeforeMark
    /\ LockInv
    /\ PublishedWasStreamed

-----------------------------------------------------------------------------
\* Init establishes the inductive invariant.
LEMMA InitIInv == Init => IInv
BY OutboxAssumption
   DEF Init, IInv, TypeOK, ClaimExclusive, HeldRows, InHand, SentBeforeMark,
       LockInv, PublishedWasStreamed, Status, Step

\* Every step keeps every variable in its type.
LEMMA TypeStep == TypeOK /\ InHand /\ [Next]_vars => TypeOK'
<1> SUFFICES ASSUME TypeOK, InHand, [Next]_vars PROVE TypeOK'
  OBVIOUS
<1> USE OutboxAssumption DEF CreationTimed, TypeOK, Status, Step, rowVars, batchVars
<1>0. \A b \in Batch : pc[b] # "xadd" => current[b] \in Event
  BY DEF InHand
<1>1. ASSUME NEW e \in Event, Write(e) PROVE TypeOK'
  BY <1>1 DEF Write
<1>2. ASSUME NEW e \in Event, LockExpires(e) PROVE TypeOK'
  BY <1>2 DEF LockExpires
<1>3. ASSUME NEW b \in Batch, Claim(b) PROVE TypeOK'
  BY <1>3 DEF Claim, Claimable
<1>4. ASSUME NEW b \in Batch, XAdd(b) PROVE TypeOK'
  BY <1>4 DEF XAdd
<1>5. ASSUME NEW b \in Batch, PubSub(b) PROVE TypeOK'
  BY <1>5 DEF PubSub
<1>6. ASSUME NEW b \in Batch, Mark(b) PROVE TypeOK'
  BY <1>0, <1>6 DEF Mark, MarkedPublished, Done
<1>7. ASSUME NEW b \in Batch, MarkThrows(b) PROVE TypeOK'
  BY <1>0, <1>7 DEF MarkThrows, MarkedPublished
<1>8. ASSUME NEW b \in Batch, Fail(b) PROVE TypeOK'
  BY <1>8 DEF Fail, After, Done
<1>9. ASSUME NEW b \in Batch, Lose(b) PROVE TypeOK'
  BY <1>9 DEF Lose, Abandoned
<1>10. CASE Recover
  BY <1>10 DEF Recover
<1>11. CASE UNCHANGED vars
  BY <1>11 DEF vars
<1> QED
  BY <1>1, <1>2, <1>3, <1>4, <1>5, <1>6, <1>7, <1>8, <1>9, <1>10, <1>11
     DEF Next, Publish

\* The step lemma: no step breaks the invariant, provided that whoever
\* recovers stale rows can rely on their batches being gone.
LEMMA StepIInv ==
    ASSUME ~(Recovers /\ Slow)
    PROVE  IInv /\ [Next]_vars => IInv'
<1> SUFFICES ASSUME IInv, [Next]_vars PROVE IInv'
  OBVIOUS
<1> USE DEF IInv, rowVars, batchVars
<1>t. TypeOK'
  BY TypeStep
<1>1. ASSUME NEW e \in Event, Write(e) PROVE IInv'
  BY <1>1, <1>t DEF Write, TypeOK, ClaimExclusive, HeldRows, InHand,
                    SentBeforeMark, LockInv, PublishedWasStreamed
<1>2. ASSUME NEW e \in Event, LockExpires(e) PROVE IInv'
  BY <1>2, <1>t DEF LockExpires, TypeOK, ClaimExclusive, HeldRows, InHand,
                    SentBeforeMark, LockInv, PublishedWasStreamed
<1>3. ASSUME NEW b \in Batch, Claim(b) PROVE IInv'
  <2>1. PICK S \in SUBSET Claimable :
            /\ status' = [e \in Event |-> IF e \in S THEN "PUBLISHING" ELSE status[e]]
            /\ lockStale' = lockStale \ S
            /\ hand' = [hand EXCEPT ![b] = S]
    BY <1>3 DEF Claim
  <2>2. /\ S \subseteq Event
        /\ UNCHANGED <<publishedAt, streamed, current, pc>>
        /\ hand[b] = {}
    BY <1>3 DEF Claim, Claimable
  <2>3. \A c \in Batch : hand[c] \cap S = {}
    BY DEF HeldRows, Claimable
  <2>4. ClaimExclusive'
    BY <2>1, <2>3 DEF ClaimExclusive, TypeOK
  <2>5. HeldRows'
    BY <2>1, <2>2, <2>3 DEF HeldRows, TypeOK
  <2>6. pc[b] = "xadd"
    BY <2>2 DEF InHand
  <2>7. InHand' /\ SentBeforeMark'
    BY <2>1, <2>2, <2>6 DEF InHand, SentBeforeMark, TypeOK
  <2>8. LockInv' /\ PublishedWasStreamed'
    BY <2>1, <2>2 DEF LockInv, PublishedWasStreamed, TypeOK
  <2> QED
    BY <1>t, <2>4, <2>5, <2>7, <2>8
<1>4. ASSUME NEW b \in Batch, XAdd(b) PROVE IInv'
  BY <1>4, <1>t DEF XAdd, TypeOK, ClaimExclusive, HeldRows, InHand,
                    SentBeforeMark, LockInv, PublishedWasStreamed, Step
<1>5. ASSUME NEW b \in Batch, PubSub(b) PROVE IInv'
  BY <1>5, <1>t DEF PubSub, TypeOK, ClaimExclusive, HeldRows, InHand,
                    SentBeforeMark, LockInv, PublishedWasStreamed
<1>6. ASSUME NEW b \in Batch, Mark(b) PROVE IInv'
  <2>1. current[b] \in hand[b] /\ current[b] \in Event
    BY <1>6 DEF Mark, InHand, TypeOK
  <2> QED
    BY <1>6, <1>t, <2>1 DEF Mark, MarkedPublished, Done, TypeOK,
       ClaimExclusive, HeldRows, InHand, SentBeforeMark, LockInv,
       PublishedWasStreamed
<1>7. ASSUME NEW b \in Batch, MarkThrows(b) PROVE IInv'
  <2>1. current[b] \in hand[b] /\ current[b] \in Event
    BY <1>7 DEF MarkThrows, InHand, TypeOK
  <2> QED
    BY <1>7, <1>t, <2>1 DEF MarkThrows, MarkedPublished, TypeOK,
       ClaimExclusive, HeldRows, InHand, SentBeforeMark, LockInv,
       PublishedWasStreamed
<1>8. ASSUME NEW b \in Batch, Fail(b) PROVE IInv'
  <2>1. current[b] \in hand[b] /\ current[b] \in Event
    BY <1>8 DEF Fail, InHand, TypeOK
  <2> QED
    BY <1>8, <1>t, <2>1 DEF Fail, Done, TypeOK, ClaimExclusive, HeldRows,
       InHand, SentBeforeMark, LockInv, PublishedWasStreamed
<1>9. ASSUME NEW b \in Batch, Lose(b) PROVE IInv'
  BY <1>9, <1>t DEF Lose, Abandoned, TypeOK, ClaimExclusive, HeldRows, InHand,
                    SentBeforeMark, LockInv, PublishedWasStreamed
<1>10. CASE Recover
  BY <1>10, <1>t DEF Recover, Stale, TypeOK, ClaimExclusive, HeldRows, InHand,
                     SentBeforeMark, LockInv, PublishedWasStreamed
<1>11. CASE UNCHANGED vars
  BY <1>11, <1>t DEF vars, TypeOK, ClaimExclusive, HeldRows, InHand,
                     SentBeforeMark, LockInv, PublishedWasStreamed
<1> QED
  BY <1>1, <1>2, <1>3, <1>4, <1>5, <1>6, <1>7, <1>8, <1>9, <1>10, <1>11
     DEF Next, Publish

\* The invariant holds of the program as it runs, and of one that recovers
\* stale rows if batches finish within PUBLISHER_LOCK_MS.
THEOREM Invariant == ASSUME ~(Recovers /\ Slow) PROVE Spec => []IInv
<1>1. IInv /\ [Next]_vars => IInv'
  BY StepIInv
<1> QED
  BY <1>1, InitIInv, PTL DEF Spec

\* Part of it needs no such proviso: a late recovery makes batches share a
\* row, but neither confuses a batch about its own row nor marks an unsent one.
Unconditional == TypeOK /\ InHand /\ SentBeforeMark /\ PublishedWasStreamed

LEMMA UnconditionalHolds == Spec => []Unconditional
<1>1. Init => Unconditional
  BY InitIInv DEF IInv, Unconditional
<1>2. Unconditional /\ [Next]_vars => Unconditional'
  <2> SUFFICES ASSUME Unconditional, [Next]_vars
               PROVE  (InHand /\ SentBeforeMark /\ PublishedWasStreamed)'
    BY TypeStep DEF Unconditional
  <2> USE DEF Unconditional, TypeOK, InHand, SentBeforeMark,
              PublishedWasStreamed, rowVars, batchVars, Done, Abandoned
  <2>1. ASSUME NEW e \in Event, Write(e) \/ LockExpires(e)
        PROVE  (InHand /\ SentBeforeMark /\ PublishedWasStreamed)'
    BY <2>1 DEF Write, LockExpires
  <2>2. ASSUME NEW b \in Batch, Claim(b)
        PROVE  (InHand /\ SentBeforeMark /\ PublishedWasStreamed)'
    BY <2>2 DEF Claim
  <2>3. ASSUME NEW b \in Batch, XAdd(b)
        PROVE  (InHand /\ SentBeforeMark /\ PublishedWasStreamed)'
    BY <2>3 DEF XAdd, Step
  <2>7. ASSUME NEW b \in Batch, PubSub(b)
        PROVE  (InHand /\ SentBeforeMark /\ PublishedWasStreamed)'
    BY <2>7 DEF PubSub
  <2>4. ASSUME NEW b \in Batch, Mark(b) \/ MarkThrows(b)
        PROVE  (InHand /\ SentBeforeMark /\ PublishedWasStreamed)'
    BY <2>4 DEF Mark, MarkThrows, MarkedPublished
  <2>5. ASSUME NEW b \in Batch, Fail(b) \/ Lose(b)
        PROVE  (InHand /\ SentBeforeMark /\ PublishedWasStreamed)'
    BY <2>5 DEF Fail, Lose
  <2>6. CASE Recover \/ UNCHANGED vars
    BY <2>6 DEF Recover, vars
  <2> QED
    BY <2>1, <2>2, <2>3, <2>4, <2>5, <2>6, <2>7 DEF Next, Publish
<1> QED
  BY <1>1, <1>2, PTL DEF Spec

\* Spec keeps every variable in its type, recovery or not: rows and batches
\* of the model never take a value the columns and locals cannot have.
THEOREM TypeCorrect == Spec => []TypeOK
<1>1. Unconditional => TypeOK
  BY DEF Unconditional
<1> QED
  BY <1>1, UnconditionalHolds, PTL

\* publishOne marks no row that it did not send to the stream, whatever
\* fails, whoever recovers rows and however late.
THEOREM NothingMarkedUnsent == Spec => []PublishedWasStreamed
<1>1. Unconditional => PublishedWasStreamed
  BY DEF Unconditional
<1> QED
  BY <1>1, UnconditionalHolds, PTL

\* Two batches never hold the same row (publishPendingBatch overlaps with
\* itself and with the other replicas).
THEOREM Exclusion == ASSUME ~(Recovers /\ Slow) PROVE Spec => []ClaimExclusive
<1>1. IInv => ClaimExclusive
  BY DEF IInv
<1> QED
  BY <1>1, Invariant, PTL

\* A row in some batch's hand is not offered to another by the claim's WHERE.
THEOREM HeldRowsUnclaimable ==
    ASSUME ~(Recovers /\ Slow) PROVE Spec => []InHandNotClaimable
<1>1. IInv => InHandNotClaimable
  BY DEF IInv, HeldRows, InHandNotClaimable, Claimable
<1> QED
  BY <1>1, Invariant, PTL

-----------------------------------------------------------------------------
(* How often a row is sent.                                                *)

\* A batch that has sent nothing yet has no row at work, and of every row it
\* has still to send there are fewer copies than attempts.
Counters ==
    /\ \A e \in Event : status[e] \in {"ABSENT", "PENDING"} => attempts[e] = 0
    /\ \A e \in Claimable : attempts[e] < MaxAttempts
    /\ \A e \in Event : status[e] = "DLQ" => attempts[e] >= MaxAttempts
    /\ CopiesBounded
    /\ \A b \in Batch : pc[b] = "xadd" => current[b] = None
    /\ \A b \in Batch : \A e \in hand[b] :
        /\ seen[b][e] = attempts[e]
        /\ e # current[b] => streamed[e] < attempts[e]

LEMMA StepCounters ==
    ASSUME ~Recovers
    PROVE  IInv /\ Counters /\ [Next]_vars => Counters'
<1> SUFFICES ASSUME IInv, Counters, [Next]_vars PROVE Counters'
  OBVIOUS
<1> USE OutboxAssumption DEF CreationTimed, IInv, TypeOK, rowVars, batchVars
<1>1. ASSUME NEW e \in Event, Write(e) PROVE Counters'
  BY <1>1 DEF Write, Counters, CopiesBounded, Claimable
<1>2. ASSUME NEW e \in Event, LockExpires(e) PROVE Counters'
  BY <1>2 DEF LockExpires, Counters, CopiesBounded, Claimable
<1>3. ASSUME NEW b \in Batch, Claim(b) PROVE Counters'
  <2>1. PICK S \in SUBSET Claimable :
            /\ status' = [e \in Event |-> IF e \in S THEN "PUBLISHING" ELSE status[e]]
            /\ attempts' = [e \in Event |->
                               IF e \in S THEN attempts[e] + 1 ELSE attempts[e]]
            /\ hand' = [hand EXCEPT ![b] = S]
            /\ seen' = [seen EXCEPT ![b] = attempts']
    BY <1>3 DEF Claim
  <2>2. /\ S \subseteq Event
        /\ UNCHANGED <<publishedAt, streamed, current, pc>>
    BY <1>3 DEF Claim, Claimable
  <2>3. \A c \in Batch : hand[c] \cap S = {}
    BY DEF HeldRows, Claimable
  <2>4. \A e \in S : attempts[e] < MaxAttempts /\ attempts[e] \in Nat
                     /\ streamed[e] \in Nat /\ streamed[e] <= attempts[e]
    BY <2>2 DEF Counters, CopiesBounded
  <2>5. \A e \in Event : /\ e \in S => attempts'[e] = attempts[e] + 1
                         /\ e \notin S => attempts'[e] = attempts[e]
    BY <2>1
  <2>6. Claimable' \subseteq Claimable \ S
    BY <2>1, <2>2 DEF Claimable
  <2>7. CopiesBounded'
    BY <2>2, <2>4, <2>5 DEF Counters, CopiesBounded
  <2>8. \A c \in Batch : \A e \in hand'[c] :
            /\ seen'[c][e] = attempts'[e]
            /\ e # current'[c] => streamed'[e] < attempts'[e]
    <3> SUFFICES ASSUME NEW c \in Batch, NEW e \in hand'[c]
                 PROVE  /\ seen'[c][e] = attempts'[e]
                        /\ e # current[c] => streamed[e] < attempts'[e]
      BY <2>2
    <3>1. CASE c = b
      <4>1. e \in S
        BY <2>1, <3>1
      <4> QED
        BY <2>1, <2>2, <2>4, <2>5, <3>1, <4>1
    <3>2. CASE c # b
      <4>1. e \in hand[c] /\ e \notin S /\ e \in Event
        BY <2>1, <2>3, <3>2
      <4> QED
        BY <2>1, <2>5, <3>2, <4>1 DEF Counters
    <3> QED
      BY <3>1, <3>2
  <2>9. /\ \A e \in Event : status'[e] \in {"ABSENT", "PENDING"} => attempts'[e] = 0
        /\ \A e \in Event : status'[e] = "DLQ" => attempts'[e] >= MaxAttempts
    BY <2>1, <2>5 DEF Counters
  <2> QED
    BY <2>2, <2>5, <2>6, <2>7, <2>8, <2>9 DEF Counters, Claimable
<1>4. ASSUME NEW b \in Batch, XAdd(b) PROVE Counters'
  <2>1. PICK e \in hand[b], n \in BOOLEAN :
            /\ current' = [current EXCEPT ![b] = e]
            /\ streamed' = [streamed EXCEPT ![e] = IF n THEN @ + 1 ELSE @]
            /\ pc'[b] \in {"publish", "fail"}
            /\ \A c \in Batch : c # b => pc'[c] = pc[c]
    BY <1>4 DEF XAdd
  <2>2. /\ UNCHANGED <<status, attempts, publishedAt, hand, seen>>
        /\ current[b] = None /\ e # None /\ e \in Event
        /\ \A c \in Batch : c # b => e \notin hand[c]
    BY <1>4, <2>1 DEF XAdd, Counters, ClaimExclusive
  <2>3. streamed[e] < attempts[e]
    BY <2>1, <2>2 DEF Counters
  <2>4. \A f \in Event : /\ f # e => streamed'[f] = streamed[f]
                         /\ streamed'[f] <= attempts[f]
    BY <2>1, <2>2, <2>3 DEF Counters, CopiesBounded
  <2> QED
    BY <2>1, <2>2, <2>4 DEF Counters, CopiesBounded, Claimable
<1>5. ASSUME NEW b \in Batch, PubSub(b) PROVE Counters'
  BY <1>5 DEF PubSub, Counters, CopiesBounded, Claimable
<1>6. ASSUME NEW b \in Batch, Mark(b) PROVE Counters'
  <2>1. current[b] \in hand[b] /\ current[b] \in Event
    BY <1>6 DEF Mark, InHand
  <2> QED
    BY <1>6, <2>1 DEF Mark, MarkedPublished, Done, Counters, CopiesBounded,
                      Claimable
<1>7. ASSUME NEW b \in Batch, MarkThrows(b) PROVE Counters'
  <2>1. current[b] \in hand[b] /\ current[b] \in Event
    BY <1>7 DEF MarkThrows, InHand
  <2> QED
    BY <1>7, <2>1 DEF MarkThrows, MarkedPublished, Counters, CopiesBounded,
                      Claimable
<1>8. ASSUME NEW b \in Batch, Fail(b) PROVE Counters'
  <2>1. current[b] \in hand[b] /\ current[b] \in Event
    BY <1>8 DEF Fail, InHand
  <2>2. seen[b][current[b]] = attempts[current[b]]
    BY <2>1 DEF Counters
  <2> QED
    BY <1>8, <2>1, <2>2 DEF Fail, After, Done, Counters, CopiesBounded, Claimable
<1>9. ASSUME NEW b \in Batch, Lose(b) PROVE Counters'
  BY <1>9 DEF Lose, Abandoned, Counters, CopiesBounded, Claimable
<1>10. CASE UNCHANGED vars
  BY <1>10 DEF vars, Counters, CopiesBounded, Claimable
<1> QED
  BY <1>1, <1>2, <1>3, <1>4, <1>5, <1>6, <1>7, <1>8, <1>9, <1>10
     DEF Next, Publish, Recover

\* As long as nobody recovers stale rows, a row is claimed at most
\* MAX_ATTEMPTS times and sent at most once per claim.
THEOREM AtMostMaxAttempts == ASSUME ~Recovers PROVE Spec => []CopiesBounded
<1>1. Init => Counters
  BY OutboxAssumption DEF CreationTimed, Init, Counters, CopiesBounded, Claimable
<1>2. IInv /\ Counters /\ [Next]_vars => Counters'
  BY StepCounters
<1>3. Spec => []IInv
  BY Invariant
<1>4. Counters => CopiesBounded
  BY DEF Counters
<1> QED
  BY <1>1, <1>2, <1>3, <1>4, PTL DEF Spec

\* A row ends in DLQ only when its attempts are used up.
THEOREM DlqExhausted == ASSUME ~Recovers PROVE Spec => []DlqOnlyExhausted
<1>1. Init => Counters
  BY OutboxAssumption DEF CreationTimed, Init, Counters, CopiesBounded, Claimable
<1>2. IInv /\ Counters /\ [Next]_vars => Counters'
  BY StepCounters
<1>3. Spec => []IInv
  BY Invariant
<1>4. Counters => DlqOnlyExhausted
  BY DEF Counters, DlqOnlyExhausted
<1> QED
  BY <1>1, <1>2, <1>3, <1>4, PTL DEF Spec

-----------------------------------------------------------------------------
(* Rows that nobody works on any more.                                      *)

\* A claim takes at most Limit rows, so a batch that dies leaves no more behind.
HandLimited == \A b \in Batch : Cardinality(hand[b]) <= Limit

\* Where the orphans come from: any other set of rows than the orphans there
\* were, and those of one batch that was lost, keeps the bound.
LEMMA OrphanStep ==
    ASSUME OnlyLossOrphans, TypeOK, TypeOK',
           \/ Orphans' \subseteq Orphans /\ lost' = lost
           \/ \E b \in Batch : /\ Orphans' \subseteq Orphans \cup hand[b]
                               /\ Cardinality(hand[b]) <= Limit /\ lost' = lost + 1
    PROVE  OnlyLossOrphans'
<1>1. /\ IsFiniteSet(Orphans) /\ IsFiniteSet(Orphans')
      /\ \A b \in Batch : IsFiniteSet(hand[b])
  <2>1. Orphans \subseteq Event /\ Orphans' \subseteq Event
    BY DEF Orphans
  <2>2. \A b \in Batch : hand[b] \subseteq Event
    BY DEF TypeOK
  <2> QED
    BY <2>1, <2>2, FiniteRows, FS_Subset
<1>2. /\ Cardinality(Orphans) \in Nat /\ Cardinality(Orphans') \in Nat
      /\ \A b \in Batch : Cardinality(hand[b]) \in Nat
      /\ lost \in Nat /\ Limit \in Nat
  BY <1>1, FS_CardinalityType, OutboxAssumption DEF TypeOK
<1>3. Cardinality(Orphans) <= lost * Limit
  BY DEF OnlyLossOrphans
<1>4. CASE Orphans' \subseteq Orphans /\ lost' = lost
  <2>1. Cardinality(Orphans') <= Cardinality(Orphans)
    BY <1>1, <1>4, FS_Subset
  <2> QED
    BY <1>2, <1>3, <1>4, <2>1 DEF OnlyLossOrphans
<1>5. ASSUME NEW b \in Batch, Orphans' \subseteq Orphans \cup hand[b],
             Cardinality(hand[b]) <= Limit, lost' = lost + 1
      PROVE  OnlyLossOrphans'
  <2> DEFINE m == Cardinality(Orphans \cap hand[b])
             u == Cardinality(Orphans \cup hand[b])
  <2>1. IsFiniteSet(Orphans \cup hand[b]) /\ IsFiniteSet(Orphans \cap hand[b])
    BY <1>1, FS_Union, FS_Intersection
  <2>2. u = Cardinality(Orphans) + Cardinality(hand[b]) - m /\ m \in Nat /\ u \in Nat
    BY <1>1, <2>1, FS_Union, FS_CardinalityType
  <2>3. Cardinality(Orphans') <= u
    BY <1>5, <2>1, FS_Subset
  <2> HIDE DEF m, u
  <2>4. Cardinality(Orphans') <= lost * Limit + Limit
    BY <1>2, <1>3, <1>5, <2>2, <2>3
  <2>5. (lost + 1) * Limit = lost * Limit + Limit
    BY <1>2
  <2> QED
    BY <1>5, <2>4, <2>5 DEF OnlyLossOrphans
<1> QED
  BY <1>4, <1>5

LEMMA HandStep ==
    ASSUME Unconditional, [Next]_vars, HandLimited
    PROVE  HandLimited'
<1> USE DEF Unconditional, TypeOK, HandLimited, rowVars, batchVars
<1>1. ASSUME NEW b \in Batch, Claim(b) PROVE HandLimited'
  <2>1. PICK S \in SUBSET Claimable : /\ OldestFirst(S, Claimable)
                                      /\ hand' = [hand EXCEPT ![b] = S]
    BY <1>1 DEF Claim
  <2>2. Cardinality(S) <= Limit
    <3>1. IsFiniteSet(Claimable)
      BY FiniteRows, FS_Subset DEF Claimable
    <3>2. Cardinality(Claimable) \in Nat /\ Limit \in Nat
      BY <3>1, FS_CardinalityType, OutboxAssumption
    <3> QED
      BY <2>1, <3>2 DEF OldestFirst
  <2> QED
    BY <2>1, <2>2
<1>2. ASSUME NEW b \in Batch, hand' = [hand EXCEPT ![b] = hand'[b]], hand'[b] \subseteq hand[b]
      PROVE  HandLimited'
  <2>1. IsFiniteSet(hand[b])
    BY FiniteRows, FS_Subset
  <2>2. IsFiniteSet(hand'[b]) /\ Cardinality(hand'[b]) <= Cardinality(hand[b])
    BY <1>2, <2>1, FS_Subset
  <2>3. Cardinality(hand'[b]) \in Nat /\ Cardinality(hand[b]) \in Nat /\ Limit \in Nat
    BY <2>1, <2>2, FS_CardinalityType, OutboxAssumption
  <2> QED
    BY <1>2, <2>2, <2>3
<1>3. ASSUME NEW b \in Batch, Mark(b) \/ Fail(b) \/ Lose(b) PROVE HandLimited'
  <2>1. hand' = [hand EXCEPT ![b] = hand'[b]] /\ hand'[b] \subseteq hand[b]
    BY <1>3 DEF Mark, Fail, Lose, Done, Abandoned
  <2> QED
    BY <1>2, <2>1
<1>4. CASE UNCHANGED hand
  BY <1>4
<1> QED
  BY <1>1, <1>3, <1>4
     DEF Next, Publish, Write, LockExpires, XAdd, PubSub, MarkThrows, Recover, vars

LEMMA OrphansStep ==
    ASSUME Unconditional, Unconditional', [Next]_vars, HandLimited, OnlyLossOrphans
    PROVE  OnlyLossOrphans'
<1> USE DEF Unconditional, TypeOK, rowVars, batchVars
<1>1. ASSUME NEW b \in Batch, Lose(b) PROVE OnlyLossOrphans'
  <2>1. Orphans' \subseteq Orphans \cup hand[b] /\ lost' = lost + 1
    BY <1>1 DEF Lose, Abandoned, Orphans
  <2> QED
    BY <2>1, OrphanStep DEF HandLimited
<1>2. ASSUME NEW b \in Batch, Claim(b) PROVE Orphans' \subseteq Orphans /\ lost' = lost
  <2>1. PICK S \in SUBSET Claimable :
            /\ status' = [e \in Event |-> IF e \in S THEN "PUBLISHING" ELSE status[e]]
            /\ hand' = [hand EXCEPT ![b] = S]
    BY <1>2 DEF Claim
  <2>2. hand[b] = {} /\ lost' = lost
    BY <1>2 DEF Claim
  <2> QED
    BY <2>1, <2>2 DEF Orphans
<1>3. ASSUME NEW b \in Batch, Mark(b) \/ Fail(b) PROVE Orphans' \subseteq Orphans /\ lost' = lost
  <2>1. current[b] \in Event
    BY <1>3 DEF Mark, Fail, InHand
  <2>2. /\ status'[current[b]] # "PUBLISHING"
        /\ \A e \in Event : e # current[b] => status'[e] = status[e]
    BY <1>3, <2>1 DEF Mark, Fail, MarkedPublished, After
  <2>3. /\ hand' = [hand EXCEPT ![b] = @ \ {current[b]}] /\ lost' = lost
    BY <1>3 DEF Mark, Fail, Done
  <2> QED
    BY <2>2, <2>3 DEF Orphans
<1>4. ASSUME NEW b \in Batch, XAdd(b) \/ PubSub(b) \/ MarkThrows(b)
      PROVE  Orphans' \subseteq Orphans /\ lost' = lost
  <2>1. UNCHANGED <<hand, lost>>
    BY <1>4 DEF XAdd, PubSub, MarkThrows
  <2>2. \A e \in Event : status'[e] = status[e] \/ status'[e] = "PUBLISHED"
    BY <1>4 DEF XAdd, PubSub, MarkThrows, MarkedPublished, InHand
  <2> QED
    BY <2>1, <2>2 DEF Orphans
<1>5. ASSUME NEW e \in Event, Write(e) \/ LockExpires(e)
      PROVE  Orphans' \subseteq Orphans /\ lost' = lost
  BY <1>5 DEF Write, LockExpires, Orphans
<1>6. CASE Recover
  <2>1. Orphans' \subseteq Orphans /\ lost' = lost
    BY <1>6 DEF Recover, Orphans
  <2> QED
    BY <2>1, OrphanStep
<1>7. CASE UNCHANGED vars
  <2>1. Orphans' \subseteq Orphans /\ lost' = lost
    BY <1>7 DEF vars, Orphans
  <2> QED
    BY <2>1, OrphanStep
<1> QED
  BY <1>1, <1>2, <1>3, <1>4, <1>5, <1>6, <1>7, OrphanStep DEF Next, Publish

\* Rows are left in PUBLISHING by lost batches alone, at most Limit by each,
\* whatever else fails and whoever recovers rows: a batch that lives settles
\* every row it claimed (publishOne and its catch block).
THEOREM OrphansOnlyByLoss == Spec => []OnlyLossOrphans
<1>1. Init => HandLimited /\ OnlyLossOrphans
  <2> SUFFICES ASSUME Init PROVE HandLimited /\ OnlyLossOrphans
    OBVIOUS
  <2>1. Orphans = {} /\ \A b \in Batch : hand[b] = {}
    BY DEF Init, Orphans
  <2>2. Cardinality({}) = 0
    BY FS_EmptySet
  <2> QED
    BY <2>1, <2>2, OutboxAssumption DEF Init, HandLimited, OnlyLossOrphans
<1>2. Unconditional /\ HandLimited /\ [Next]_vars => HandLimited'
  BY HandStep
<1>3. /\ Unconditional /\ Unconditional' /\ HandLimited /\ OnlyLossOrphans /\ [Next]_vars
      => OnlyLossOrphans'
  BY OrphansStep
<1> QED
  BY <1>1, <1>2, <1>3, UnconditionalHolds, PTL DEF Spec

-----------------------------------------------------------------------------
(* The live monitor.                                                        *)

StreamStep(s) ==
    \/ Connect(s) \/ Count(s) \/ CountLocally(s) \/ TakeBack(s)
    \/ Subscribe(s) \/ SendSnapshot(s) \/ Replay(s) \/ Throws(s) \/ Leave(s)
RowStep(e) == Commit(e) \/ Announce(e) \/ MarkPosted(e)

\* What Release does to the counters.
LEMMA ReleaseType ==
    ASSUME MonitorTypeOK, NEW s \in Stream, Release(s)
    PROVE  /\ subs' \subseteq Stream
           /\ slot' \in [Stream -> Slot]
           /\ count' \in Int /\ faults' \in Nat /\ local' \in Nat
BY DEF MonitorTypeOK, Release, Decrement, Slot

\* Every reachable state is well typed.
THEOREM MonitorTypeCorrect ==
    ASSUME MonitorAssumption
    PROVE  MonitorSpec => []MonitorTypeOK
<1>1. ASSUME MonitorInit PROVE MonitorTypeOK
  <2>1. posted \in [Event -> Posted] /\ step \in [Stream -> Stage] /\ slot \in [Stream -> Slot]
    BY <1>1 DEF MonitorInit, Posted, Stage, Slot
  <2>2. screen \in [Stream -> SUBSET Event]
    BY <1>1 DEF MonitorInit
  <2>3. lapsed \in BOOLEAN
    BY <1>1 DEF MonitorInit
  <2>4. left \subseteq Stream /\ subs \subseteq Stream
    BY <1>1 DEF MonitorInit
  <2>5. count \in Int /\ local \in Nat /\ faults \in Nat
    BY <1>1 DEF MonitorInit
  <2> QED BY <2>1, <2>2, <2>3, <2>4, <2>5 DEF MonitorTypeOK
<1>2. MonitorTypeOK /\ [MonitorNext]_monitorVars => MonitorTypeOK'
  <2> SUFFICES ASSUME MonitorTypeOK, [MonitorNext]_monitorVars PROVE MonitorTypeOK'
    OBVIOUS
  <2>1. ASSUME NEW s \in Stream, StreamStep(s) PROVE MonitorTypeOK'
    <3>1. CASE Connect(s)
      BY <3>1 DEF Connect, Goes, slotVars, MonitorTypeOK, Stage
    <3>2. CASE Count(s)
      BY <3>2 DEF Count, Goes, MonitorTypeOK, Stage, Slot
    <3>3. CASE CountLocally(s)
      BY <3>3 DEF CountLocally, Goes, MonitorTypeOK, Stage, Slot
    <3>4. CASE TakeBack(s)
      BY <3>4 DEF TakeBack, Decrement, Goes, MonitorTypeOK, Stage
    <3>5. CASE Subscribe(s)
      BY <3>5 DEF Subscribe, Goes, slotVars, MonitorTypeOK, Stage
    <3>6. CASE SendSnapshot(s)
      BY <3>6 DEF SendSnapshot, Sends, Goes, slotVars, MonitorTypeOK, Stage
    <3>7. CASE Replay(s)
      <4>1. PICK E \in {{}} \cup {Younger(a) : a \in Event} : Sends(s, E)
        BY <3>7 DEF Replay
      <4>2. E \subseteq Event
        BY DEF Younger
      <4> QED BY <3>7, <4>1, <4>2 DEF Replay, Sends, Goes, slotVars, MonitorTypeOK, Stage
    <3>8. CASE Throws(s)
      <4>1. subs' \subseteq Stream /\ slot' \in [Stream -> Slot]
            /\ count' \in Int /\ faults' \in Nat /\ local' \in Nat
        BY <3>8, ReleaseType DEF Throws, MonitorTypeOK
      <4> QED BY <3>8, <4>1 DEF Throws, MonitorTypeOK, Stage
    <3>9. CASE Leave(s)
      <4>1. subs' \subseteq Stream /\ slot' \in [Stream -> Slot]
            /\ count' \in Int /\ faults' \in Nat /\ local' \in Nat
        BY <3>9, ReleaseType DEF Leave
      <4> QED BY <3>9, <4>1 DEF Leave, MonitorTypeOK, Stage
    <3> QED BY <2>1, <3>1, <3>2, <3>3, <3>4, <3>5, <3>6, <3>7, <3>8, <3>9 DEF StreamStep
  <2>2. CASE KeyExpires
    BY <2>2 DEF KeyExpires, MonitorTypeOK
  <2>3. ASSUME NEW e \in Event, RowStep(e) PROVE MonitorTypeOK'
    BY <2>3 DEF RowStep, Commit, Announce, MarkPosted, Posts, slotVars, MonitorTypeOK, Posted
  <2>4. CASE UNCHANGED monitorVars
    BY <2>4 DEF monitorVars, MonitorTypeOK
  <2> QED BY <2>1, <2>2, <2>3, <2>4 DEF MonitorNext, StreamStep, RowStep
<1> QED BY <1>1, <1>2, PTL DEF MonitorSpec

-----------------------------------------------------------------------------
(* Nothing is missed.                                                      *)

\* A stream that has got as far as its snapshot is subscribed, as long as
\* its client is there: only cleanup unsubscribes.
Listening ==
    \A s \in Stream \ left : step[s] \in {"subscribed", "shown", "live"} => s \in subs

\* Whatever commits, is announced and is marked while the streams of a user
\* connect, fail and leave: a client that has its snapshot has every event
\* that was announced.
THEOREM NothingMissed ==
    ASSUME MonitorAssumption
    PROVE  MonitorSpec => []ScreenComplete
<1> DEFINE Inv == Listening /\ ScreenComplete
<1>1. MonitorInit => Inv
  BY DEF MonitorInit, Listening, ScreenComplete
<1>2. MonitorTypeOK /\ Inv /\ [MonitorNext]_monitorVars => Inv'
  <2> SUFFICES ASSUME MonitorTypeOK, Inv, [MonitorNext]_monitorVars PROVE Inv'
    OBVIOUS
  <2> USE DEF Listening, ScreenComplete, MonitorTypeOK
  <2>1. ASSUME NEW s \in Stream, StreamStep(s) PROVE Inv'
    <3>1. CASE Connect(s)
      BY <3>1 DEF Connect, Goes
    <3>2. CASE Count(s)
      BY <3>2 DEF Count, Goes
    <3>3. CASE CountLocally(s)
      BY <3>3 DEF CountLocally, Goes
    <3>4. CASE TakeBack(s)
      BY <3>4 DEF TakeBack, Goes
    <3>5. CASE Subscribe(s)
      BY <3>5 DEF Subscribe, Goes
    <3>6. CASE SendSnapshot(s)
      BY <3>6 DEF SendSnapshot, Sends, Goes
    <3>7. CASE Replay(s)
      BY <3>7 DEF Replay, Sends, Goes
    <3>8. CASE Throws(s)
      BY <3>8 DEF Throws, Release
    <3>9. CASE Leave(s)
      BY <3>9 DEF Leave, Release
    <3> QED BY <2>1, <3>1, <3>2, <3>3, <3>4, <3>5, <3>6, <3>7, <3>8, <3>9 DEF StreamStep
  <2>2. CASE KeyExpires
    BY <2>2 DEF KeyExpires
  <2>3. ASSUME NEW e \in Event, RowStep(e) PROVE Inv'
    BY <2>3 DEF RowStep, Commit, Announce, MarkPosted, Posts
  <2>4. CASE UNCHANGED monitorVars
    BY <2>4 DEF monitorVars
  <2> QED BY <2>1, <2>2, <2>3, <2>4 DEF MonitorNext, StreamStep, RowStep
<1> QED BY <1>1, <1>2, MonitorTypeCorrect, PTL DEF MonitorSpec

-----------------------------------------------------------------------------
(* The limit.                                                              *)

\* A stream that has not been admitted has no slot to give back.
UnadmittedHoldNone ==
    \A s \in Stream : step[s] \in {"new", "asked", "refused"} => slot[s] = "none"

\* Streams that will still decrement the Redis counter.
Owing == {s \in Stream : step[s] = "refused" \/ (slot[s] = "redis" /\ s \notin left)}

\* The counters cover those who will decrement them.  A counter may be too
\* high - a lost reply, a client that left while it was admitted - but not
\* too low, and that is why nobody is admitted beyond the limit.
Covered ==
    /\ ~lapsed => Cardinality(Owing) <= count
    /\ Cardinality(Holding("local")) <= local

\* A set that grows by s at most, and one that loses s.
LEMMA GrowsByOne ==
    ASSUME IsFiniteSet(Stream), NEW S \in SUBSET Stream, NEW T \in SUBSET Stream,
           NEW s \in Stream, T \subseteq S \cup {s}
    PROVE  Cardinality(T) <= Cardinality(S) + 1
<1>1. IsFiniteSet(S)
  BY FS_Subset
<1>2. IsFiniteSet(S \cup {s}) /\ Cardinality(S \cup {s}) <= Cardinality(S) + 1
  <2>1. IsFiniteSet(S \cup {s})
        /\ Cardinality(S \cup {s}) = IF s \in S THEN Cardinality(S) ELSE Cardinality(S) + 1
    BY <1>1, FS_AddElement
  <2>2. Cardinality(S) \in Nat
    BY <1>1, FS_CardinalityType
  <2> QED BY <2>1, <2>2
<1>3. Cardinality(T) <= Cardinality(S \cup {s})
  BY <1>2, FS_Subset
<1> QED BY <1>1, <1>2, <1>3, FS_CardinalityType, FS_Subset

LEMMA ShrinksByOne ==
    ASSUME IsFiniteSet(Stream), NEW S \in SUBSET Stream, NEW T \in SUBSET Stream,
           NEW s \in S, T \subseteq S \ {s}
    PROVE  Cardinality(T) <= Cardinality(S) - 1
<1>1. IsFiniteSet(S) /\ IsFiniteSet(T)
  BY FS_Subset
<1>2. IsFiniteSet(S \ {s}) /\ Cardinality(S \ {s}) = Cardinality(S) - 1
  BY <1>1, FS_RemoveElement
<1>3. Cardinality(T) <= Cardinality(S \ {s})
  BY <1>2, FS_Subset
<1> QED BY <1>1, <1>2, <1>3, FS_CardinalityType

LEMMA NoLarger ==
    ASSUME IsFiniteSet(Stream), NEW S \in SUBSET Stream, NEW T \in SUBSET Stream,
           T \subseteq S
    PROVE  Cardinality(T) <= Cardinality(S)
BY FS_Subset

\* Cardinalities of these sets are numbers.
LEMMA HeldCount ==
    ASSUME IsFiniteSet(Stream), NEW S \in SUBSET Stream
    PROVE  Cardinality(S) \in Nat
BY FS_Subset, FS_CardinalityType

\* cleanup: whoever's slot is given back is no longer among the holders, and
\* the counter it comes from falls by one at most.
LEMMA ReleaseCovers ==
    ASSUME IsFiniteSet(Stream), MonitorTypeOK, UnadmittedHoldNone, Covered,
           NEW s \in Stream, s \notin left, Release(s),
           UNCHANGED lapsed, left \subseteq left', left' \subseteq Stream,
           \A t \in Stream \ {s} : step'[t] = step[t],
           step'[s] = "refused" => step[s] = "refused"
    PROVE  Covered'
<1> USE DEF MonitorTypeOK
<1>1. Owing \in SUBSET Stream /\ Owing' \in SUBSET Stream
      /\ Holding("local") \in SUBSET Stream /\ Holding("local")' \in SUBSET Stream
  BY DEF Owing, Holding
<1>2. Owing' \subseteq Owing /\ Holding("local")' \subseteq Holding("local") \ {s}
  BY DEF Owing, Holding, Release
<1>3. slot[s] = "redis" => s \in Owing /\ s \notin Owing'
  BY DEF Owing, Release, UnadmittedHoldNone
<1>4. ~lapsed => Cardinality(Owing)' <= count'
  <2> SUFFICES ASSUME ~lapsed PROVE Cardinality(Owing)' <= count'
    OBVIOUS
  <2>1. CASE slot[s] = "redis"
    <3>1. Cardinality(Owing') <= Cardinality(Owing) - 1
      BY <1>1, <1>2, <1>3, <2>1, ShrinksByOne
    <3>2. count' \in {count, count - 1}
      BY <2>1 DEF Release, Decrement
    <3> QED BY <1>1, <3>1, <3>2, HeldCount DEF Covered
  <2>2. CASE slot[s] # "redis"
    <3>1. Cardinality(Owing') <= Cardinality(Owing) /\ count' = count
      BY <1>1, <1>2, <2>2, NoLarger DEF Release
    <3> QED BY <1>1, <3>1, HeldCount DEF Covered
  <2> QED BY <2>1, <2>2
<1>5. Cardinality(Holding("local"))' <= local'
  <2>1. CASE slot[s] = "local"
    <3>1. s \in Holding("local")
      BY <2>1 DEF Holding
    <3>2. Cardinality(Holding("local")') <= Cardinality(Holding("local")) - 1
      BY <1>1, <1>2, <3>1, ShrinksByOne
    <3>3. local' = IF local > 0 THEN local - 1 ELSE local
      BY <2>1 DEF Release
    <3> QED BY <1>1, <3>2, <3>3, HeldCount DEF Covered
  <2>2. CASE slot[s] # "local"
    <3>1. Cardinality(Holding("local")') <= Cardinality(Holding("local")) /\ local' = local
      BY <1>1, <1>2, <2>2, NoLarger DEF Release
    <3> QED BY <1>1, <3>1, HeldCount DEF Covered
  <2> QED BY <2>1, <2>2
<1> QED BY <1>4, <1>5 DEF Covered

\* However many streams a user's clients open, drop and open again, whatever
\* replies of Redis are lost: until the counter's key expires, neither
\* counter admits more than PerUser of them at a time.
THEOREM LimitKept ==
    ASSUME MonitorAssumption
    PROVE  MonitorSpec => []LimitHolds
<1> DEFINE Inv == UnadmittedHoldNone /\ Covered /\ LimitHolds
<1> USE DEF MonitorTypeOK, MonitorAssumption, CreationTimed
<1>1. ASSUME MonitorInit PROVE Inv
  <2>1. UnadmittedHoldNone
    BY <1>1 DEF MonitorInit, UnadmittedHoldNone
  <2>2. Owing = {} /\ Holding("redis") = {} /\ Holding("local") = {}
    BY <1>1 DEF MonitorInit, Owing, Holding
  <2> QED BY <1>1, <2>1, <2>2, FS_EmptySet DEF MonitorInit, Covered, LimitHolds
<1>2. MonitorTypeOK /\ MonitorTypeOK' /\ Inv /\ [MonitorNext]_monitorVars => Inv'
  <2> SUFFICES ASSUME MonitorTypeOK, MonitorTypeOK', Inv, [MonitorNext]_monitorVars
               PROVE  Inv'
    OBVIOUS
  <2>h. /\ Owing \in SUBSET Stream /\ Owing' \in SUBSET Stream
        /\ Holding("redis") \in SUBSET Stream /\ Holding("redis")' \in SUBSET Stream
        /\ Holding("local") \in SUBSET Stream /\ Holding("local")' \in SUBSET Stream
    BY DEF Owing, Holding
  \* The limit follows from the cover wherever nobody is admitted.
  <2>l. ASSUME Covered',
               lapsed' = lapsed,
               Holding("redis")' \subseteq Holding("redis"),
               Holding("local")' \subseteq Holding("local")
        PROVE  LimitHolds'
    <3>1. /\ Cardinality(Holding("redis")') <= Cardinality(Holding("redis"))
          /\ Cardinality(Holding("local")') <= Cardinality(Holding("local"))
      BY <2>h, <2>l, NoLarger
    <3>2. Cardinality(Holding("redis")') <= Cardinality(Owing')
      <4>1. Holding("redis")' \subseteq Owing'
        BY DEF Holding, Owing
      <4> QED BY <2>h, <4>1, NoLarger
    <3> QED BY <2>h, <2>l, <3>1, <3>2, HeldCount DEF LimitHolds, Covered
  <2>1. ASSUME NEW s \in Stream, StreamStep(s) PROVE Inv'
    <3>1. CASE Connect(s) \/ Subscribe(s) \/ SendSnapshot(s) \/ Replay(s)
      <4>1. /\ slotVars' = slotVars /\ left' = left
            /\ \A t \in Stream : step'[t] = "refused" <=> step[t] = "refused"
            /\ UnadmittedHoldNone'
        BY <3>1 DEF Connect, Subscribe, SendSnapshot, Replay, Goes, slotVars, UnadmittedHoldNone
      <4>2. Owing' = Owing /\ \A k \in Slot : Holding(k)' = Holding(k)
        BY <4>1 DEF Owing, Holding, slotVars
      <4> QED BY <4>1, <4>2 DEF slotVars, Covered, LimitHolds, Slot
    <3>2. CASE Count(s)
      <4>1. UnadmittedHoldNone' /\ Holding("local")' = Holding("local")
        BY <3>2 DEF Count, Goes, UnadmittedHoldNone, Holding
      <4>2. Owing' \subseteq Owing \cup {s}
        BY <3>2 DEF Count, Goes, Owing
      <4>3. Cardinality(Owing') <= Cardinality(Owing) + 1
        BY <2>h, <4>2, GrowsByOne
      <4>4. Covered'
        BY <2>h, <3>2, <4>1, <4>3, HeldCount DEF Count, Covered
      <4>5. CASE count < PerUser
        <5>1. Holding("redis")' \subseteq Holding("redis") \cup {s}
          BY <3>2 DEF Count, Goes, Holding
        <5>2. Cardinality(Holding("redis")') <= Cardinality(Holding("redis")) + 1
          BY <2>h, <5>1, GrowsByOne
        <5> QED BY <2>h, <3>2, <4>1, <4>4, <4>5, <5>2, HeldCount DEF Count, LimitHolds
      <4>6. CASE ~(count < PerUser)
        <5>1. Holding("redis")' = Holding("redis") /\ lapsed' = lapsed
          BY <3>2, <4>6 DEF Count, Goes, Holding
        <5> QED BY <2>l, <4>1, <4>4, <5>1
      <4> QED BY <4>5, <4>6
    <3>3. CASE CountLocally(s)
      <4>1. UnadmittedHoldNone'
        BY <3>3 DEF CountLocally, Goes, UnadmittedHoldNone
      <4>2. Owing' \subseteq Owing /\ Holding("redis")' \subseteq Holding("redis")
        BY <3>3 DEF CountLocally, Goes, Owing, Holding
      <4>3. Cardinality(Owing') <= Cardinality(Owing)
        BY <2>h, <4>2, NoLarger
      <4>4. CASE local < PerUser
        <5>1. Holding("local")' \subseteq Holding("local") \cup {s}
          BY <3>3 DEF CountLocally, Goes, Holding
        <5>2. Cardinality(Holding("local")') <= Cardinality(Holding("local")) + 1
          BY <2>h, <5>1, GrowsByOne
        <5>3. Covered'
          BY <2>h, <3>3, <4>3, <4>4, <5>2, HeldCount DEF CountLocally, Covered
        <5>4. Cardinality(Holding("redis")') <= Cardinality(Holding("redis"))
          BY <2>h, <4>2, NoLarger
        <5> QED BY <2>h, <3>3, <4>1, <4>4, <5>2, <5>3, <5>4, HeldCount
                DEF CountLocally, Covered, LimitHolds
      <4>5. CASE ~(local < PerUser)
        <5>1. Holding("local")' = Holding("local") /\ local' = local /\ lapsed' = lapsed
          BY <3>3, <4>5 DEF CountLocally, Goes, Holding
        <5>2. Covered'
          BY <2>h, <3>3, <4>3, <5>1, HeldCount DEF CountLocally, Covered
        <5> QED BY <2>l, <4>1, <4>2, <5>1, <5>2
      <4> QED BY <4>4, <4>5
    <3>4. CASE TakeBack(s)
      <4>1. UnadmittedHoldNone' /\ Holding("redis")' = Holding("redis")
            /\ Holding("local")' = Holding("local")
        BY <3>4 DEF TakeBack, Goes, UnadmittedHoldNone, Holding
      <4>2. s \in Owing /\ Owing' \subseteq Owing \ {s}
        BY <3>4 DEF TakeBack, Goes, Owing, UnadmittedHoldNone
      <4>3. Cardinality(Owing') <= Cardinality(Owing) - 1
        BY <2>h, <4>2, ShrinksByOne
      <4>4. Covered'
        BY <2>h, <3>4, <4>1, <4>3, HeldCount DEF TakeBack, Decrement, Covered
      <4> QED BY <2>l, <3>4, <4>1, <4>4 DEF TakeBack
    <3>5. CASE Throws(s)
      <4>1. UnadmittedHoldNone' /\ Holding("redis")' \subseteq Holding("redis")
            /\ Holding("local")' \subseteq Holding("local")
        BY <3>5 DEF Throws, Release, UnadmittedHoldNone, Holding
      <4>2. CASE s \in left
        <5>1. Owing' = Owing /\ Holding("local")' = Holding("local")
          BY <3>5, <4>2 DEF Throws, Owing, Holding
        <5>2. Covered'
          BY <3>5, <4>2, <5>1 DEF Throws, Covered
        <5> QED BY <2>l, <3>5, <4>1, <5>2 DEF Throws
      <4>3. CASE s \notin left
        <5>1. Covered'
          BY <3>5, <4>3, ReleaseCovers DEF Throws
        <5> QED BY <2>l, <3>5, <4>1, <5>1 DEF Throws
      <4> QED BY <4>2, <4>3
    <3>6. CASE Leave(s)
      <4>1. UnadmittedHoldNone' /\ Holding("redis")' \subseteq Holding("redis")
            /\ Holding("local")' \subseteq Holding("local")
        BY <3>6 DEF Leave, Release, UnadmittedHoldNone, Holding
      <4>2. Covered'
        BY <3>6, ReleaseCovers DEF Leave
      <4> QED BY <2>l, <3>6, <4>1, <4>2 DEF Leave
    <3> QED BY <2>1, <3>1, <3>2, <3>3, <3>4, <3>5, <3>6 DEF StreamStep
  <2>2. CASE KeyExpires
    <3>1. lapsed' /\ Holding("local")' = Holding("local") /\ UnadmittedHoldNone'
      BY <2>2 DEF KeyExpires, Holding, UnadmittedHoldNone
    <3> QED BY <2>2, <3>1 DEF KeyExpires, Covered, LimitHolds
  <2>3. CASE (\E e \in Event : RowStep(e)) \/ UNCHANGED monitorVars
    <3>1. UNCHANGED <<slotVars, step, left>>
      BY <2>3 DEF RowStep, Commit, Announce, MarkPosted, slotVars, monitorVars
    <3>2. Owing' = Owing /\ Holding("redis")' = Holding("redis")
          /\ Holding("local")' = Holding("local")
      BY <3>1 DEF Owing, Holding, slotVars
    <3> QED BY <3>1, <3>2 DEF slotVars, UnadmittedHoldNone, Covered, LimitHolds
  <2> QED BY <2>1, <2>2, <2>3 DEF MonitorNext, StreamStep, RowStep
<1> QED BY <1>1, <1>2, MonitorTypeCorrect, PTL DEF MonitorSpec

-----------------------------------------------------------------------------
(* MCQueues, which the runs check: a behaviour of the scene "program" is   *)
(* one of Outbox with the constants of the module.                         *)

\* The scene of a behaviour never changes, and what is not in it rests.
LEMMA SceneStays ==
    [QueuesNext]_<<vars, queueVars, monitorVars, scene>> =>
        /\ scene = "program" => (scene = "program")' /\ [Next]_vars
        /\ scene # "program" => (scene # "program")'
BY DEF QueuesNext

\* The running program of MCQueues is Outbox.
LEMMA ProgramIsOutbox == QueuesSpec => (scene = "program" => Spec)
<1>1. QueuesInit => Init
  BY DEF QueuesInit
<1> QED
  BY <1>1, SceneStays, PTL DEF QueuesSpec, Spec

\* The monitor's streams and the phone's queue are implemented whatever the
\* scene: each runs its own specification or rests.
THEOREM SideBySide == QueuesSpec => MonitorSpec /\ QueueSpec
<1>1. QueuesInit => MonitorInit /\ QueueInit
  BY DEF QueuesInit
<1>2. [QueuesNext]_<<vars, queueVars, monitorVars, scene>> =>
          [MonitorNext]_monitorVars /\ [QueueNext]_queueVars
  BY DEF QueuesNext
<1> QED
  BY <1>1, <1>2, PTL DEF QueuesSpec, MonitorSpec, QueueSpec

\* So the monitor shows every event and keeps its limit next to the outbox
\* and the phone as well.
THEOREM MonitorKeptThere ==
    ASSUME MonitorAssumption PROVE QueuesSpec => [](ScreenComplete /\ LimitHolds)
BY NothingMissed, LimitKept, SideBySide, PTL

\* With nobody to recover rows, whatever else waits at the same time: one
\* copy of an event per attempt at most, and MAX_ATTEMPTS of them.
THEOREM ProgramAttempts == ASSUME ~Recovers PROVE QueuesSpec => []ProgramCopiesBounded
<1>1. Spec => []CopiesBounded
  BY AtMostMaxAttempts
<1>2. CopiesBounded => ProgramCopiesBounded
  BY DEF ProgramCopiesBounded
<1>3. scene # "program" => ProgramCopiesBounded
  BY DEF ProgramCopiesBounded
<1>4. scene = "program" \/ scene # "program"
  OBVIOUS
<1> QED
  BY <1>1, <1>2, <1>3, <1>4, SceneStays, ProgramIsOutbox, PTL DEF QueuesSpec
=============================================================================
