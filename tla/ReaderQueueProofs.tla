-------------------------- MODULE ReaderQueueProofs --------------------------
(***************************************************************************)
(* Theorems about ReaderQueue, for any number of scans, any queue,         *)
(* snapshot and history, and any number of deaths and failed writes.       *)
(*                                                                         *)
(* A write to the history adds to what it ever told, and neither a newer   *)
(* entry nor the operator takes from that (Adds, Clears).                  *)
(* What the flush is at (AtRow) and that a live scan is nowhere else yet   *)
(* (Fresh) make the two properties inductive.                              *)
(***************************************************************************)
EXTENDS ReaderQueue, WellFoundedInduction, TLAPS

\* The request in flight and the note about to be written are the row's; when
\* the note is saved the history has told of the row.
AtRow ==
    /\ out["flush"] # NoScan => out["flush"] = row /\ note = NoScan
    /\ note # NoScan => row # NoScan
    /\ note = "SAVED" => Noted(row)
    /\ plan \subseteq taken /\ row \in taken \cup {NoScan}

\* A live scan has been taken and is not queued, planned or told of yet.
Fresh ==
    /\ Told \subseteq taken \X Notes
    /\ out["live"] # NoScan =>
         /\ out["live"] \in taken
         /\ out["live"] \notin queue \cup plan \cup {row}
         /\ ~Noted(out["live"])

\* A row that was sent and is still queued is the one about to be deleted.
Settling ==
    trouble = 0 => \A s \in queue : <<s, "SENT">> \in Told => s = row /\ note = "SAVED"

IInv == QueueTypeOK /\ AtRow /\ Fresh /\ NothingForgotten /\ Settling

-----------------------------------------------------------------------------
\* listForSync's order has a first row.
LEMMA Least == ASSUME NEW S \in SUBSET Nat, S # {} PROVE \E n \in S : \A m \in S : n <= m
<1>1. PICK n \in S : \A m \in S : ~(<<m, n>> \in OpToRel(<, Nat))
  BY NatLessThanWellFounded, WFMin
<1>2. n \in Nat /\ \A m \in S : m \in Nat
  OBVIOUS
<1>3. \A m \in S : ~(m < n)
  BY <1>1, <1>2 DEF OpToRel
<1>4. \A m \in S : n <= m
  BY <1>2, <1>3
<1> QED
  BY <1>4

LEMMA FirstIsIn == ASSUME NEW S \in SUBSET Nat, S # {} PROVE First(S) \in S
BY Least DEF First

-----------------------------------------------------------------------------
(* What the history ever told.                                              *)

\* The entries of a store with h are h's, the others are gone.
LEMMA Stores == ASSUME NEW h, Store(h) PROVE Told' = Told \cup Outcomes(h)
BY DEF Store, Told, Outcomes

LEMMA OutcomesTyped ==
    ASSUME NEW h \in Seq(Scan \X Entries) PROVE Outcomes(h) \subseteq Scan \X Notes
<1>1. ASSUME NEW i \in DOMAIN h, h[i][2] \in Notes PROVE h[i] \in Scan \X Notes
  <2>1. h[i] \in Scan \X Entries
    BY <1>1
  <2> QED
    BY <1>1, <2>1
<1> QED
  BY <1>1 DEF Outcomes

\* A write tells of s, if it is final, and whatever makes room has been told.
LEMMA Adds ==
    ASSUME QueueAssumption, QueueTypeOK, NEW s \in Scan, NEW e \in Entries, Add(s, e)
    PROVE  /\ history' \in Seq(Scan \X Entries) /\ Len(history') <= Keep
           /\ gone' \subseteq Scan \X Notes
           /\ Told' = IF e \in Notes THEN Told \cup {<<s, e>>} ELSE Told
<1> DEFINE room == IF Len(history) < Keep THEN Len(history) ELSE Keep - 1
           kept == SubSeq(history, 1, room)
           h    == <<<<s, e>>>> \o kept
<1>1. /\ history \in Seq(Scan \X Entries) /\ gone \subseteq Scan \X Notes
      /\ Keep \in Nat /\ Keep >= 1 /\ room \in 0 .. (Keep - 1) /\ room <= Len(history)
  BY DEF QueueTypeOK, QueueAssumption
<1>2. Store(h)
  BY DEF Add
<1> HIDE DEF room
<1>3. /\ kept \in Seq(Scan \X Entries) /\ Len(kept) = room
      /\ \A i \in 1 .. room : kept[i] = history[i] /\ i \in DOMAIN history
  BY <1>1
<1> HIDE DEF kept
<1>4. /\ h \in Seq(Scan \X Entries) /\ Len(h) = room + 1 /\ h[1] = <<s, e>>
      /\ \A i \in 2 .. (room + 1) : h[i] = kept[i - 1]
  BY <1>1, <1>3
<1>5. DOMAIN h = 1 .. (room + 1)
  BY <1>4
<1> HIDE DEF h
<1>6. Outcomes(h) \subseteq Outcomes(history) \cup {<<s, e>>}
  <2> SUFFICES ASSUME NEW i \in 2 .. (room + 1) PROVE h[i] \in {history[j] : j \in DOMAIN history}
    BY <1>1, <1>4, <1>5 DEF Outcomes
  <2>1. i - 1 \in 1 .. room
    BY <1>1
  <2> QED
    BY <1>3, <1>4, <2>1
<1>7. /\ e \in Notes => <<s, e>> \in Outcomes(h)
      /\ e \notin Notes => <<s, e>> \notin Outcomes(h)
  <2>1. 1 \in DOMAIN h
    BY <1>1, <1>5
  <2>2. <<s, e>> \in {h[i] : i \in DOMAIN h}
    BY <1>4, <2>1
  <2>3. <<s, e>>[2] = e
    OBVIOUS
  <2> QED
    BY <2>2, <2>3 DEF Outcomes
<1>8. Told' = Told \cup Outcomes(h) /\ Outcomes(history) \subseteq Told
  BY <1>2, Stores DEF Told
<1>9. Told' = IF e \in Notes THEN Told \cup {<<s, e>>} ELSE Told
  BY <1>6, <1>7, <1>8
<1>10. Told \subseteq Scan \X Notes
  BY <1>1, OutcomesTyped DEF Told
<1> QED
  BY <1>1, <1>2, <1>4, <1>9, <1>10 DEF Store

\* An emptied history has told what it told.
LEMMA Clears ==
    ASSUME QueueAssumption, QueueTypeOK, Store(<<>>)
    PROVE  /\ history' \in Seq(Scan \X Entries) /\ Len(history') <= Keep
           /\ gone' \subseteq Scan \X Notes
           /\ Told' = Told
<1>1. Outcomes(<<>>) = {}
  BY DEF Outcomes
<1>2. Told' = Told
  BY <1>1, Stores
<1>3. Told \subseteq Scan \X Notes
  BY OutcomesTyped DEF QueueTypeOK, Told
<1> QED
  BY <1>2, <1>3 DEF Store, QueueAssumption

LEMMA StoreStays == ASSUME UNCHANGED storeVars PROVE Told' = Told
BY DEF storeVars, Told, Outcomes

\* Types of the store, unchanged.
LEMMA StoreTyped ==
    ASSUME QueueTypeOK, UNCHANGED storeVars
    PROVE  /\ history' \in Seq(Scan \X Entries) /\ Len(history') <= Keep
           /\ gone' \subseteq Scan \X Notes
BY DEF QueueTypeOK, storeVars

-----------------------------------------------------------------------------
LEMMA InitIInv == ASSUME QueueAssumption, QueueInit PROVE IInv
<1>1. Told = {}
  BY DEF QueueInit, Told, Outcomes
<1>2. history \in Seq(Scan \X Entries) /\ Len(history) <= Keep
  BY DEF QueueInit, QueueAssumption
<1> QED
  BY <1>1, <1>2 DEF QueueInit, IInv, QueueTypeOK, AtRow, Fresh, NothingForgotten, Settling, Channel,
     QueueAssumption

\* The live scan's steps.
LEMMA LiveKeeps ==
    ASSUME QueueAssumption, IInv,
           \/ \E s \in Scan : Take(s)
           \/ \E r \in Answers : LiveAnswer(r)
           \/ LiveForgotten
    PROVE  IInv'
<1> USE DEF IInv, Channel, Notes, QueueAssumption
<1>1. ASSUME NEW s \in Scan, Take(s) PROVE IInv'
  <2>1. UNCHANGED storeVars /\ Told' = Told
    BY <1>1, StoreStays DEF Take
  <2>2. QueueTypeOK' /\ AtRow'
    BY <1>1, <2>1, StoreTyped DEF Take, QueueTypeOK, AtRow, Noted, flushVars
  <2>3. Fresh'
    BY <1>1, <2>1 DEF Take, QueueTypeOK, Fresh, AtRow, Noted, flushVars
  <2>4. NothingForgotten' /\ Settling'
    BY <1>1, <2>1 DEF Take, QueueTypeOK, NothingForgotten, Settling, Noted, flushVars
  <2> QED
    BY <2>2, <2>3, <2>4
<1>2. ASSUME NEW r \in Answers, LiveAnswer(r) PROVE IInv'
  <2>1. /\ out["live"] \in taken /\ out["live"] \in Scan
        /\ out' = [out EXCEPT !["live"] = NoScan]
        /\ UNCHANGED <<taken, tries, flushVars, excused, trouble>>
    BY <1>2 DEF LiveAnswer, Fresh, QueueTypeOK
  <2>2. PICK e \in Entries :
          /\ Add(out["live"], e)
          /\ \/ queue' = queue \cup {out["live"]} /\ e = "QUEUED"
             \/ UNCHANGED queue /\ e \in Notes
    BY <1>2 DEF LiveAnswer, Entries
  <2>3. /\ history' \in Seq(Scan \X Entries) /\ Len(history') <= Keep
        /\ gone' \subseteq Scan \X Notes
        /\ Told' = IF e \in Notes THEN Told \cup {<<out["live"], e>>} ELSE Told
    BY <2>1, <2>2, Adds
  <2>4. QueueTypeOK'
    <3>1. out' \in [Channel -> Scan \cup {NoScan}] /\ queue' \subseteq taken
      BY <2>1, <2>2 DEF QueueTypeOK
    <3> QED
      BY <2>1, <2>3, <3>1 DEF QueueTypeOK, flushVars
  <2>5. AtRow'
    BY <2>1, <2>2, <2>3 DEF QueueTypeOK, AtRow, Noted, flushVars
  <2>6. Fresh'
    <3>1. out'["live"] = NoScan
      BY <2>1 DEF QueueTypeOK
    <3>2. Told' \subseteq taken' \X Notes
      BY <2>1, <2>3 DEF Fresh
    <3> QED
      BY <3>1, <3>2 DEF Fresh
  <2>7. NothingForgotten'
    BY <2>1, <2>2, <2>3 DEF NothingForgotten, Noted, flushVars
  <2>8. Settling'
    <3> SUFFICES ASSUME trouble = 0, NEW s \in queue', <<s, "SENT">> \in Told'
                 PROVE  s = row /\ note = "SAVED"
      BY <2>1 DEF Settling, flushVars
    <3>1. s \in queue /\ <<s, "SENT">> \in Told
      BY <1>2, <2>1, <2>2, <2>3 DEF Fresh, Noted, LiveAnswer
    <3> QED
      BY <3>1 DEF Settling
  <2> QED
    BY <2>4, <2>5, <2>6, <2>7, <2>8
<1>3. CASE LiveForgotten
  <2>1. /\ out["live"] \in taken /\ out["live"] \in Scan /\ trouble' \in Nat /\ trouble' # 0
        /\ out' = [out EXCEPT !["live"] = NoScan]
        /\ queue' \in {queue, queue \cup {out["live"]}}
        /\ excused' = excused \cup {out["live"]}
        /\ UNCHANGED <<taken, tries, flushVars>>
    BY <1>3 DEF LiveForgotten, Fresh, QueueTypeOK
  <2>2. /\ history' \in Seq(Scan \X Entries) /\ Len(history') <= Keep
        /\ gone' \subseteq Scan \X Notes
        /\ Told' \in {Told, Told \cup {<<out["live"], "REJECTED">>}}
    <3>1. CASE UNCHANGED storeVars
      BY <3>1, StoreStays, StoreTyped
    <3>2. CASE Add(out["live"], "REJECTED")
      BY <2>1, <3>2, Adds DEF Entries
    <3> QED
      BY <1>3, <3>1, <3>2 DEF LiveForgotten
  <2>3. QueueTypeOK'
    <3>1. /\ out' \in [Channel -> Scan \cup {NoScan}]
          /\ queue' \subseteq taken /\ excused' \subseteq taken
      BY <2>1 DEF QueueTypeOK
    <3> QED
      BY <2>1, <2>2, <3>1 DEF QueueTypeOK, flushVars
  <2>4. AtRow'
    BY <2>1, <2>2 DEF QueueTypeOK, AtRow, Noted, flushVars
  <2>5. Fresh'
    <3>1. out'["live"] = NoScan
      BY <2>1 DEF QueueTypeOK
    <3>2. Told' \subseteq taken' \X Notes
      BY <2>1, <2>2 DEF Fresh
    <3> QED
      BY <3>1, <3>2 DEF Fresh
  <2>6. NothingForgotten' /\ Settling'
    BY <2>1, <2>2 DEF NothingForgotten, Noted, Settling
  <2> QED
    BY <2>3, <2>4, <2>5, <2>6
<1> QED
  BY <1>1, <1>2, <1>3

\* The flush's steps that leave the history alone.
LEMMA FlushKeeps ==
    ASSUME QueueAssumption, IInv,
           StartFlush \/ TryNext \/ FlushRetry \/ Drop \/ \E r \in Answers : FlushFinal(r)
    PROVE  IInv'
<1> USE DEF IInv, Channel, Notes, QueueAssumption
<1>0. UNCHANGED storeVars /\ Told' = Told
  BY StoreStays DEF StartFlush, TryNext, FlushRetry, Drop, FlushFinal
<1>s. /\ history' \in Seq(Scan \X Entries) /\ Len(history') <= Keep
      /\ gone' \subseteq Scan \X Notes
  BY <1>0, StoreTyped
<1>1. CASE StartFlush
  BY <1>0, <1>s, <1>1 DEF QueueTypeOK, StartFlush, Flushing, Ready, OldestOf, AtRow, Fresh,
     NothingForgotten, Settling, Noted
<1>2. CASE TryNext
  <2>1. row' \in plan /\ row' \in Scan
    BY <1>2, FirstIsIn DEF QueueTypeOK, TryNext
  <2>2. QueueTypeOK'
    BY <1>s, <1>2, <2>1 DEF QueueTypeOK, TryNext
  <2>3. AtRow'
    BY <1>0, <1>2, <2>1 DEF QueueTypeOK, TryNext, AtRow, Noted
  <2>4. Fresh' /\ NothingForgotten' /\ Settling'
    BY <1>0, <1>2, <2>1 DEF QueueTypeOK, TryNext, AtRow, Fresh, NothingForgotten, Settling, Noted
  <2> QED
    BY <2>2, <2>3, <2>4
<1>3. CASE FlushRetry
  <2>1. QueueTypeOK'
    <3>1. tries' \in [Scan -> 0 .. MaxTries]
      <4>1. MaxTries \in Nat /\ \A n \in 0 .. MaxTries : n < MaxTries => n + 1 \in 0 .. MaxTries
        OBVIOUS
      <4> QED
        BY <1>3, <4>1 DEF QueueTypeOK, FlushRetry
    <3>2. out' \in [Channel -> Scan \cup {NoScan}]
      BY <1>3 DEF QueueTypeOK, FlushRetry
    <3> QED
      BY <1>s, <1>3, <3>1, <3>2 DEF QueueTypeOK, FlushRetry, Break
  <2>2. AtRow'
    BY <1>0, <1>3 DEF QueueTypeOK, FlushRetry, Break, AtRow, Noted
  <2>3. Fresh'
    BY <1>0, <1>3 DEF QueueTypeOK, FlushRetry, Break, AtRow, Fresh, Noted
  <2>4. NothingForgotten'
    BY <1>0, <1>3 DEF QueueTypeOK, FlushRetry, Break, NothingForgotten, Noted
  <2>5. Settling'
    BY <1>0, <1>3 DEF QueueTypeOK, FlushRetry, Break, AtRow, Fresh, Settling, Noted
  <2> QED
    BY <2>1, <2>2, <2>3, <2>4, <2>5
<1>4. ASSUME NEW r \in Answers, FlushFinal(r) PROVE IInv'
  <2>1. QueueTypeOK'
    BY <1>s, <1>4 DEF QueueTypeOK, FlushFinal, Answers, AtRow, Fresh
  <2>2. AtRow'
    BY <1>0, <1>4 DEF QueueTypeOK, FlushFinal, Answers, AtRow, Noted
  <2>3. Fresh'
    BY <1>0, <1>4 DEF QueueTypeOK, FlushFinal, Answers, AtRow, Fresh, Noted
  <2>4. NothingForgotten'
    BY <1>0, <1>4 DEF QueueTypeOK, FlushFinal, Answers, NothingForgotten, Noted
  <2>5. Settling'
    BY <1>0, <1>4 DEF QueueTypeOK, FlushFinal, Answers, AtRow, Fresh, Settling, Noted
  <2> QED
    BY <2>1, <2>2, <2>3, <2>4, <2>5
<1>5. CASE Drop
  <2>1. Noted(row)
    BY <1>5 DEF Drop, AtRow
  <2>2. QueueTypeOK' /\ AtRow'
    BY <1>0, <1>s, <1>5 DEF QueueTypeOK, Drop, AtRow, Noted
  <2>3. NothingForgotten'
    BY <1>0, <1>5, <2>1 DEF Drop, NothingForgotten, Noted
  <2>4. Fresh' /\ Settling'
    BY <1>0, <1>5 DEF Drop, AtRow, Fresh, Settling, Noted
  <2> QED
    BY <2>2, <2>3, <2>4
<1> QED
  BY <1>1, <1>2, <1>3, <1>4, <1>5

\* The flush's steps that may write to the history.
LEMMA NotesKeep ==
    ASSUME QueueAssumption, IInv, WriteNote \/ FlushUnexpected \/ FlushTrouble
    PROVE  IInv'
<1> USE DEF IInv, Channel, Notes, QueueAssumption
<1>1. CASE WriteNote
  <2>1. /\ row \in Scan /\ row \in taken /\ note \in Entries /\ note \in Notes /\ note' = "SAVED"
        /\ UNCHANGED <<taken, out, queue, tries, plan, row, excused, trouble>>
    BY <1>1 DEF WriteNote, AtRow, QueueTypeOK, Entries
  <2>2. /\ history' \in Seq(Scan \X Entries) /\ Len(history') <= Keep
        /\ gone' \subseteq Scan \X Notes
        /\ Told' = Told \cup {<<row, note>>}
    BY <1>1, <2>1, Adds DEF WriteNote
  <2>3. QueueTypeOK'
    BY <2>1, <2>2 DEF QueueTypeOK
  <2>4. AtRow'
    BY <2>1, <2>2 DEF AtRow, Noted
  <2>5. Fresh'
    BY <2>1, <2>2 DEF Fresh, Noted
  <2>6. NothingForgotten'
    BY <2>1, <2>2 DEF NothingForgotten, Noted
  <2>7. Settling'
    BY <2>1, <2>2 DEF Settling
  <2> QED
    BY <2>3, <2>4, <2>5, <2>6, <2>7
<1>2. CASE FlushUnexpected \/ FlushTrouble
  <2>1. /\ out' = [out EXCEPT !["flush"] = NoScan] /\ Break
        /\ UNCHANGED <<taken, queue, tries, excused>> /\ trouble' \in Nat
        /\ trouble' = 0 => trouble = 0 /\ note = NoScan
        /\ \/ UNCHANGED storeVars
           \/ row \in Scan /\ Add(row, "REJECTED")
    BY <1>2 DEF FlushUnexpected, FlushTrouble, QueueTypeOK
  <2>2. /\ history' \in Seq(Scan \X Entries) /\ Len(history') <= Keep
        /\ gone' \subseteq Scan \X Notes
        /\ \/ Told' = Told
           \/ row \in Scan /\ Told' = Told \cup {<<row, "REJECTED">>}
    <3>1. CASE UNCHANGED storeVars
      BY <3>1, StoreStays, StoreTyped
    <3>2. CASE row \in Scan /\ Add(row, "REJECTED")
      BY <3>2, Adds DEF Entries
    <3> QED
      BY <2>1, <3>1, <3>2
  <2>3. out'["live"] = out["live"] /\ out'["flush"] = NoScan /\ (row \in Scan => row \in taken)
    BY <2>1 DEF QueueTypeOK, AtRow
  <2>4. QueueTypeOK'
    <3>1. out' \in [Channel -> Scan \cup {NoScan}]
      BY <2>1 DEF QueueTypeOK
    <3> QED
      BY <2>1, <2>2, <3>1 DEF QueueTypeOK, Break
  <2>5. AtRow'
    BY <2>1, <2>3 DEF AtRow, Break
  <2>6. Fresh'
    BY <2>1, <2>2, <2>3 DEF Fresh, Break, Noted
  <2>7. NothingForgotten'
    BY <2>1, <2>2, <2>3 DEF NothingForgotten, Noted
  <2>8. Settling'
    BY <2>1, <2>2 DEF Settling
  <2> QED
    BY <2>4, <2>5, <2>6, <2>7, <2>8
<1> QED
  BY <1>1, <1>2

LEMMA StepIInv == ASSUME QueueAssumption, IInv, [QueueNext]_queueVars PROVE IInv'
<1> USE DEF IInv, Channel, Notes, QueueAssumption
<1>1. CASE Clear
  <2>1. UNCHANGED storeVars /\ Told' = Told
    BY <1>1, StoreStays DEF Clear
  <2> QED
    BY <1>1, <2>1, StoreTyped
       DEF QueueTypeOK, Clear, AtRow, Fresh, NothingForgotten, Settling, Noted, flushVars
<1>2. CASE Die
  <2>1. UNCHANGED storeVars /\ Told' = Told
    BY <1>2, StoreStays DEF Die
  <2>2. QueueTypeOK'
    <3>1. excused' \subseteq taken
      <4>1. out["live"] \in Scan => out["live"] \in taken
        BY DEF Fresh
      <4> QED
        BY <1>2, <4>1 DEF QueueTypeOK, Die
    <3>2. out' \in [Channel -> Scan \cup {NoScan}]
      BY <1>2 DEF Die
    <3>3. trouble' \in Nat
      BY <1>2 DEF QueueTypeOK, Die
    <3> QED
      BY <1>2, <2>1, <3>1, <3>2, <3>3, StoreTyped DEF QueueTypeOK, Die, Break
  <2>3. AtRow'
    BY <1>2, <2>1 DEF Die, Break, AtRow
  <2>4. Fresh'
    BY <1>2, <2>1 DEF Die, Break, AtRow, Fresh, Noted
  <2>5. NothingForgotten'
    BY <1>2, <2>1 DEF QueueTypeOK, Die, Break, NothingForgotten, Noted
  <2>6. Settling'
    BY <1>2, <2>1 DEF QueueTypeOK, Die, Break, Settling
  <2> QED
    BY <2>2, <2>3, <2>4, <2>5, <2>6
<1>3. CASE ClearHistory
  <2>1. /\ UNCHANGED <<taken, out, queue, tries, flushVars, excused, trouble>>
        /\ Told' = Told
        /\ history' \in Seq(Scan \X Entries) /\ Len(history') <= Keep
        /\ gone' \subseteq Scan \X Notes
    BY <1>3, Clears DEF ClearHistory
  <2> QED
    BY <2>1 DEF QueueTypeOK, AtRow, Fresh, NothingForgotten, Settling, Noted, flushVars
<1>4. CASE UNCHANGED queueVars
  <2>1. UNCHANGED storeVars /\ Told' = Told
    BY <1>4, StoreStays DEF queueVars
  <2> QED
    BY <1>4, <2>1, StoreTyped
       DEF queueVars, QueueTypeOK, flushVars, AtRow, Fresh, NothingForgotten, Settling, Noted
<1> QED
  BY <1>1, <1>2, <1>3, <1>4, LiveKeeps, FlushKeeps, NotesKeep DEF QueueNext, FlushStep

-----------------------------------------------------------------------------
\* Beside a live scan a flush works on a row of its own, and both leave the
\* table and the history what the other needs (PendingScanRetryOrchestrator).
THEOREM Invariant == ASSUME QueueAssumption PROVE QueueSpec => []IInv
<1>1. QueueInit => IInv
  BY InitIInv
<1>2. IInv /\ [QueueNext]_queueVars => IInv'
  BY StepIInv
<1> QED
  BY <1>1, <1>2, PTL DEF QueueSpec

\* The variables keep their types, whatever dies and whatever fails.
THEOREM TypeCorrect == ASSUME QueueAssumption PROVE QueueSpec => []QueueTypeOK
<1>1. IInv => QueueTypeOK
  BY DEF IInv
<1> QED
  BY <1>1, Invariant, PTL

\* A scan the reader took is on its way, queued, or settled where the operator
\* could see it: the history tells what became of it, or told so until Keep newer
\* entries or the operator took that out.  No death between two writes, no flush
\* beside a live scan and no row that keeps failing drops one untold
\* (PendingScanRetryOrchestrator writes the history before it deletes the row).
THEOREM ForgetsNothing == ASSUME QueueAssumption PROVE QueueSpec => []NothingForgotten
<1>1. IInv => NothingForgotten
  BY DEF IInv
<1> QED
  BY <1>1, Invariant, PTL

\* Without deaths and passing failures, what the history told the server had
\* accepted is not waiting to be sent again, except while the flush deletes it.
THEOREM SentRowsLeave == ASSUME QueueAssumption PROVE QueueSpec => []SettledLeaves
<1>1. IInv => SettledLeaves
  BY DEF IInv, Settling, SettledLeaves
<1> QED
  BY <1>1, Invariant, PTL

=============================================================================
