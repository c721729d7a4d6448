---------------------------- MODULE CoversProofs ----------------------------
(***************************************************************************)
(* Proofs about Covers, for any set of scanners and any bounds.            *)
(*                                                                         *)
(* FreshCoverKept is not inductive.  What carries it: a provider's row     *)
(* means the one worker is idle, so nobody is about to store another       *)
(* provider's image; and a scanner that read a path and was not overtaken  *)
(* still has that path in the row, which the worker's re-check then        *)
(* respects.                                                               *)
(*                                                                         *)
(* ProviderRowIsProviders needs to know whose the image is: while a row    *)
(* says provider, the image of its path is a provider's or a scanner that  *)
(* stored one there still owes the row its write.                          *)
(***************************************************************************)
EXTENDS CoversProps, TLAPS

\* The scanner has read a row with a cover, and no scanner wrote since.
Holds(s) ==
  /\ scan[s].pc \in {"stat", "parse", "sources", "gone", "forget"}
  /\ scan[s].path = CoverPath /\ ~scan[s].overtaken

\* createBook sets the marker only where it has no path.
Whole(r) ==
  /\ r.pc \in {"idle", "extract", "storeNew"} => r.path = "" /\ ~r.retry
  /\ r.pc = "insert" /\ r.retry => r.path = ""

NewRowWhole == \A s \in Scanners : Whole(scan[s])

ProviderRowMeansIdle == book.source = "provider" => worker = "idle"

\* The worker is only ever at a book that is there.
WorkerHasBook ==
  /\ worker # "idle" => book.exists
  /\ ~book.exists => book.source = "none"

HeldPathStands == \A s \in Scanners : Holds(s) => book.path = CoverPath

HeldCoverIsGone ==
  \A s \in Scanners :
    Holds(s) /\ At(s, "forget") /\ book.source = "provider" => image # "provider"

RowInv == TypeOK /\ CoverRowWhole /\ NewRowWhole /\ ProviderRowMeansIdle /\ WorkerHasBook

Inv == RowInv /\ HeldPathStands /\ HeldCoverIsGone

-----------------------------------------------------------------------------
(***************************************************************************)
(* The records, once and for all.                                          *)
(***************************************************************************)
LEMMA ScanRecords ==
  /\ Idle \in Scans /\ Idle.pc = "idle" /\ Idle.path = "" /\ Idle.retry = FALSE
  /\ \A r \in Scans : r.pc \in ScanPcs /\ r.path \in Paths
  /\ \A r \in Scans, pc \in ScanPcs :
       /\ [r EXCEPT !.pc = pc] \in Scans
       /\ [r EXCEPT !.pc = pc].pc = pc
       /\ [r EXCEPT !.pc = pc].path = r.path
       /\ [r EXCEPT !.pc = pc].retry = r.retry
       /\ [r EXCEPT !.pc = pc].overtaken = r.overtaken
BY DEF Idle, Scans, ScanPcs, Paths

LEMMA NewScanRecords ==
  /\ \A pc \in ScanPcs, path \in Paths, retry, overtaken \in BOOLEAN :
       [pc |-> pc, path |-> path, retry |-> retry, overtaken |-> overtaken] \in Scans
  /\ \A r \in Scans :
       /\ [r EXCEPT !.pc = "insert", !.path = CoverPath] \in Scans
       /\ [r EXCEPT !.pc = "insert", !.retry = TRUE] \in Scans
       /\ [r EXCEPT !.overtaken = TRUE] \in Scans
<1>1. \A pc \in ScanPcs, path \in Paths, retry, overtaken \in BOOLEAN :
       [pc |-> pc, path |-> path, retry |-> retry, overtaken |-> overtaken] \in Scans
  BY Zenon DEF Scans
<1>2. \A r \in Scans : [r EXCEPT !.overtaken = TRUE] \in Scans
  BY DEF Scans
<1>3. \A r \in Scans : /\ [r EXCEPT !.pc = "insert", !.path = CoverPath] \in Scans
                       /\ [r EXCEPT !.pc = "insert", !.retry = TRUE] \in Scans
  BY DEF Scans, ScanPcs, Paths
<1> QED  BY <1>1, <1>2, <1>3

LEMMA BookChanges ==
  \A b \in BookRows :
    /\ b.path \in Paths
    /\ RegeneratedRow(b) \in BookRows
    /\ EnrichedRow(b) \in BookRows
    /\ [b EXCEPT !.path = "", !.retry = FALSE, !.source = "none"] \in BookRows
    /\ RegeneratedRow(b).path = CoverPath /\ ~RegeneratedRow(b).retry
    /\ RegeneratedRow(b).source = "none"
    /\ EnrichedRow(b).path = CoverPath /\ ~EnrichedRow(b).retry
    /\ EnrichedRow(b).source = "provider"
    /\ RegeneratedRow(b).exists = b.exists /\ EnrichedRow(b).exists = b.exists
BY DEF BookRows, Paths, RegeneratedRow, EnrichedRow

(***************************************************************************)
(* The changes a step makes to the scanners.                               *)
(***************************************************************************)
LEMMA Going ==
  ASSUME NEW s \in Scanners, scan \in [Scanners -> Scans], NEW pc \in ScanPcs, Goto(s, pc)
  PROVE  /\ scan' \in [Scanners -> Scans]
         /\ \A t \in Scanners : t # s => scan'[t] = scan[t]
         /\ scan'[s] = [scan[s] EXCEPT !.pc = pc]
         /\ scan'[s].pc = pc /\ scan'[s].path = scan[s].path
         /\ scan'[s].retry = scan[s].retry /\ scan'[s].overtaken = scan[s].overtaken
<1>1. scan[s] \in Scans  OBVIOUS
<1>2. scan' = [scan EXCEPT ![s] = [scan[s] EXCEPT !.pc = pc]]  BY DEF Goto
<1>3. scan' \in [Scanners -> Scans] /\ scan'[s] = [scan[s] EXCEPT !.pc = pc]
  BY <1>1, <1>2, ScanRecords
<1> QED  BY <1>1, <1>2, <1>3, ScanRecords

LEMMA Leaving ==
  ASSUME NEW s \in Scanners, scan \in [Scanners -> Scans], Leave(s)
  PROVE  /\ scan' \in [Scanners -> Scans]
         /\ \A t \in Scanners : t # s => scan'[t] = scan[t]
         /\ scan'[s] = Idle
BY ScanRecords DEF Leave

LEMMA Observing ==
  ASSUME NEW s \in Scanners, scan \in [Scanners -> Scans], book \in BookRows, Observe(s)
  PROVE  /\ scan' \in [Scanners -> Scans]
         /\ \A t \in Scanners : t # s => scan'[t] = scan[t]
         /\ \/ scan'[s] = Idle
            \/ scan'[s].pc \in {"stat", "parse"} /\ scan'[s].path = book.path
<1>1. CASE NothingToDo(book)
  BY <1>1, Leaving DEF Observe
<1>2. CASE ~NothingToDo(book)
  <2> DEFINE pc == IF book.retry THEN "parse" ELSE "stat"
             r == [pc |-> pc, path |-> book.path, retry |-> book.retry, overtaken |-> FALSE]
  <2>1. pc \in ScanPcs /\ pc \in {"stat", "parse"}  BY DEF ScanPcs
  <2>2. book.path \in Paths /\ book.retry \in BOOLEAN  BY DEF BookRows
  <2>3. r \in Scans  BY <2>1, <2>2, NewScanRecords, Zenon
  <2>4. scan' = [scan EXCEPT ![s] = r]  BY <1>2 DEF Observe
  <2> QED  BY <2>1, <2>3, <2>4
<1> QED  BY <1>1, <1>2

LEMMA Overtaking ==
  ASSUME NEW s \in Scanners, scan \in [Scanners -> Scans], LeaveHavingWritten(s)
  PROVE  /\ scan' \in [Scanners -> Scans]
         /\ \A t \in Scanners :
              \/ scan'[t] = Idle
              \/ t # s /\ scan'[t] = [scan[t] EXCEPT !.overtaken = TRUE]
<1>1. \A t \in Scanners : Idle \in Scans /\ [scan[t] EXCEPT !.overtaken = TRUE] \in Scans
  BY ScanRecords, NewScanRecords
<1> QED  BY <1>1, Zenon DEF LeaveHavingWritten

-----------------------------------------------------------------------------
(***************************************************************************)
(* Type correctness.                                                       *)
(***************************************************************************)
LEMMA FaultsCounted == ASSUME TypeOK, Fault PROVE faults' \in 0 .. MaxFaults
BY BoundsAreNaturals DEF TypeOK, Fault

LEMMA ScanStepTyped ==
  ASSUME TypeOK, NEW s \in Scanners, Scan(s)
  PROVE  TypeOK'
<1> USE DEF TypeOK
<1>p. "extract" \in ScanPcs /\ "storeNew" \in ScanPcs /\ "insert" \in ScanPcs /\ "parse" \in ScanPcs
      /\ "sources" \in ScanPcs /\ "gone" \in ScanPcs /\ "forget" \in ScanPcs /\ "store" \in ScanPcs
      /\ "update" \in ScanPcs
  BY DEF ScanPcs
<1>1. CASE FindNoBook(s)  BY <1>1, <1>p, Going DEF FindNoBook
<1>2. CASE Extract(s)
  <2>1. PICK r \in EmbeddedStates :
          /\ Parsed(r)
          /\ scan' = [scan EXCEPT ![s] = [Idle EXCEPT !.pc = IF r = "good" THEN "storeNew" ELSE "insert"]]
    BY <1>2 DEF Extract
  <2>2. scan' \in [Scanners -> Scans]  BY <2>1, <1>p, ScanRecords
  <2>3. faults' \in 0 .. MaxFaults  BY <2>1, FaultsCounted DEF Parsed
  <2> QED  BY <1>2, <2>2, <2>3 DEF Extract
<1>3. CASE StoreNew(s)
  <2>0. /\ [scan[s] EXCEPT !.pc = "insert", !.path = CoverPath] \in Scans
        /\ [scan[s] EXCEPT !.pc = "insert", !.retry = TRUE] \in Scans
    BY NewScanRecords
  <2>1. scan' \in [Scanners -> Scans]
    <3>1. \/ scan' = [scan EXCEPT ![s] = [scan[s] EXCEPT !.pc = "insert", !.path = CoverPath]]
          \/ scan' = [scan EXCEPT ![s] = [scan[s] EXCEPT !.pc = "insert", !.retry = TRUE]]
      BY <1>3 DEF StoreNew
    <3> QED  BY <2>0, <3>1
  <2>2. image' \in ImageStates /\ faults' \in 0 .. MaxFaults
    BY <1>3, FaultsCounted DEF StoreNew, ImageStates
  <2> QED  BY <1>3, <2>1, <2>2 DEF StoreNew
<1>4. CASE Insert(s)
  <2>1. scan' \in [Scanners -> Scans]  BY <1>4, Overtaking DEF Insert
  <2>2. scan[s].path \in Paths /\ scan[s].retry \in BOOLEAN  BY DEF Scans
  <2>3. book' \in BookRows  BY <1>4, <2>2, Zenon DEF Insert, BookRows
  <2> QED  BY <1>4, <2>1, <2>3 DEF Insert
<1>5. CASE InsertLoses(s)
  <2>1. torn' \in BOOLEAN  BY <1>5 DEF InsertLoses
  <2> QED  BY <1>5, <2>1, Observing DEF InsertLoses
<1>6. CASE Look(s)  BY <1>6, Observing DEF Look
<1>7. CASE Stat(s)  BY <1>7, <1>p, Going, Leaving DEF Stat
<1>8. CASE Reparse(s)
  <2>1. PICK r \in EmbeddedStates : Parsed(r) /\ Goto(s, AfterParse(r))  BY <1>8 DEF Reparse
  <2>2. AfterParse(r) \in ScanPcs  BY <1>p DEF AfterParse, EmbeddedStates
  <2>3. faults' \in 0 .. MaxFaults  BY <2>1, FaultsCounted DEF Parsed
  <2> QED  BY <1>8, <2>1, <2>2, <2>3, Going DEF Reparse
<1>9. CASE ReadSources(s)  BY <1>9, <1>p, Going, Leaving DEF ReadSources
<1>10. CASE CheckGone(s)  BY <1>10, <1>p, Going, Leaving DEF CheckGone
<1>11. CASE ForgetCover(s)
  <2>1. CASE ForgetRefused(s)  BY <1>11, <2>1, Leaving DEF ForgetCover
  <2>2. CASE ~ForgetRefused(s)  BY <1>11, <2>2, Overtaking, BookChanges DEF ForgetCover
  <2> QED  BY <2>1, <2>2
<1>12. CASE StoreImage(s)  BY <1>12, <1>p, Going DEF StoreImage, ImageStates
<1>13. CASE UpdateCoverPath(s)  BY <1>13, Overtaking, BookChanges DEF UpdateCoverPath
<1>14. CASE GiveUp(s)
  <2>1. torn' \in BOOLEAN  BY <1>14 DEF GiveUp
  <2> QED  BY <1>14, <2>1, Leaving, FaultsCounted DEF GiveUp
<1> QED
  BY <1>1, <1>2, <1>3, <1>4, <1>5, <1>6, <1>7, <1>8, <1>9, <1>10, <1>11, <1>12, <1>13, <1>14 DEF Scan

LEMMA OtherStepTyped ==
  ASSUME TypeOK, Work \/ LoseImage \/ Restart \/ UNCHANGED vars
  PROVE  TypeOK'
<1> USE DEF TypeOK
<1>1. CASE WorkerLook  BY <1>1 DEF WorkerLook
<1>2. CASE WorkerStore  BY <1>2 DEF WorkerStore, ImageStates
<1>3. CASE WorkerLosesCover  BY <1>3 DEF WorkerLosesCover
<1>4. CASE WorkerApply
  <2>1. book' \in BookRows  BY <1>4, BookChanges DEF WorkerApply
  <2> QED  BY <1>4, <2>1 DEF WorkerApply
<1>5. CASE WorkerApplyFails  BY <1>5, FaultsCounted DEF WorkerApplyFails
<1>6. CASE LoseImage  BY <1>6, BoundsAreNaturals DEF LoseImage, ImageStates
<1>7. CASE Restart
  <2>1. torn' \in BOOLEAN  BY <1>7 DEF Restart
  <2>0. stops < MaxStops /\ stops' = stops + 1  BY <1>7 DEF Restart
  <2>2. stops' \in 0 .. MaxStops  BY <2>0, BoundsAreNaturals
  <2>3. scan' \in [Scanners -> Scans]  BY <1>7, ScanRecords DEF Restart
  <2> QED  BY <1>7, <2>1, <2>2, <2>3 DEF Restart
<1>8. CASE UNCHANGED vars  BY <1>8 DEF vars
<1> QED  BY <1>1, <1>2, <1>3, <1>4, <1>5, <1>6, <1>7, <1>8 DEF Work

LEMMA InitTyped == Init => TypeOK
<1> SUFFICES ASSUME Init PROVE TypeOK  OBVIOUS
<1>1. NoBook \in BookRows /\ [NoBook EXCEPT !.exists = TRUE, !.retry = TRUE] \in BookRows
  BY DEF NoBook, BookRows, Paths
<1>2. book \in BookRows  BY <1>1 DEF Init
<1>3. scan \in [Scanners -> Scans]  BY ScanRecords DEF Init
<1>4. losses \in 0 .. MaxLosses /\ faults \in 0 .. MaxFaults /\ stops \in 0 .. MaxStops
  BY BoundsAreNaturals DEF Init
<1>5. embedded \in EmbeddedStates /\ image \in ImageStates /\ worker = "idle" /\ torn = FALSE
  BY DEF Init, ImageStates
<1> QED  BY <1>2, <1>3, <1>4, <1>5, Zenon DEF TypeOK

\* Every variable keeps its shape, for any scanners and any bounds.
THEOREM TypeCorrect == Spec => []TypeOK
<1>1. TypeOK /\ [Next]_vars => TypeOK'  BY ScanStepTyped, OtherStepTyped DEF Next
<1> QED  BY <1>1, InitTyped, PTL DEF Spec

-----------------------------------------------------------------------------
(***************************************************************************)
(* The row.                                                                *)
(***************************************************************************)
\* How a step of a scanner moves the scanners: itself anywhere, the others
\* not at all, or overtaken by the row it wrote.
LEMMA OthersStay ==
  ASSUME TypeOK, NEW s \in Scanners, Scan(s), NEW t \in Scanners, t # s
  PROVE  \/ scan'[t] = scan[t]
         \/ scan'[t] = Idle
         \/ scan'[t] = [scan[t] EXCEPT !.overtaken = TRUE]
<1> USE DEF TypeOK
<1>0. TypeOK'  BY ScanStepTyped
<1>1. CASE LeaveHavingWritten(s)  BY <1>1, Overtaking
<1>2. CASE Leave(s)  BY <1>2, Leaving
<1>3. CASE Observe(s)  BY <1>3, Observing
<1>4. CASE \E r \in Scans : scan' = [scan EXCEPT ![s] = r]  BY <1>4
<1>5. ASSUME NEW pc, Goto(s, pc) PROVE scan'[t] = scan[t]  BY <1>5 DEF Goto
<1>6. CASE FindNoBook(s) \/ StoreImage(s) \/ Reparse(s)
  BY <1>6, <1>5 DEF FindNoBook, StoreImage, Reparse
<1>7. CASE Extract(s) \/ StoreNew(s)  BY <1>7 DEF Extract, StoreNew
<1>8. CASE Insert(s) \/ UpdateCoverPath(s) \/ ForgetCover(s)
  BY <1>1, <1>2, <1>8 DEF Insert, UpdateCoverPath, ForgetCover
<1>9. CASE Look(s) \/ InsertLoses(s)  BY <1>3, <1>9 DEF Look, InsertLoses
<1>10. CASE Stat(s) \/ ReadSources(s) \/ CheckGone(s) \/ GiveUp(s)
  BY <1>2, <1>5, <1>10 DEF Stat, ReadSources, CheckGone, GiveUp
<1> QED  BY <1>6, <1>7, <1>8, <1>9, <1>10 DEF Scan

\* The row stays, is created, is forgotten or is the scanner's own.
LEMMA RowChanges ==
  ASSUME TypeOK, NEW s \in Scanners, Scan(s)
  PROVE  /\ worker' = worker
         /\ \/ book' = book
            \/ /\ At(s, "insert") /\ ~book.exists
               /\ book'.path = scan[s].path /\ book'.retry = scan[s].retry
               /\ book'.source = "none" /\ book'.exists /\ LeaveHavingWritten(s)
            \/ /\ At(s, "forget") /\ book.path = scan[s].path
               /\ book'.path = "" /\ ~book'.retry
               /\ book'.source = "none" /\ book'.exists = book.exists /\ LeaveHavingWritten(s)
            \/ /\ At(s, "update") /\ book'.path = CoverPath /\ ~book'.retry
               /\ book'.source = "none" /\ book'.exists = book.exists /\ LeaveHavingWritten(s)
<1>1. CASE Insert(s)  BY <1>1 DEF Insert
<1>2. CASE ForgetCover(s)
  <2>1. book \in BookRows  BY DEF TypeOK
  <2> QED  BY <1>2, <2>1 DEF ForgetCover, ForgetRefused, BookRows
<1>3. CASE UpdateCoverPath(s)  BY <1>3, BookChanges DEF UpdateCoverPath, TypeOK
<1> QED
  BY <1>1, <1>2, <1>3
  DEF Scan, FindNoBook, Extract, StoreNew, InsertLoses, Look, Stat, Reparse, ReadSources,
      CheckGone, StoreImage, GiveUp

\* A new book's row never has both, whoever wins the race to insert it.
LEMMA NewRowStep == TypeOK /\ NewRowWhole /\ [Next]_vars => NewRowWhole'
<1> SUFFICES ASSUME TypeOK, NewRowWhole, [Next]_vars PROVE NewRowWhole'  OBVIOUS
<1>0. \A t \in Scanners : Whole(scan[t]) /\ scan[t] \in Scans
  BY DEF NewRowWhole, TypeOK
<1>i. Whole(Idle)  BY ScanRecords DEF Whole
<1>o. \A r \in Scans : Whole(r) => Whole([r EXCEPT !.overtaken = TRUE])
  BY DEF Scans, Whole
<1>1. ASSUME NEW s \in Scanners, Scan(s) PROVE \A t \in Scanners : Whole(scan'[t])
  <2>1. ASSUME NEW t \in Scanners, t # s PROVE Whole(scan'[t])
    BY <1>0, <1>1, <1>i, <1>o, <2>1, OthersStay
  <2>2. Whole(scan'[s])
    <3>1. CASE Leave(s) \/ LeaveHavingWritten(s)
      <4>1. CASE Leave(s)  BY <4>1, <1>i, Leaving DEF TypeOK
      <4>2. CASE LeaveHavingWritten(s)  BY <4>2, <1>i, Overtaking DEF TypeOK
      <4> QED  BY <3>1, <4>1, <4>2
    <3>2. CASE Observe(s)  BY <3>2, <1>i, Observing DEF TypeOK, Whole
    <3>3. ASSUME NEW pc \in ScanPcs, Goto(s, pc), pc \notin {"idle", "extract", "storeNew", "insert"}
          PROVE Whole(scan'[s])
      BY <3>3, Going DEF TypeOK, Whole
    <3>4. CASE FindNoBook(s)
      <4>1. Goto(s, "extract") /\ scan[s].pc = "idle"  BY <3>4 DEF FindNoBook, At
      <4>2. scan'[s].pc = "extract" /\ scan'[s].path = scan[s].path /\ scan'[s].retry = scan[s].retry
        BY <4>1, Going DEF TypeOK, ScanPcs
      <4> QED  BY <1>0, <4>1, <4>2 DEF Whole
    <3>5. CASE Extract(s)
      <4>1. PICK r \in EmbeddedStates :
              scan' = [scan EXCEPT ![s] = [Idle EXCEPT !.pc = IF r = "good" THEN "storeNew" ELSE "insert"]]
        BY <3>5 DEF Extract
      <4>2. \/ scan'[s] = [Idle EXCEPT !.pc = "storeNew"]
            \/ scan'[s] = [Idle EXCEPT !.pc = "insert"]
        <5>1. CASE r = "good"  BY <4>1, <5>1 DEF TypeOK
        <5>2. CASE r # "good"  BY <4>1, <5>2 DEF TypeOK
        <5> QED  BY <5>1, <5>2
      <4>4. scan'[s].path = "" /\ scan'[s].retry = FALSE  BY <4>2 DEF Idle
      <4> QED  BY <4>4 DEF Whole
    <3>6. CASE StoreNew(s)
      <4>1. scan[s].pc = "storeNew" /\ scan[s] \in Scans  BY <3>6 DEF StoreNew, At, TypeOK
      <4>2. \/ scan'[s] = [scan[s] EXCEPT !.pc = "insert", !.path = CoverPath]
            \/ scan'[s] = [scan[s] EXCEPT !.pc = "insert", !.retry = TRUE]
        BY <3>6 DEF StoreNew, TypeOK
      <4>3. scan[s].path = "" /\ ~scan[s].retry  BY <1>0, <4>1 DEF Whole
      <4> QED  BY <4>1, <4>2, <4>3 DEF Whole, Scans
    <3>7. CASE Reparse(s) \/ StoreImage(s)
      <4>1. \A r \in EmbeddedStates : AfterParse(r) \in {"sources", "store", "gone"}
        BY DEF AfterParse, EmbeddedStates
      <4>2. PICK pc \in {"sources", "store", "gone", "update"} : Goto(s, pc)
        BY <3>7, <4>1 DEF Reparse, StoreImage
      <4> QED  BY <4>2, <3>3 DEF ScanPcs
    <3>8. CASE Stat(s) \/ ReadSources(s) \/ CheckGone(s)
      <4>1. Leave(s) \/ Goto(s, "parse") \/ Goto(s, "gone") \/ Goto(s, "forget")
        BY <3>8 DEF Stat, ReadSources, CheckGone
      <4> QED  BY <4>1, <3>1, <3>3 DEF ScanPcs
    <3> QED
      BY <1>1, <3>1, <3>2, <3>4, <3>5, <3>6, <3>7, <3>8
      DEF Scan, Insert, InsertLoses, Look, ForgetCover, UpdateCoverPath, GiveUp
  <2> QED  BY <2>1, <2>2
<1>2. CASE Work \/ LoseImage \/ UNCHANGED vars
  <2>1. scan' = scan
    BY <1>2 DEF Work, WorkerLook, WorkerStore, WorkerLosesCover, WorkerApply, WorkerApplyFails,
                LoseImage, vars
  <2> QED  BY <2>1 DEF NewRowWhole
<1>3. CASE Restart
  <2>1. \A t \in Scanners : scan'[t] = Idle  BY <1>3 DEF Restart
  <2> QED  BY <2>1, <1>i, Zenon DEF NewRowWhole
<1>4. ASSUME NEW s \in Scanners, Scan(s) PROVE NewRowWhole'
  BY <1>1, <1>4 DEF NewRowWhole
<1> QED  BY <1>2, <1>3, <1>4 DEF Next

\* What the worker and the rest of the world do to the row.
LEMMA WorkerRow ==
  ASSUME TypeOK, Work \/ LoseImage \/ Restart \/ UNCHANGED vars
  PROVE  \/ book' = book /\ worker' \in {worker, "idle"}
         \/ book' = book /\ book.path = "" /\ book.exists /\ worker' = "fetch"
         \/ book' = book /\ worker = "fetch" /\ worker' = "apply"
         \/ worker = "apply" /\ worker' = "idle" /\ book.path = "" /\ book' = EnrichedRow(book)
BY DEF Work, WorkerLook, WorkerStore, WorkerLosesCover, WorkerApply, WorkerApplyFails, StillMissing,
       LoseImage, Restart, vars

LEMMA RowStep == RowInv /\ [Next]_vars => RowInv'
<1> SUFFICES ASSUME RowInv, [Next]_vars PROVE RowInv'  OBVIOUS
<1> USE DEF RowInv
<1>1. TypeOK' /\ NewRowWhole'  BY ScanStepTyped, OtherStepTyped, NewRowStep DEF Next
<1>2. ASSUME Work \/ LoseImage \/ Restart \/ UNCHANGED vars
      PROVE  CoverRowWhole' /\ ProviderRowMeansIdle' /\ WorkerHasBook'
  <2>1. book \in BookRows /\ worker \in {"idle", "fetch", "apply"}  BY DEF TypeOK
  <2>2. CASE book' = book /\ worker' \in {worker, "idle"}
    BY <2>2 DEF CoverRowWhole, ProviderRowMeansIdle, WorkerHasBook
  <2>3. CASE book' = book /\ book.path = "" /\ book.exists /\ worker' = "fetch"
    BY <2>3 DEF CoverRowWhole, ProviderRowMeansIdle, WorkerHasBook
  <2>4. CASE book' = book /\ worker = "fetch" /\ worker' = "apply"
    BY <2>1, <2>4 DEF CoverRowWhole, ProviderRowMeansIdle, WorkerHasBook
  <2>5. CASE worker = "apply" /\ worker' = "idle" /\ book.path = "" /\ book' = EnrichedRow(book)
    BY <2>1, <2>5, BookChanges DEF CoverRowWhole, ProviderRowMeansIdle, WorkerHasBook, CoverPath
  <2> QED  BY <1>2, <2>2, <2>3, <2>4, <2>5, WorkerRow
<1>3. ASSUME NEW s \in Scanners, Scan(s) PROVE CoverRowWhole' /\ ProviderRowMeansIdle' /\ WorkerHasBook'
  <2>1. Whole(scan[s]) /\ worker' = worker  BY <1>3, RowChanges DEF NewRowWhole
  <2>2. CASE book' = book  BY <2>1, <2>2 DEF CoverRowWhole, ProviderRowMeansIdle, WorkerHasBook
  <2>3. CASE At(s, "insert") /\ book'.path = scan[s].path /\ book'.retry = scan[s].retry
             /\ book'.source = "none" /\ book'.exists
    BY <2>1, <2>3 DEF CoverRowWhole, ProviderRowMeansIdle, WorkerHasBook, At, Whole
  <2>4. CASE ~book'.retry /\ book'.source = "none" /\ book'.exists = book.exists
    BY <2>1, <2>4 DEF CoverRowWhole, ProviderRowMeansIdle, WorkerHasBook
  <2> QED  BY <1>3, <2>2, <2>3, <2>4, RowChanges
<1> QED  BY <1>1, <1>2, <1>3 DEF Next

LEMMA InitRow == Init => RowInv
<1> SUFFICES ASSUME Init PROVE RowInv  OBVIOUS
<1>1. TypeOK  BY InitTyped
<1>0. /\ NoBook.path = "" /\ NoBook.source = "none"
      /\ [NoBook EXCEPT !.exists = TRUE, !.retry = TRUE].path = ""
      /\ [NoBook EXCEPT !.exists = TRUE, !.retry = TRUE].source = "none"
  BY Zenon DEF NoBook
<1>2. book.path = "" /\ book.source = "none"  BY <1>0, Zenon DEF Init
<1>3. NewRowWhole  BY ScanRecords DEF Init, NewRowWhole, Whole
<1> QED  BY <1>1, <1>2, <1>3 DEF Init, RowInv, CoverRowWhole, ProviderRowMeansIdle, WorkerHasBook

\* No marker beside a path, no provider's row beside an empty one: the pairing
\* the scanner relies on, whatever scanners, worker, faults and restarts do.
THEOREM RowWhole == Spec => []CoverRowWhole
<1>1. RowInv => CoverRowWhole  BY DEF RowInv
<1> QED  BY <1>1, InitRow, RowStep, PTL DEF Spec

-----------------------------------------------------------------------------
(***************************************************************************)
(* The cover a scanner holds.                                              *)
(***************************************************************************)
\* A scanner that holds a cover after its own step held it before, or has
\* just read the row; and it is about to forget it only if it saw it gone.
LEMMA HoldingAfter ==
  ASSUME TypeOK, NewRowWhole, NEW s \in Scanners, Scan(s), Holds(s)'
  PROVE  /\ book' = book /\ image' = image
         /\ Holds(s) \/ book.path = CoverPath
         /\ At(s, "forget")' => image # "provider"
<1>0. scan[s] \in Scans /\ Whole(scan[s])  BY DEF TypeOK, NewRowWhole
<1>i. ~Leave(s) /\ ~LeaveHavingWritten(s)
  <2>1. scan'[s].pc # "idle"  BY DEF Holds
  <2>2. ASSUME Leave(s) PROVE FALSE  BY <2>1, <2>2, Leaving, ScanRecords DEF TypeOK
  <2>3. ASSUME LeaveHavingWritten(s) PROVE FALSE  BY <2>1, <2>3, Overtaking, ScanRecords DEF TypeOK
  <2> QED  BY <2>2, <2>3
<1>1. CASE Look(s) \/ InsertLoses(s)
  <2>0. Observe(s) /\ ~NothingToDo(book)  BY <1>1, <1>i DEF Look, InsertLoses, Observe
  <2>1. scan'[s].pc \in {"stat", "parse"} /\ scan'[s].path = book.path
    <3>1. scan'[s].pc # "idle"  BY DEF Holds
    <3> QED  BY <2>0, <3>1, Observing, ScanRecords DEF TypeOK
  <2> QED  BY <1>1, <2>1 DEF Look, InsertLoses, Holds, At
<1>2. ASSUME NEW pc \in ScanPcs, Goto(s, pc), scan[s].pc \in {"stat", "parse", "sources", "gone"}
      PROVE  Holds(s)
  BY <1>2, Going DEF TypeOK, Holds
<1>3. CASE Stat(s) \/ ReadSources(s)
  <2>1. Goto(s, "parse") \/ Goto(s, "gone")  BY <1>i, <1>3 DEF Stat, ReadSources
  <2>2. Holds(s)  BY <1>2, <1>3, <2>1 DEF Stat, ReadSources, At, ScanPcs
  <2>3. scan'[s].pc # "forget"  BY <2>1, Going DEF TypeOK, ScanPcs
  <2> QED  BY <1>3, <2>2, <2>3 DEF Stat, ReadSources, At
<1>4. CASE Reparse(s)
  <2>1. \A r \in EmbeddedStates : AfterParse(r) \in {"sources", "store", "gone"}
    BY DEF AfterParse, EmbeddedStates
  <2>2. PICK pc \in {"sources", "store", "gone"} : Goto(s, pc)  BY <1>4, <2>1 DEF Reparse
  <2>3. Holds(s)  BY <1>2, <1>4, <2>2 DEF Reparse, At, ScanPcs
  <2>4. scan'[s].pc # "forget"  BY <2>2, Going DEF TypeOK, ScanPcs
  <2> QED  BY <1>4, <2>3, <2>4 DEF Reparse, At
<1>5. CASE CheckGone(s)
  <2>1. Goto(s, "forget") /\ (scan[s].path = "" \/ ~Usable)  BY <1>i, <1>5 DEF CheckGone
  <2>2. Holds(s)  BY <1>2, <1>5, <2>1 DEF CheckGone, At, ScanPcs
  <2>3. image # "provider"  BY <2>1, <2>2 DEF Holds, Usable, CoverPath
  <2> QED  BY <1>5, <2>2, <2>3 DEF CheckGone
<1>6. CASE FindNoBook(s) \/ StoreImage(s)
  <2>1. Goto(s, "extract") \/ Goto(s, "update")  BY <1>6 DEF FindNoBook, StoreImage
  <2> QED  BY <2>1, Going DEF TypeOK, ScanPcs, Holds
<1>7. CASE Extract(s) \/ StoreNew(s)
  <2>1. scan'[s].pc \in {"storeNew", "insert"}
    <3>1. CASE Extract(s)  BY <3>1 DEF Extract, TypeOK, Idle
    <3>2. CASE StoreNew(s)
      <4>1. \/ scan'[s] = [scan[s] EXCEPT !.pc = "insert", !.path = CoverPath]
            \/ scan'[s] = [scan[s] EXCEPT !.pc = "insert", !.retry = TRUE]
        BY <3>2 DEF StoreNew, TypeOK
      <4> QED  BY <1>0, <4>1 DEF Scans
    <3> QED  BY <1>7, <3>1, <3>2
  <2> QED  BY <2>1 DEF Holds
<1>8. CASE Insert(s) \/ ForgetCover(s) \/ UpdateCoverPath(s) \/ GiveUp(s)
  BY <1>8, <1>i DEF Insert, ForgetCover, UpdateCoverPath, GiveUp
<1> QED  BY <1>1, <1>3, <1>4, <1>5, <1>6, <1>7, <1>8 DEF Scan

LEMMA HeldStep == Inv /\ [Next]_vars => Inv'
<1> SUFFICES ASSUME Inv, [Next]_vars PROVE HeldPathStands' /\ HeldCoverIsGone'
  BY RowStep DEF Inv
<1>0. TypeOK /\ NewRowWhole /\ RowInv' /\ HeldPathStands /\ HeldCoverIsGone
  BY RowStep DEF Inv, RowInv
<1>1. ASSUME NEW s \in Scanners, Scan(s), NEW t \in Scanners, Holds(t)'
      PROVE  /\ book'.path = CoverPath
             /\ At(t, "forget")' /\ book'.source = "provider" => image' # "provider"
  <2>1. CASE t = s
    <3>1. book' = book /\ image' = image /\ (Holds(s) \/ book.path = CoverPath)
          /\ (At(s, "forget")' => image # "provider")
      BY <1>0, <1>1, <2>1, HoldingAfter
    <3> QED  BY <1>0, <2>1, <3>1 DEF HeldPathStands
  <2>2. CASE t # s
    <3>1. scan'[t] # Idle  BY <1>1, ScanRecords DEF Holds
    <3>2. scan[t] \in Scans  BY <1>0 DEF TypeOK
    <3>3. scan'[t] # [scan[t] EXCEPT !.overtaken = TRUE]  BY <1>1, <3>2 DEF Holds, Scans
    <3>4. scan'[t] = scan[t]  BY <1>0, <1>1, <2>2, <3>1, <3>3, OthersStay
    <3>5. Holds(t)  BY <1>1, <3>4 DEF Holds
    <3>6. ~LeaveHavingWritten(s)
      BY <1>0, <3>1, <3>3, Overtaking DEF TypeOK
    <3>7. book' = book  BY <1>0, <1>1, <3>6, RowChanges
    <3>8. image' \in {image, "embedded"}
      BY <1>1 DEF Scan, FindNoBook, Extract, StoreNew, Insert, InsertLoses, Look, Stat, Reparse,
                  ReadSources, CheckGone, ForgetCover, StoreImage, UpdateCoverPath, GiveUp
    <3> QED  BY <1>0, <3>4, <3>5, <3>7, <3>8 DEF HeldPathStands, HeldCoverIsGone, At
  <2> QED  BY <2>1, <2>2
<1>2. ASSUME Work \/ LoseImage \/ UNCHANGED vars, NEW t \in Scanners, Holds(t)'
      PROVE  /\ book'.path = CoverPath
             /\ At(t, "forget")' /\ book'.source = "provider" => image' # "provider"
  <2>1. scan' = scan
    BY <1>2 DEF Work, WorkerLook, WorkerStore, WorkerLosesCover, WorkerApply, WorkerApplyFails,
                LoseImage, vars
  <2>2. Holds(t) /\ book.path = CoverPath  BY <1>0, <1>2, <2>1 DEF Holds, HeldPathStands
  <2>3. book' = book
    BY <1>0, <1>2, <2>2, WorkerRow DEF CoverPath
  <2>4. book.source = "provider" => image' # "provider" \/ image' = image
    BY <1>2 DEF Inv, RowInv, ProviderRowMeansIdle, Work, WorkerLook, WorkerStore, WorkerLosesCover,
                WorkerApply, WorkerApplyFails, LoseImage, vars
  <2> QED  BY <1>0, <2>1, <2>2, <2>3, <2>4 DEF HeldCoverIsGone, At
<1>3. ASSUME Restart, NEW t \in Scanners, Holds(t)' PROVE FALSE
  BY <1>3, ScanRecords DEF Restart, Holds
<1> QED  BY <1>1, <1>2, <1>3 DEF Next, HeldPathStands, HeldCoverIsGone

\* A provider's cover whose image is there is only forgotten by a scanner
\* that another scanner overtook: with one scanner, never.
THEOREM FreshKept == Spec => FreshCoverKept
<1>1. Init => Inv
  <2> SUFFICES ASSUME Init PROVE Inv  OBVIOUS
  <2>1. \A t \in Scanners : ~Holds(t)  BY ScanRecords DEF Init, Holds
  <2> QED  BY <2>1, InitRow DEF Inv, HeldPathStands, HeldCoverIsGone
<1>2. Inv /\ [Next]_vars =>
        (book.source = "provider" /\ image = "provider" /\ book'.path = "" =>
           \E s \in Scanners : At(s, "forget") /\ scan[s].overtaken)
  <2> SUFFICES ASSUME Inv, [Next]_vars, book.source = "provider", image = "provider", book'.path = ""
               PROVE  \E s \in Scanners : At(s, "forget") /\ scan[s].overtaken
    OBVIOUS
  <2>0. TypeOK /\ book \in BookRows /\ book.path = CoverPath /\ book.exists /\ CoverPath # ""
    BY DEF Inv, RowInv, TypeOK, CoverRowWhole, WorkerHasBook, BookRows, Paths, CoverPath
  <2>1. ~(Work \/ LoseImage \/ Restart \/ UNCHANGED vars)
    BY <2>0, WorkerRow, BookChanges
  <2>2. PICK s \in Scanners : Scan(s)  BY <2>1 DEF Next
  <2>3. At(s, "forget") /\ book.path = scan[s].path  BY <2>0, <2>2, RowChanges
  <2>4. ~Holds(s)  BY <2>3 DEF Inv, HeldCoverIsGone
  <2>5. scan[s].overtaken  BY <2>0, <2>3, <2>4 DEF Holds, At
  <2> QED  BY <2>3, <2>5
<1> QED  BY <1>1, <1>2, HeldStep, PTL DEF Spec, FreshCoverKept
-----------------------------------------------------------------------------
(***************************************************************************)
(* Whose image it is.                                                      *)
(*                                                                         *)
(* A scanner that has put its image in place owes the row.  While nobody   *)
(* owes it and no debt was dropped, an embedded image has no provider's    *)
(* row, and the worker, should it be about to write one, will find the     *)
(* path filled.  What could empty the path is a scanner that holds a cover *)
(* on its way to forget it: of a file with a good cover that can only be   *)
(* a provider's.                                                           *)
(***************************************************************************)
Owes(s) == At(s, "update") \/ (At(s, "insert") /\ scan[s].path # "")

HasGood(r) == r.pc \in {"storeNew", "store", "update"} \/ (r.pc = "insert" /\ r.path # "")

OnlyGoodStored ==
  /\ image = "embedded" => embedded = "good"
  /\ \A s \in Scanners : HasGood(scan[s]) => embedded = "good"

OnlyProvidersForgotten ==
  \A s \in Scanners :
    Holds(s) /\ scan[s].pc \in {"gone", "forget"} /\ embedded = "good" => book.source = "provider"

ImageAnswered ==
  image = "embedded" /\ ~torn /\ (\A s \in Scanners : ~Owes(s)) =>
    book.source # "provider" /\ (worker = "apply" => book.path # "")

ImageInv == Inv /\ OnlyGoodStored /\ OnlyProvidersForgotten /\ ImageAnswered

LEMMA OvertakenKeepPlace ==
  ASSUME TypeOK, NEW s \in Scanners, LeaveHavingWritten(s), NEW t \in Scanners, t # s
  PROVE  scan'[t].pc = scan[t].pc /\ (scan[t].pc # "idle" => scan'[t].path = scan[t].path)
<1>1. CASE scan[t].pc = "idle"
  <2>1. scan'[t] = Idle  BY <1>1 DEF LeaveHavingWritten
  <2> QED  BY <1>1, <2>1, ScanRecords
<1>2. CASE scan[t].pc # "idle"
  <2>1. scan'[t] = [scan[t] EXCEPT !.overtaken = TRUE]  BY <1>2 DEF LeaveHavingWritten
  <2>2. scan[t] \in Scans  BY DEF TypeOK
  <2> QED  BY <2>1, <2>2 DEF Scans
<1> QED  BY <1>1, <1>2

\* A step of one scanner leaves the others where they are.
LEMMA OthersKeepPlace ==
  ASSUME TypeOK, NEW s \in Scanners, Scan(s), NEW t \in Scanners, t # s
  PROVE  scan'[t].pc = scan[t].pc /\ (scan[t].pc # "idle" => scan'[t].path = scan[t].path)
<1> USE DEF TypeOK
<1>1. CASE LeaveHavingWritten(s)  BY <1>1, OvertakenKeepPlace
<1>2. CASE Leave(s)  BY <1>2, Leaving
<1>3. CASE Observe(s)  BY <1>3, Observing
<1>5. ASSUME NEW pc, Goto(s, pc) PROVE scan'[t] = scan[t]  BY <1>5 DEF Goto
<1>6. CASE FindNoBook(s) \/ StoreImage(s) \/ Reparse(s)
  BY <1>6, <1>5 DEF FindNoBook, StoreImage, Reparse
<1>7. CASE Extract(s) \/ StoreNew(s)  BY <1>7 DEF Extract, StoreNew
<1>8. CASE Insert(s) \/ UpdateCoverPath(s) \/ ForgetCover(s)
  BY <1>1, <1>2, <1>8 DEF Insert, UpdateCoverPath, ForgetCover
<1>9. CASE Look(s) \/ InsertLoses(s)  BY <1>3, <1>9 DEF Look, InsertLoses
<1>10. CASE Stat(s) \/ ReadSources(s) \/ CheckGone(s) \/ GiveUp(s)
  BY <1>2, <1>5, <1>10 DEF Stat, ReadSources, CheckGone, GiveUp
<1> QED  BY <1>6, <1>7, <1>8, <1>9, <1>10 DEF Scan
\* Where a scanner's own step takes it, when it then has a good image in hand
\* or is on its way to forget a cover it holds.
LEMMA GoodAfter ==
  ASSUME TypeOK, NewRowWhole, OnlyGoodStored, NEW s \in Scanners, Scan(s), HasGood(scan'[s])
  PROVE  embedded = "good"
<1>0. scan[s] \in Scans /\ Whole(scan[s])  BY DEF TypeOK, NewRowWhole
<1>1. scan'[s].pc # "idle"  BY DEF HasGood
<1>2. ~Leave(s) /\ ~LeaveHavingWritten(s)
  <2>1. ASSUME Leave(s) PROVE FALSE  BY <1>1, <2>1, Leaving, ScanRecords DEF TypeOK
  <2>2. ASSUME LeaveHavingWritten(s) PROVE FALSE  BY <1>1, <2>2, Overtaking, ScanRecords DEF TypeOK
  <2> QED  BY <2>1, <2>2
<1>3. ~Observe(s)
  <2>1. ASSUME Observe(s) PROVE FALSE
    <3>1. scan'[s] = Idle \/ scan'[s].pc \in {"stat", "parse"}  BY <2>1, Observing DEF TypeOK
    <3> QED  BY <1>1, <3>1, ScanRecords DEF HasGood
  <2> QED  BY <2>1
<1>4. ASSUME NEW pc \in {"parse", "sources", "gone", "forget", "extract"}, Goto(s, pc) PROVE FALSE
  BY <1>4, Going DEF TypeOK, ScanPcs, HasGood
<1>5. CASE FindNoBook(s) \/ Stat(s) \/ ReadSources(s) \/ CheckGone(s)
  BY <1>2, <1>4, <1>5 DEF FindNoBook, Stat, ReadSources, CheckGone
<1>6. CASE Insert(s) \/ InsertLoses(s) \/ Look(s) \/ ForgetCover(s) \/ UpdateCoverPath(s) \/ GiveUp(s)
  BY <1>2, <1>3, <1>6 DEF Insert, InsertLoses, Look, ForgetCover, UpdateCoverPath, GiveUp
<1>7. CASE Extract(s)
  <2>1. PICK r \in EmbeddedStates :
          /\ Parsed(r)
          /\ scan' = [scan EXCEPT ![s] = [Idle EXCEPT !.pc = IF r = "good" THEN "storeNew" ELSE "insert"]]
    BY <1>7 DEF Extract
  <2>2. CASE r = "good"  BY <2>1, <2>2 DEF Parsed
  <2>3. CASE r # "good"
    <3>1. scan'[s] = [Idle EXCEPT !.pc = "insert"]  BY <2>1, <2>3 DEF TypeOK
    <3> QED  BY <3>1 DEF HasGood, Idle
  <2> QED  BY <2>2, <2>3
<1>8. CASE StoreNew(s) \/ StoreImage(s)
  BY <1>8 DEF OnlyGoodStored, HasGood, StoreNew, StoreImage, At
<1>9. CASE Reparse(s)
  <2>1. PICK r \in EmbeddedStates : Parsed(r) /\ Goto(s, AfterParse(r))  BY <1>9 DEF Reparse
  <2>2. r = "good"  BY <1>4, <2>1 DEF AfterParse, EmbeddedStates
  <2> QED  BY <2>1, <2>2 DEF Parsed
<1> QED  BY <1>5, <1>6, <1>7, <1>8, <1>9 DEF Scan

LEMMA ForgettingAfter ==
  ASSUME TypeOK, NewRowWhole, OnlyProvidersForgotten, NEW s \in Scanners, Scan(s),
         Holds(s)', scan'[s].pc \in {"gone", "forget"}, embedded = "good"
  PROVE  book.source = "provider"
<1>0. scan[s] \in Scans  BY DEF TypeOK
<1>1. ~Leave(s) /\ ~LeaveHavingWritten(s)
  <2>1. ASSUME Leave(s) PROVE FALSE  BY <2>1, Leaving, ScanRecords DEF TypeOK
  <2>2. ASSUME LeaveHavingWritten(s) PROVE FALSE  BY <2>2, Overtaking, ScanRecords DEF TypeOK
  <2> QED  BY <2>1, <2>2
<1>2. ~Observe(s)
  <2>1. ASSUME Observe(s) PROVE FALSE
    <3>1. scan'[s] = Idle \/ scan'[s].pc \in {"stat", "parse"}  BY <2>1, Observing DEF TypeOK
    <3> QED  BY <3>1, ScanRecords
  <2> QED  BY <2>1
<1>3. ASSUME NEW pc \in {"parse", "sources", "store", "update", "extract"}, Goto(s, pc) PROVE FALSE
  BY <1>3, Going DEF TypeOK, ScanPcs
<1>4. CASE FindNoBook(s) \/ Stat(s) \/ StoreImage(s)
  BY <1>1, <1>3, <1>4 DEF FindNoBook, Stat, StoreImage
<1>5. CASE Insert(s) \/ InsertLoses(s) \/ Look(s) \/ ForgetCover(s) \/ UpdateCoverPath(s) \/ GiveUp(s)
  BY <1>1, <1>2, <1>5 DEF Insert, InsertLoses, Look, ForgetCover, UpdateCoverPath, GiveUp
<1>6. CASE ReadSources(s)  BY <1>1, <1>6 DEF ReadSources
<1>7. CASE CheckGone(s)
  <2>1. Goto(s, "forget") /\ scan[s].pc = "gone"  BY <1>1, <1>7 DEF CheckGone, At
  <2>2. Holds(s)  BY <2>1, Going DEF TypeOK, Holds, ScanPcs
  <2> QED  BY <2>1, <2>2 DEF OnlyProvidersForgotten
<1>8. CASE Reparse(s)
  <2>1. PICK r \in EmbeddedStates : Parsed(r) /\ Goto(s, AfterParse(r))  BY <1>8 DEF Reparse
  <2>2. r = "unusable"  BY <1>3, <2>1 DEF AfterParse, EmbeddedStates
  <2> QED  BY <2>1, <2>2 DEF Parsed
<1>9. CASE Extract(s) \/ StoreNew(s)
  <2>1. scan'[s].pc \in {"storeNew", "insert"}
    <3>1. CASE Extract(s)  BY <3>1 DEF Extract, TypeOK, Idle
    <3>2. CASE StoreNew(s)
      <4>1. \/ scan'[s] = [scan[s] EXCEPT !.pc = "insert", !.path = CoverPath]
            \/ scan'[s] = [scan[s] EXCEPT !.pc = "insert", !.retry = TRUE]
        BY <3>2 DEF StoreNew, TypeOK
      <4> QED  BY <1>0, <4>1 DEF Scans
    <3> QED  BY <1>9, <3>1, <3>2
  <2> QED  BY <2>1
<1> QED  BY <1>4, <1>5, <1>6, <1>7, <1>8, <1>9 DEF Scan
LEMMA StoredStep == ImageInv /\ [Next]_vars => OnlyGoodStored'
<1> SUFFICES ASSUME ImageInv, [Next]_vars PROVE OnlyGoodStored'  OBVIOUS
<1>0. TypeOK /\ NewRowWhole /\ OnlyGoodStored  BY DEF ImageInv, Inv, RowInv
<1>e. embedded' = embedded
  BY DEF Next, Scan, FindNoBook, Extract, StoreNew, Insert, InsertLoses, Look, Stat, Reparse,
         ReadSources, CheckGone, ForgetCover, StoreImage, UpdateCoverPath, GiveUp, Work, WorkerLook,
         WorkerStore, WorkerLosesCover, WorkerApply, WorkerApplyFails, LoseImage, Restart, vars
<1>1. ASSUME NEW s \in Scanners, Scan(s) PROVE OnlyGoodStored'
  <2>1. image' = "embedded" => embedded = "good"
    <3>1. image' = image \/ scan[s].pc \in {"storeNew", "store"}
      BY <1>1 DEF Scan, FindNoBook, Extract, StoreNew, Insert, InsertLoses, Look, Stat, Reparse,
                  ReadSources, CheckGone, ForgetCover, StoreImage, UpdateCoverPath, GiveUp, At
    <3> QED  BY <1>0, <3>1 DEF OnlyGoodStored, HasGood
  <2>2. ASSUME NEW t \in Scanners, HasGood(scan'[t]) PROVE embedded = "good"
    <3>1. CASE t = s  BY <1>0, <1>1, <2>2, <3>1, GoodAfter
    <3>2. CASE t # s
      <4>1. scan'[t].pc = scan[t].pc /\ (scan[t].pc # "idle" => scan'[t].path = scan[t].path)
        BY <1>0, <1>1, <3>2, OthersKeepPlace
      <4>2. HasGood(scan[t])  BY <2>2, <4>1 DEF HasGood
      <4> QED  BY <1>0, <4>2 DEF OnlyGoodStored
    <3> QED  BY <3>1, <3>2
  <2> QED  BY <1>e, <2>1, <2>2 DEF OnlyGoodStored
<1>2. CASE Work \/ LoseImage \/ UNCHANGED vars
  <2>1. scan' = scan /\ image' \in {image, "provider", "absent", "empty"}
    BY <1>2 DEF Work, WorkerLook, WorkerStore, WorkerLosesCover, WorkerApply, WorkerApplyFails,
                LoseImage, vars
  <2> QED  BY <1>0, <1>e, <2>1 DEF OnlyGoodStored
<1>3. CASE Restart
  <2>1. image' = image /\ \A t \in Scanners : scan'[t] = Idle  BY <1>3 DEF Restart
  <2>2. ~HasGood(Idle)  BY ScanRecords DEF HasGood
  <2> QED  BY <1>0, <1>e, <2>1, <2>2 DEF OnlyGoodStored
<1> QED  BY <1>1, <1>2, <1>3 DEF Next

LEMMA ForgottenStep == ImageInv /\ [Next]_vars => OnlyProvidersForgotten'
<1> SUFFICES ASSUME ImageInv, [Next]_vars,
                    NEW t \in Scanners, Holds(t)', scan'[t].pc \in {"gone", "forget"},
                    embedded' = "good"
             PROVE  book'.source = "provider"
  BY DEF OnlyProvidersForgotten
<1>0. TypeOK /\ NewRowWhole /\ HeldPathStands /\ OnlyProvidersForgotten
  BY DEF ImageInv, Inv, RowInv
<1>e. embedded = "good"
  BY DEF Next, Scan, FindNoBook, Extract, StoreNew, Insert, InsertLoses, Look, Stat, Reparse,
         ReadSources, CheckGone, ForgetCover, StoreImage, UpdateCoverPath, GiveUp, Work, WorkerLook,
         WorkerStore, WorkerLosesCover, WorkerApply, WorkerApplyFails, LoseImage, Restart, vars
<1>1. ASSUME NEW s \in Scanners, Scan(s) PROVE book'.source = "provider"
  <2>1. CASE t = s
    <3>1. book' = book  BY <1>0, <1>1, <2>1, HoldingAfter
    <3> QED  BY <1>0, <1>1, <1>e, <2>1, <3>1, ForgettingAfter
  <2>2. CASE t # s
    <3>1. scan'[t] # Idle  BY ScanRecords DEF Holds
    <3>2. scan[t] \in Scans  BY <1>0 DEF TypeOK
    <3>3. scan'[t] # [scan[t] EXCEPT !.overtaken = TRUE]  BY <3>2 DEF Holds, Scans
    <3>4. scan'[t] = scan[t]  BY <1>0, <1>1, <2>2, <3>1, <3>3, OthersStay
    <3>5. ~LeaveHavingWritten(s)  BY <1>0, <3>1, <3>3, Overtaking DEF TypeOK
    <3>6. book' = book  BY <1>0, <1>1, <3>5, RowChanges
    <3>7. Holds(t)  BY <3>4 DEF Holds
    <3> QED  BY <1>0, <1>e, <3>4, <3>6, <3>7 DEF OnlyProvidersForgotten
  <2> QED  BY <2>1, <2>2
<1>2. CASE Work \/ LoseImage \/ UNCHANGED vars
  <2>1. scan' = scan
    BY <1>2 DEF Work, WorkerLook, WorkerStore, WorkerLosesCover, WorkerApply, WorkerApplyFails,
                LoseImage, vars
  <2>2. Holds(t) /\ book.source = "provider" /\ book.path = CoverPath
    BY <1>0, <1>e, <2>1 DEF Holds, OnlyProvidersForgotten, HeldPathStands
  <2>3. book' = book  BY <1>0, <1>2, <2>2, WorkerRow DEF CoverPath
  <2> QED  BY <2>2, <2>3
<1>3. CASE Restart  BY <1>3, ScanRecords DEF Restart
<1> QED  BY <1>1, <1>2, <1>3 DEF Next
LEMMA AnsweredStep == ImageInv /\ [Next]_vars => ImageAnswered'
<1> SUFFICES ASSUME ImageInv, [Next]_vars,
                    image' = "embedded", ~torn', \A t \in Scanners : ~Owes(t)'
             PROVE  book'.source # "provider" /\ (worker' = "apply" => book'.path # "")
  BY DEF ImageAnswered
<1>0. /\ TypeOK /\ NewRowWhole /\ CoverRowWhole /\ WorkerHasBook /\ OnlyGoodStored
      /\ OnlyProvidersForgotten /\ ImageAnswered /\ book \in BookRows
  BY DEF ImageInv, Inv, RowInv, TypeOK
<1>1. ASSUME NEW s \in Scanners, Scan(s)
      PROVE  book'.source # "provider" /\ (worker' = "apply" => book'.path # "")
  <2>1. ASSUME NEW t \in Scanners, t # s PROVE ~Owes(t)
    <3>1. scan'[t].pc = scan[t].pc /\ (scan[t].pc # "idle" => scan'[t].path = scan[t].path)
      BY <1>0, <1>1, <2>1, OthersKeepPlace
    <3> QED  BY <3>1 DEF Owes, At
  <2>2. ASSUME image' = image, ~torn, book' = book, worker' = worker, ~Owes(s)
        PROVE  book'.source # "provider" /\ (worker' = "apply" => book'.path # "")
    BY <1>0, <2>1, <2>2 DEF ImageAnswered
  <2>3. CASE FindNoBook(s) \/ Extract(s) \/ Look(s) \/ Stat(s) \/ Reparse(s) \/ ReadSources(s) \/ CheckGone(s)
    <3>1. image' = image /\ torn' = torn /\ book' = book /\ worker' = worker /\ ~Owes(s)
      BY <2>3 DEF FindNoBook, Extract, Look, Stat, Reparse, ReadSources, CheckGone, Owes, At
    <3> QED  BY <2>2, <3>1
  <2>4. CASE StoreNew(s)
    <3>1. scan[s] \in Scans /\ At(s, "storeNew")  BY <1>0, <2>4 DEF TypeOK, StoreNew
    <3>2. CASE scan' = [scan EXCEPT ![s].pc = "insert", ![s].path = CoverPath]
      <4>1. scan'[s] = [scan[s] EXCEPT !.pc = "insert", !.path = CoverPath]
        BY <1>0, <3>2 DEF TypeOK
      <4>2. scan'[s].pc = "insert" /\ scan'[s].path = CoverPath  BY <3>1, <4>1 DEF Scans
      <4> QED  BY <4>2 DEF Owes, At, CoverPath
    <3>3. CASE UNCHANGED image
      <4>1. ~Owes(s)  BY <3>1 DEF Owes, At
      <4> QED  BY <2>2, <2>4, <3>3, <4>1 DEF StoreNew
    <3> QED  BY <2>4, <3>2, <3>3 DEF StoreNew
  <2>5. CASE StoreImage(s)
    <3>1. scan'[s].pc = "update"  BY <1>0, <2>5, Going DEF StoreImage, TypeOK, ScanPcs
    <3> QED  BY <3>1 DEF Owes, At
  <2>6. CASE UpdateCoverPath(s)  BY <1>0, <2>6, BookChanges DEF UpdateCoverPath, CoverPath
  <2>7. CASE Insert(s)
    <3>1. book'.source = "none" /\ book'.path = scan[s].path /\ worker' = worker /\ ~book.exists
      BY <2>7 DEF Insert
    <3> QED  BY <1>0, <3>1 DEF WorkerHasBook
  <2>8. CASE InsertLoses(s)
    <3>1. ~torn /\ scan[s].path = "" /\ At(s, "insert")  BY <2>8 DEF InsertLoses
    <3>2. ~Owes(s)  BY <3>1 DEF Owes, At
    <3> QED  BY <2>2, <2>8, <3>1, <3>2 DEF InsertLoses
  <2>9. CASE GiveUp(s)
    <3>1. ~torn /\ ~Owes(s)  BY <2>9 DEF GiveUp, Owes
    <3> QED  BY <2>2, <2>9, <3>1 DEF GiveUp
  <2>10. CASE ForgetCover(s)
    <3>1. At(s, "forget") /\ image' = image /\ worker' = worker /\ ~torn /\ ~Owes(s)
      BY <2>10 DEF ForgetCover, Owes, At
    <3>2. CASE ForgetRefused(s)  BY <2>2, <2>10, <3>1, <3>2 DEF ForgetCover
    <3>3. CASE ~ForgetRefused(s)
      <4>1. ~scan[s].overtaken /\ book.path = scan[s].path
        BY <2>10, <3>3 DEF ForgetCover, ForgetRefused
      <4>2. book.source # "provider" /\ (worker = "apply" => book.path # "")
        BY <1>0, <2>1, <3>1 DEF ImageAnswered
      <4>3. book'.source = "none"  BY <1>0, <2>10, <3>3 DEF ForgetCover, BookRows
      <4>4. book.path = ""
        <5>1. SUFFICES ASSUME book.path = CoverPath PROVE FALSE  BY <1>0 DEF BookRows, Paths
        <5>2. Holds(s)  BY <3>1, <4>1, <5>1 DEF Holds, At
        <5>3. embedded = "good"  BY <1>0, <3>1 DEF OnlyGoodStored
        <5> QED  BY <1>0, <3>1, <4>2, <5>2, <5>3 DEF OnlyProvidersForgotten, At
      <4> QED  BY <3>1, <4>2, <4>3, <4>4
    <3> QED  BY <3>2, <3>3
  <2> QED  BY <1>1, <2>3, <2>4, <2>5, <2>6, <2>7, <2>8, <2>9, <2>10 DEF Scan
<1>2. CASE Work \/ LoseImage \/ UNCHANGED vars
  <2>1. scan' = scan
    BY <1>2 DEF Work, WorkerLook, WorkerStore, WorkerLosesCover, WorkerApply, WorkerApplyFails,
                LoseImage, vars
  <2>2. image' = image /\ torn' = torn /\ ~WorkerStore
    BY <1>2 DEF Work, WorkerLook, WorkerStore, WorkerLosesCover, WorkerApply, WorkerApplyFails,
                LoseImage, vars
  <2>3. book.source # "provider" /\ (worker = "apply" => book.path # "")
    BY <1>0, <2>1, <2>2 DEF ImageAnswered, Owes, At
  <2>4. book' = book /\ worker' \in {worker, "idle", "fetch"}
    BY <1>2, <2>2, <2>3 DEF Work, WorkerLook, WorkerLosesCover, WorkerApply, WorkerApplyFails,
                            StillMissing, LoseImage, vars
  <2> QED  BY <2>3, <2>4
<1>3. CASE Restart
  <2>1. image' = image /\ ~torn /\ book' = book /\ worker' = "idle"  BY <1>3 DEF Restart
  <2>2. \A t \in Scanners : ~Owes(t)  BY <1>3 DEF Restart, Owes
  <2> QED  BY <1>0, <2>1, <2>2 DEF ImageAnswered
<1> QED  BY <1>1, <1>2, <1>3 DEF Next

\* A provider is named for a provider's image: with an embedded image in
\* place, some scanner still owes the row, failed to write it, or blanked a
\* row written after it looked.  For any number of scanners.
THEOREM SourceIsTrue == Spec => []ProviderRowIsProviders
<1>1. Init => ImageInv
  <2> SUFFICES ASSUME Init PROVE ImageInv  OBVIOUS
  <2>1. image = "absent" /\ \A t \in Scanners : scan[t] = Idle  BY DEF Init
  <2>2. \A t \in Scanners : ~Holds(t) /\ ~HasGood(scan[t])  BY <2>1, ScanRecords DEF Holds, HasGood
  <2>3. Inv  BY <2>2, InitRow DEF Inv, HeldPathStands, HeldCoverIsGone
  <2> QED  BY <2>1, <2>2, <2>3 DEF ImageInv, OnlyGoodStored, OnlyProvidersForgotten, ImageAnswered
<1>2. ImageInv /\ [Next]_vars => ImageInv'
  <2>1. ImageInv => Inv  BY DEF ImageInv
  <2>2. ImageInv /\ [Next]_vars => Inv'  BY <2>1, HeldStep
  <2> QED  BY <2>2, StoredStep, ForgottenStep, AnsweredStep DEF ImageInv
<1>3. ImageInv => ProviderRowIsProviders
  BY DEF ImageInv, ImageAnswered, ProviderRowIsProviders, Owes
<1> QED  BY <1>1, <1>2, <1>3, PTL DEF Spec
=============================================================================
