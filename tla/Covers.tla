------------------------------- MODULE Covers -------------------------------
(***************************************************************************)
(* The cover of one book: its columns in the index, its image in           *)
(* COVERS_DIR, and the three hands that write them without a common lock.  *)
(*                                                                         *)
(*   scanFile (internal/scanner) is run by the sweep and by the importer's *)
(*   IndexFile.  It stores the cover the file has embedded when it creates *)
(*   the book, and rebuilds or forgets it when the stored image is gone.   *)
(*   The enrichment worker (internal/enrich) stores a provider's image for *)
(*   a book that has none.  Anyone may lose files in COVERS_DIR.           *)
(*                                                                         *)
(* Both name the image by the book's content hash, so the path of a cover  *)
(* stored again is the path of the one that was lost.  Writing the image   *)
(* (cover.Store, a rename) and writing the row are separate steps.         *)
(***************************************************************************)
EXTENDS Naturals

CONSTANTS
  Scanners,      \* the goroutines that may be in scanFile for this book's file
  MaxLosses,     \* bound: images lost or emptied
  MaxFaults,     \* bound: failed reads, writes and stats
  MaxStops       \* bound: ends of the process

ASSUME BoundsAreNaturals == MaxLosses \in Nat /\ MaxFaults \in Nat /\ MaxStops \in Nat

VARIABLES
  embedded,      \* what the file holds: no cover, one Store takes, one it refuses
  book,          \* the row of books, with its cover row of field_sources
  image,         \* the file at the cover's path
  scan,          \* per scanner: where scanFile is and the row it read
  worker,        \* where the enrichment worker is
  losses, faults, stops,
  torn           \* history: a scanner wrote the image and then no row, or
                 \* blanked the row another had written since it read it

vars == <<embedded, book, image, scan, worker, losses, faults, stops, torn>>

CoverPath == "covers/hash.jpg"
Paths == {"", CoverPath}
EmbeddedStates == {"none", "good", "unusable"}
ImageStates == {"absent", "empty", "embedded", "provider"}
BookRows == [exists : BOOLEAN, path : Paths, retry : BOOLEAN, source : {"none", "provider"}]
NoBook == [exists |-> FALSE, path |-> "", retry |-> FALSE, source |-> "none"]
ScanPcs == {"idle", "extract", "storeNew", "insert", "stat", "parse", "sources",
            "gone", "forget", "store", "update"}
Scans == [pc : ScanPcs, path : Paths, retry : BOOLEAN, overtaken : BOOLEAN]
Idle == [pc |-> "idle", path |-> "", retry |-> FALSE, overtaken |-> FALSE]

Usable == image \in {"embedded", "provider"}

\* A fault happens where one can still happen.
Fault == faults < MaxFaults /\ faults' = faults + 1

-----------------------------------------------------------------------------
\* A new index, or one an older release left: a marker from the days when a
\* refused image was retried like a failed write.
Init ==
  /\ embedded \in EmbeddedStates
  /\ book \in {NoBook} \cup
       IF embedded = "none" THEN {} ELSE {[NoBook EXCEPT !.exists = TRUE, !.retry = TRUE]}
  /\ image = "absent"
  /\ scan = [s \in Scanners |-> Idle]
  /\ worker = "idle"
  /\ losses = 0 /\ faults = 0 /\ stops = 0
  /\ torn = FALSE

At(s, pc) == scan[s].pc = pc
Goto(s, pc) == scan' = [scan EXCEPT ![s].pc = pc]
Leave(s) == scan' = [scan EXCEPT ![s] = Idle]
\* The scanner's row write, seen by the scanners under way.
LeaveHavingWritten(s) ==
  scan' = [t \in Scanners |->
             IF t = s \/ scan[t].pc = "idle" THEN Idle
             ELSE [scan[t] EXCEPT !.overtaken = TRUE]]

\* maybeRegenerateCover's first two conditions, over the row as read.
NothingToDo(b) == b.path = "" /\ ~b.retry
Observe(s) ==
  IF NothingToDo(book) THEN Leave(s)
  ELSE scan' = [scan EXCEPT ![s] =
                  [pc |-> IF book.retry THEN "parse" ELSE "stat",
                   path |-> book.path, retry |-> book.retry, overtaken |-> FALSE]]

-----------------------------------------------------------------------------
(***************************************************************************)
(* createBook: extract, store, insert.                                     *)
(***************************************************************************)
FindNoBook(s) ==
  /\ At(s, "idle") /\ ~book.exists
  /\ Goto(s, "extract")
  /\ UNCHANGED <<embedded, book, image, worker, losses, faults, stops, torn>>

\* What a parse reports: the embedded cover, or none where reading it failed
\* (epub.readCover and fb2.readCoverBinary answer no cover for a bad entry).
Parsed(r) ==
  \/ r = embedded /\ UNCHANGED faults
  \/ r = "none" /\ embedded # "none" /\ Fault

\* A file that cannot be parsed, a cover that is not there and one that Store
\* refuses all give a book without cover or marker.
Extract(s) ==
  /\ At(s, "extract")
  /\ \E r \in EmbeddedStates :
       /\ Parsed(r)
       /\ scan' = [scan EXCEPT ![s] = [Idle EXCEPT !.pc =
                     IF r = "good" THEN "storeNew" ELSE "insert"]]
  /\ UNCHANGED <<embedded, book, image, worker, losses, stops, torn>>

\* cover.Store on a new book's image; a write that fails leaves the marker.
StoreNew(s) ==
  /\ At(s, "storeNew")
  /\ \/ /\ image' = "embedded"
        /\ scan' = [scan EXCEPT ![s].pc = "insert", ![s].path = CoverPath]
        /\ UNCHANGED faults
     \/ /\ Fault
        /\ scan' = [scan EXCEPT ![s].pc = "insert", ![s].retry = TRUE]
        /\ UNCHANGED image
  /\ UNCHANGED <<embedded, book, worker, losses, stops, torn>>

Insert(s) ==
  /\ At(s, "insert") /\ ~book.exists
  /\ book' = [exists |-> TRUE, path |-> scan[s].path, retry |-> scan[s].retry,
              source |-> "none"]
  /\ LeaveHavingWritten(s)
  /\ UNCHANGED <<embedded, image, worker, losses, faults, stops, torn>>

\* content_hash is unique: the loser reads the winner's book and carries on
\* with it as with any known content.
InsertLoses(s) ==
  /\ At(s, "insert") /\ book.exists
  /\ Observe(s)
  /\ torn' = (torn \/ scan[s].path # "")
  /\ UNCHANGED <<embedded, book, image, worker, losses, faults, stops>>

-----------------------------------------------------------------------------
(***************************************************************************)
(* maybeRegenerateCover, from the row scanFile read.                       *)
(***************************************************************************)
Look(s) ==
  /\ At(s, "idle") /\ book.exists /\ ~NothingToDo(book)
  /\ Observe(s)
  /\ UNCHANGED <<embedded, book, image, worker, losses, faults, stops, torn>>

Stat(s) ==
  /\ At(s, "stat")
  /\ IF Usable THEN Leave(s) ELSE Goto(s, "parse")
  /\ UNCHANGED <<embedded, book, image, worker, losses, faults, stops, torn>>

\* Mutant: a refused image leaves the marker, as a failed write does.
RefusalLeft(r) ==
  CASE r = "none" -> "sources" [] r = "good" -> "store" [] r = "unusable" -> "idle"
\* What the embedded cover found, or Store's refusal of it, leads to.
AfterParse(r) ==
  CASE r = "none" -> "sources" [] r = "good" -> "store" [] r = "unusable" -> "gone"

\* readEmbeddedCover, and the part of cover.Store that looks at the bytes.
Reparse(s) ==
  /\ At(s, "parse")
  /\ \E r \in EmbeddedStates : Parsed(r) /\ Goto(s, AfterParse(r))
  /\ UNCHANGED <<embedded, book, image, worker, losses, stops, torn>>

\* forgetUnregenerableCover: only a provider's cover is ever forgotten.
ReadSources(s) ==
  /\ At(s, "sources")
  /\ IF book.source = "provider" THEN Goto(s, "gone") ELSE Leave(s)
  /\ UNCHANGED <<embedded, book, image, worker, losses, faults, stops, torn>>

\* coverFileDefinitelyGone, of the path that was read.
CheckGone(s) ==
  /\ At(s, "gone")
  /\ IF scan[s].path = "" \/ ~Usable THEN Goto(s, "forget") ELSE Leave(s)
  /\ UNCHANGED <<embedded, book, image, worker, losses, faults, stops, torn>>

\* Mutant: the blank is guarded on the book alone.
UnguardedForget(s) == ~book.exists
\* forgetCoverTx, under ClearProviderCover and RecordUnusableCover.
ForgetRefused(s) == book.path # scan[s].path
ForgetCover(s) ==
  /\ At(s, "forget")
  /\ IF ForgetRefused(s)
     THEN Leave(s) /\ UNCHANGED book
     ELSE /\ book' = [book EXCEPT !.path = "", !.retry = FALSE, !.source = "none"]
          /\ LeaveHavingWritten(s)
  /\ torn' = (torn \/ (~ForgetRefused(s) /\ scan[s].overtaken))
  /\ UNCHANGED <<embedded, image, worker, losses, faults, stops>>

StoreImage(s) ==
  /\ At(s, "store")
  /\ image' = "embedded"
  /\ Goto(s, "update")
  /\ UNCHANGED <<embedded, book, worker, losses, faults, stops, torn>>

\* Mutant: the path and the marker are written, the cover row is left.
PathAlone(b) == [b EXCEPT !.path = CoverPath, !.retry = FALSE]
\* UpdateBookCoverPath: path, marker and cover row in one transaction.
RegeneratedRow(b) == [b EXCEPT !.path = CoverPath, !.retry = FALSE, !.source = "none"]
UpdateCoverPath(s) ==
  /\ At(s, "update")
  /\ book' = RegeneratedRow(book)
  /\ LeaveHavingWritten(s)
  /\ torn' = FALSE
  /\ UNCHANGED <<embedded, image, worker, losses, faults, stops>>

\* Any read, stat or write on the way may fail; every failure leaves the
\* book for the next sweep.
GiveUp(s) ==
  /\ scan[s].pc \notin {"idle", "extract", "storeNew"}
  /\ Fault
  /\ Leave(s)
  /\ torn' = (torn \/ At(s, "update") \/ (At(s, "insert") /\ scan[s].path # ""))
  /\ UNCHANGED <<embedded, book, image, worker, losses, stops>>

-----------------------------------------------------------------------------
(***************************************************************************)
(* The enrichment worker, for the one field this module is about.          *)
(***************************************************************************)
\* isMissing, over the snapshot process takes; nobody types a cover.
WorkerLook ==
  /\ worker = "idle" /\ book.exists /\ book.path = ""
  /\ worker' = "fetch"
  /\ UNCHANGED <<embedded, book, image, scan, losses, faults, stops, torn>>

\* storeCover: the provider has an image, it comes down and is stored.
WorkerStore ==
  /\ worker = "fetch"
  /\ worker' = "apply"
  /\ image' = "provider"
  /\ torn' = FALSE
  /\ UNCHANGED <<embedded, book, scan, losses, faults, stops>>

\* No image offered, a download cut short, bytes Store refuses.
WorkerLosesCover ==
  /\ worker = "fetch"
  /\ worker' = "idle"
  /\ UNCHANGED <<embedded, book, image, scan, losses, faults, stops, torn>>

\* Mutant: the marker is not cleared with the path.
MarkerKept(b) == [b EXCEPT !.path = CoverPath, !.source = "provider"]
\* updateBookColumnTx and setFieldSourceTx, for a provider's cover.
EnrichedRow(b) == [b EXCEPT !.path = CoverPath, !.retry = FALSE, !.source = "provider"]

\* ApplyEnrichedFields: only a field that is still missing is written.
StillMissing == book.path = ""
WorkerApply ==
  /\ worker = "apply"
  /\ worker' = "idle"
  /\ book' = IF StillMissing THEN EnrichedRow(book) ELSE book
  /\ UNCHANGED <<embedded, image, scan, losses, faults, stops, torn>>

WorkerApplyFails ==
  /\ worker = "apply"
  /\ Fault
  /\ worker' = "idle"
  /\ UNCHANGED <<embedded, book, image, scan, losses, stops, torn>>

-----------------------------------------------------------------------------
\* COVERS_DIR is disposable: its files may go, or be left empty.
LoseImage ==
  /\ Usable /\ losses < MaxLosses
  /\ losses' = losses + 1
  /\ image' \in {"absent", "empty"}
  /\ UNCHANGED <<embedded, book, scan, worker, faults, stops, torn>>

Restart ==
  /\ stops < MaxStops
  /\ stops' = stops + 1
  /\ scan' = [s \in Scanners |-> Idle]
  /\ worker' = "idle"
  /\ torn' = (torn \/ \E s \in Scanners : \/ At(s, "update")
                                          \/ At(s, "insert") /\ scan[s].path # "")
  /\ UNCHANGED <<embedded, book, image, losses, faults>>

Scan(s) ==
  \/ FindNoBook(s) \/ Extract(s) \/ StoreNew(s) \/ Insert(s) \/ InsertLoses(s)
  \/ Look(s) \/ Stat(s) \/ Reparse(s) \/ ReadSources(s) \/ CheckGone(s)
  \/ ForgetCover(s) \/ StoreImage(s) \/ UpdateCoverPath(s) \/ GiveUp(s)

Work == WorkerLook \/ WorkerStore \/ WorkerLosesCover \/ WorkerApply \/ WorkerApplyFails

Next == (\E s \in Scanners : Scan(s)) \/ Work \/ LoseImage \/ Restart

Spec == Init /\ [][Next]_vars
=============================================================================
