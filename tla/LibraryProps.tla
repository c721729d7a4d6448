---------------------------- MODULE LibraryProps ----------------------------
(***************************************************************************)
(* What the index promises about the library directory, over Library.      *)
(***************************************************************************)
EXTENDS Library

\* Type invariant: every variable and table has its declared shape.
TypeOK ==
  /\ disk \in [Paths -> Contents \cup {NoFile}]
  /\ mtime \in [Paths -> Nat]
  /\ dirState \in [Dirs -> DirStates]
  /\ clock \in 0 .. MaxEvents
  /\ files \subseteq BookFiles
  /\ books \subseteq Books
  /\ nextFile \in Nat /\ nextBook \in Nat
  /\ scan \in [Actors -> Scans]
  /\ sweep \in Sweeps

-----------------------------------------------------------------------------
\* Safety of the tables.

\* Every book has at least one location, and every location has its book:
\* no interleaving of creations, reassignments, prunes and clicks leaves a
\* card with nothing behind it (pruneOrphanedBookTx and its callers).
NoOrphanBook ==
  /\ \A b \in books : FilesOf(files, b.id) # {}
  /\ \A f \in files : f.book \in BookIds(books)

\* The sweep and IndexFile may both find no book for one content and both
\* insert it; the index still ends with one book per content and one row per
\* path (scanner.go createBook's re-read, upsertBookFileTx).
OneOfEach ==
  /\ \A b1, b2 \in books : b1.hash = b2.hash \/ b1.id = b2.id => b1 = b2
  /\ \A f1, f2 \in files : f1.path = f2.path \/ f1.id = f2.id => f1 = f2

\* The catalog the two tables hold, without their ids: what is at a path, how
\* long the path has been missed, what there is a book of, and what is edited.
RowAt(fs, p) == CHOOSE f \in fs : f.path = p
ContentIn(fs, bs, p) ==
  IF \E f \in fs : f.path = p
  THEN LET f == RowAt(fs, p) IN (CHOOSE b \in bs : b.id = f.book).hash
  ELSE NoFile
MarkIn(fs, p) == IF \E f \in fs : f.path = p THEN RowAt(fs, p).mark ELSE "no"

ContentAt == [p \in Paths |-> ContentIn(files, books, p)]
MarkAt == [p \in Paths |-> MarkIn(files, p)]
BookContents == {b.hash : b \in books}
EditedContents == {b.hash : b \in {c \in books : c.edited}}

TheCatalog == INSTANCE Catalog WITH
  Nothing <- NoFile,
  at <- ContentAt, shelved <- BookContents, edited <- EditedContents, mark <- MarkAt

\* Rows, ids, foreign keys and the prunes of orphans, written by two scans, a
\* reconciliation that works on lists of ids read long before, and two
\* clicks, amount to a map from paths to contents: every write is one
\* change of the map, and a path leaves it only when it is marked missing.
KeepsCatalog == TheCatalog!Spec

\* A row the cheap check would skip as unchanged names the right book.
SkipsOnlyTrueRow(f) ==
  disk[f.path] # NoFile /\ f.stamp = mtime[f.path] =>
    \E b \in books : b.id = f.book /\ b.hash = disk[f.path]

\* Below the root, where only the sweep indexes, the cheap check never hides
\* a change: whatever was written between the stat, the hash and the write,
\* a row whose size and mtime match the file names the file's own content.
CheapCheckSound == \A f \in files : DirOf[f.path] # Root => SkipsOnlyTrueRow(f)

\* The same in the root, where IndexFile runs beside the sweep, and
\* UpdateBookFileStat's own words: "a book_files row whose content hash is
\* unchanged" (books.go).
CheapCheckSoundInRoot == \A f \in files : DirOf[f.path] = Root => SkipsOnlyTrueRow(f)

-----------------------------------------------------------------------------
\* Safety of the prune.

\* Between the Lstat that condemns a row and the DELETE by id, the importer
\* may take the row over, a person may forget it and a file may be indexed
\* again at its path: what the DELETE finds is still a row past its grace.
PruneListOverdue == \A f \in files : f.id \in sweep.prune => f.mark = "old"

\* Nothing on p's way to the root changed since the sweep began.
SteadyTo(p) == Ancestors(DirOf[p]) \subseteq sweep.steady

\* A volume that was away, a directory that could not be read, or a
\* directory behind a link, from the start of the sweep on, condemns no row
\* (reconcileMissing's skippedDirs, populated and linkedDirs).  A directory
\* that is empty beside a populated one is not protected: README.
VolumeLossPrunesNothing ==
  \A f \in files : f.id \in sweep.prune /\ SteadyTo(f.path) =>
    /\ dirState[Root] = "ok"
    /\ dirState[TopOf[DirOf[f.path]]] = "ok"
    /\ dirState[DirOf[f.path]] \in {"ok", "offline"}

\* PruneMissingFiles' contract (books.go): "rows the caller independently
\* confirmed, this exact sweep, via a current os.Lstat returning
\* fs.ErrNotExist".  Stated of the step that puts a row on the list.
PruneListConfirmedAbsent ==
  [][\A f \in sweep.unseen : f.id \in sweep'.prune \ sweep.prune =>
       Probe(f.path) = "absent"]_vars

-----------------------------------------------------------------------------
\* Safety of what a person typed in.

\* The step by which actor a's scan of a file, then at one of pcs, ends.
ScanEnds(a, pcs) == scan[a].pc \in pcs /\ scan'[a] = Idle

\* A hand-edited book whose only file was rewritten to content found in no
\* book is succeeded by a hand-edited one.
SucceededOn(pcs) ==
  \A a \in Actors, b \in books :
    /\ ScanEnds(a, pcs)
    /\ b.edited /\ b.id \notin {c.id : c \in books'}
    => \E c \in books' : c.edited /\ c.id \notin BookIds(books)

\* A rewrite in place never costs a person's edits when the scan creates the
\* new book itself (CreateBookWithFile, inheritFromReplacedBookTx).
RewriteKeepsEdits == [][SucceededOn({"create"})]_vars

\* And also when it loses the race to create it: scanFile says of the book
\* orphaned there that it is "a different book that happened to lose its
\* last copy, not this one under new bytes".
RacedRewriteKeepsEdits == [][SucceededOn({"raced"})]_vars

-----------------------------------------------------------------------------
(***************************************************************************)
(* Liveness.  The sweep is periodic and its walk ends; IndexFile ends; the *)
(* grace period goes by.  People and the outside world owe nothing.        *)
(***************************************************************************)
Fairness ==
  /\ WF_vars(StartSweep \/ ReconcileMissing)
  /\ WF_vars(Walk)
  /\ WF_vars(ScanStat)
  /\ \A a \in Actors : WF_vars(ScanFile(a))
  /\ WF_vars(GracePasses)

FairSpec == Spec /\ Fairness

\* p is on the shelf: a file is there and the walk reaches it.
Shelved(p) ==
  disk[p] # NoFile /\ \A d \in Ancestors(DirOf[p]) : dirState[d] = "ok"

\* p's row is unmarked and names the content of the file.
Indexed(p) ==
  \E f \in FileAt(files, p) : f.mark = "no" /\
    \E b \in books : b.id = f.book /\ b.hash = disk[p]

\* A file below the root that stays on the shelf is indexed under its own
\* content in the end, and its location is not marked missing, whatever
\* races came before.
ShelfIsIndexed ==
  \A p \in {q \in Paths : DirOf[q] # Root} : <>[]Shelved(p) => <>[]Indexed(p)

\* A file that stays away while its top-level directory keeps another file
\* has its row pruned in the end.
AbsentIsPruned ==
  \A p, q \in Paths :
    <>[](/\ disk[p] = NoFile /\ dirState[DirOf[p]] = "ok" /\ Shelved(q)
         /\ TopOf[DirOf[p]] = TopOf[DirOf[q]])
    => <>[](FileAt(files, p) = {})
=============================================================================
