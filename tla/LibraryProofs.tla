--------------------------- MODULE LibraryProofs ----------------------------
(***************************************************************************)
(* Machine-checked proofs about Library, for every set of paths, contents  *)
(* and directories and every number of outside events.                     *)
(***************************************************************************)
EXTENDS LibraryProps, TLAPS

-----------------------------------------------------------------------------
(***************************************************************************)
(* What the statements of Tables do to a table, for every table: the       *)
(* lemmas the proofs below cite.                                           *)
(***************************************************************************)

\* The rows of a table are told apart by id and by path.
OneRow(fs) ==
  \A f1, f2 \in fs : f1.path = f2.path \/ f1.id = f2.id => f1 = f2

\* The index on content_hash and the key of books.
OneBook(bs) ==
  \A b1, b2 \in bs : b1.hash = b2.hash \/ b1.id = b2.id => b1 = b2

-----------------------------------------------------------------------------
\* upsertBookFileTx: the rows it leaves are those at other paths and one at p,
\* which is the old row with a new owner and stat, or a new row.
LEMMA UpsertRows ==
  ASSUME NEW fs \in SUBSET BookFiles, NEW i \in Nat, NEW b \in Nat,
         NEW p \in Paths, NEW s \in Nat,
         NEW f \in UpsertBookFile(fs, i, b, p, s)
  PROVE  /\ f \in BookFiles
         /\ \/ f.path # p /\ f \in fs
            \/ /\ f.path = p /\ f.book = b /\ f.stamp = s
               /\ \/ \E g \in fs : g.path = p /\ g.id = f.id /\ g.mark = f.mark
                  \/ FileAt(fs, p) = {} /\ f.id = i /\ f.mark = "no"
<1>1. CASE FileAt(fs, p) = {}
  <2>1. f \in fs \/ f = [id |-> i, path |-> p, book |-> b, stamp |-> s, mark |-> "no"]
    BY <1>1 DEF UpsertBookFile
  <2>2. CASE f \in fs
    BY <1>1, <2>2 DEF FileAt
  <2>3. CASE f = [id |-> i, path |-> p, book |-> b, stamp |-> s, mark |-> "no"]
    BY <1>1, <2>3 DEF BookFiles, Marks
  <2>4. QED
    BY <2>1, <2>2, <2>3
<1>2. CASE FileAt(fs, p) # {}
  <2>1. PICK g \in fs : f = IF g.path = p THEN [g EXCEPT !.book = b, !.stamp = s] ELSE g
    BY <1>2 DEF UpsertBookFile
  <2>2. g \in BookFiles
    OBVIOUS
  <2>3. QED
    BY <2>1, <2>2 DEF BookFiles
<1>3. QED
  BY <1>1, <1>2

\* A row of another owner than b was there before.
LEMMA UpsertOthers ==
  ASSUME NEW fs \in SUBSET BookFiles, NEW i \in Nat, NEW b \in Nat,
         NEW p \in Paths, NEW s \in Nat
  PROVE  \A f \in UpsertBookFile(fs, i, b, p, s) : f.book = b \/ f \in fs
<1>1. TAKE f \in UpsertBookFile(fs, i, b, p, s)
<1>2. QED
  BY UpsertRows

\* A row has the new id, or is at the path of a row with its id and mark.
LEMMA UpsertOrigin ==
  ASSUME NEW fs \in SUBSET BookFiles, NEW i \in Nat, NEW b \in Nat,
         NEW p \in Paths, NEW s \in Nat
  PROVE  \A g \in UpsertBookFile(fs, i, b, p, s) :
           g.id = i \/ \E f \in fs : f.id = g.id /\ f.path = g.path /\ f.mark = g.mark
<1>1. CASE FileAt(fs, p) = {}
  BY <1>1 DEF UpsertBookFile
<1>2. CASE FileAt(fs, p) # {}
  <2>1. TAKE g \in UpsertBookFile(fs, i, b, p, s)
  <2>2. PICK f \in fs : g = IF f.path = p THEN [f EXCEPT !.book = b, !.stamp = s] ELSE f
    BY <1>2 DEF UpsertBookFile
  <2>3. f \in BookFiles
    OBVIOUS
  <2>4. f.id = g.id /\ f.path = g.path /\ f.mark = g.mark
    BY <2>2, <2>3 DEF BookFiles
  <2>5. QED
    BY <2>4
<1>3. QED
  BY <1>1, <1>2

\* A row is one there was, at another path, or the one written at p.
LEMMA UpsertWrites ==
  ASSUME NEW fs \in SUBSET BookFiles, NEW i \in Nat, NEW b \in Nat,
         NEW p \in Paths, NEW s \in Nat
  PROVE  \A g \in UpsertBookFile(fs, i, b, p, s) :
           g \in fs \/ (g.path = p /\ g.book = b /\ g.stamp = s)
<1>1. CASE FileAt(fs, p) = {}
  BY <1>1 DEF UpsertBookFile
<1>2. CASE FileAt(fs, p) # {}
  <2>1. TAKE g \in UpsertBookFile(fs, i, b, p, s)
  <2>2. PICK f \in fs : g = IF f.path = p THEN [f EXCEPT !.book = b, !.stamp = s] ELSE f
    BY <1>2 DEF UpsertBookFile
  <2>3. f \in BookFiles
    OBVIOUS
  <2>4. QED
    BY <2>2, <2>3 DEF BookFiles
<1>3. QED
  BY <1>1, <1>2

\* An upsert at p keeps every row at another path.
LEMMA UpsertKeeps ==
  ASSUME NEW fs \in SUBSET BookFiles, NEW i \in Nat, NEW b \in Nat,
         NEW p \in Paths, NEW s \in Nat,
         NEW f \in fs, f.path # p
  PROVE  f \in UpsertBookFile(fs, i, b, p, s)
BY DEF UpsertBookFile

\* The row at p has the mark of the one that was there, or none.
Inherits(g, fs, p) ==
  \/ \E f \in fs : f.path = p /\ g.mark = f.mark
  \/ FileAt(fs, p) = {} /\ g.mark = "no"

LEMMA UpsertMarks ==
  ASSUME NEW fs \in SUBSET BookFiles, NEW i \in Nat, NEW b \in Nat,
         NEW p \in Paths, NEW s \in Nat
  PROVE  \A g \in UpsertBookFile(fs, i, b, p, s) :
           IF g.path = p THEN Inherits(g, fs, p) ELSE g \in fs
<1>1. TAKE g \in UpsertBookFile(fs, i, b, p, s)
<1>2. g \in fs \/ g.path = p
  BY UpsertWrites
<1>3. CASE FileAt(fs, p) = {}
  <2>1. g \in fs \/ (g.path = p /\ g.mark = "no")
    BY <1>3 DEF UpsertBookFile
  <2>2. g \in fs => g.path # p
    BY <1>3 DEF FileAt
  <2>3. QED
    BY <1>2, <1>3, <2>1, <2>2 DEF Inherits
<1>4. CASE FileAt(fs, p) # {}
  <2>1. PICK f \in fs : g = IF f.path = p THEN [f EXCEPT !.book = b, !.stamp = s] ELSE f
    BY <1>4 DEF UpsertBookFile
  <2>2. f.path = g.path /\ f.mark = g.mark
    BY <2>1 DEF BookFiles
  <2>3. QED
    BY <1>2, <2>2 DEF Inherits
<1>5. QED
  BY <1>3, <1>4

\* After an upsert the path has a row, of the given book.
LEMMA UpsertGives ==
  ASSUME NEW fs \in SUBSET BookFiles, NEW i \in Nat, NEW b \in Nat,
         NEW p \in Paths, NEW s \in Nat
  PROVE  \E f \in UpsertBookFile(fs, i, b, p, s) : f.path = p /\ f.book = b
<1>1. CASE FileAt(fs, p) = {}
  <2>1. [id |-> i, path |-> p, book |-> b, stamp |-> s, mark |-> "no"]
          \in UpsertBookFile(fs, i, b, p, s)
    BY <1>1 DEF UpsertBookFile
  <2>2. QED
    BY <2>1
<1>2. CASE FileAt(fs, p) # {}
  <2>1. PICK g \in fs : g.path = p
    BY <1>2 DEF FileAt
  <2>2. g \in BookFiles
    OBVIOUS
  <2>3. [g EXCEPT !.book = b, !.stamp = s] \in UpsertBookFile(fs, i, b, p, s)
    BY <1>2, <2>1 DEF UpsertBookFile
  <2>4. QED
    BY <2>1, <2>2, <2>3 DEF BookFiles
<1>3. QED
  BY <1>1, <1>2

\* An upsert with a fresh id keeps ids and paths unique.
LEMMA UpsertOneRow ==
  ASSUME NEW fs \in SUBSET BookFiles, NEW i \in Nat, NEW b \in Nat,
         NEW p \in Paths, NEW s \in Nat,
         OneRow(fs), \A f \in fs : f.id # i
  PROVE  OneRow(UpsertBookFile(fs, i, b, p, s))
<1> DEFINE new == [id |-> i, path |-> p, book |-> b, stamp |-> s, mark |-> "no"]
           upd(f) == IF f.path = p THEN [f EXCEPT !.book = b, !.stamp = s] ELSE f
<1>1. CASE FileAt(fs, p) = {}
  <2>1. UpsertBookFile(fs, i, b, p, s) = fs \cup {new}
    BY <1>1 DEF UpsertBookFile
  <2>2. \A f \in fs : f.path # p /\ f.id # i
    BY <1>1 DEF FileAt
  <2>3. new.path = p /\ new.id = i
    OBVIOUS
  <2> HIDE DEF new
  <2>4. QED
    BY <2>1, <2>2, <2>3 DEF OneRow
<1>2. CASE FileAt(fs, p) # {}
  <2>1. UpsertBookFile(fs, i, b, p, s) = {upd(f) : f \in fs}
    BY <1>2 DEF UpsertBookFile
  <2>2. \A f \in fs : upd(f).id = f.id /\ upd(f).path = f.path
    BY DEF BookFiles
  <2> HIDE DEF upd
  <2>3. QED
    BY <2>1, <2>2 DEF OneRow
<1>3. QED
  BY <1>1, <1>2

-----------------------------------------------------------------------------
\* A refresh, a mark or a clear rewrites rows one for one: each row left has
\* the id, path and owner of a row there was, and the other way round.
SameRow(g, f) == g.id = f.id /\ g.path = f.path /\ g.book = f.book

Rewrites(gs, fs) ==
  /\ gs \subseteq BookFiles
  /\ \A g \in gs : \E f \in fs : SameRow(g, f)
  /\ \A f \in fs : \E g \in gs : SameRow(g, f)
  /\ OneRow(fs) => OneRow(gs)

\* A map over the rows that keeps id, path and owner is such a rewrite.
LEMMA MapRewrites ==
  ASSUME NEW fs \in SUBSET BookFiles, NEW u,
         u \in [fs -> BookFiles], \A f \in fs : SameRow(u[f], f)
  PROVE  Rewrites({u[f] : f \in fs}, fs)
BY DEF Rewrites, SameRow, OneRow

\* UpdateBookFileStat rewrites; only the row of the id gets the new stat.
LEMMA StatRewrites ==
  ASSUME NEW fs \in SUBSET BookFiles, NEW i \in Nat, NEW s \in Nat
  PROVE  /\ Rewrites(UpdateBookFileStat(fs, i, s), fs)
         /\ \A g \in UpdateBookFileStat(fs, i, s) :
              \E f \in fs : /\ SameRow(g, f) /\ g.mark = f.mark
                            /\ IF f.id = i THEN g.stamp = s ELSE g.stamp = f.stamp
<1> DEFINE u == [f \in fs |-> IF f.id = i THEN [f EXCEPT !.stamp = s] ELSE f]
<1>1. \A f \in fs : /\ u[f] \in BookFiles /\ SameRow(u[f], f) /\ u[f].mark = f.mark
                    /\ IF f.id = i THEN u[f].stamp = s ELSE u[f].stamp = f.stamp
  BY DEF BookFiles, SameRow
<1>2. UpdateBookFileStat(fs, i, s) = {u[f] : f \in fs}
  BY DEF UpdateBookFileStat
<1>3. u \in [fs -> BookFiles]
  BY <1>1
<1> HIDE DEF u
<1>4. QED
  BY <1>1, <1>2, <1>3, MapRewrites

\* SetFilesMissing rewrites; only a row without a mark gets one.
LEMMA MarkRewrites ==
  ASSUME NEW fs \in SUBSET BookFiles, NEW is
  PROVE  /\ Rewrites(SetFilesMissing(fs, is), fs)
         /\ \A g \in SetFilesMissing(fs, is) :
              \E f \in fs : /\ SameRow(g, f) /\ g.stamp = f.stamp
                            /\ g.mark = f.mark \/ (f.mark = "no" /\ g.mark = "recent")
<1> DEFINE u == [f \in fs |-> IF f.id \in is /\ f.mark = "no"
                              THEN [f EXCEPT !.mark = "recent"] ELSE f]
<1>1. \A f \in fs : /\ u[f] \in BookFiles /\ SameRow(u[f], f) /\ u[f].stamp = f.stamp
                    /\ u[f].mark = f.mark \/ (f.mark = "no" /\ u[f].mark = "recent")
  BY DEF BookFiles, SameRow, Marks
<1>2. SetFilesMissing(fs, is) = {u[f] : f \in fs}
  BY DEF SetFilesMissing
<1>3. u \in [fs -> BookFiles]
  BY <1>1
<1> HIDE DEF u
<1>4. QED
  BY <1>1, <1>2, <1>3, MapRewrites

\* ClearFilesMissing rewrites; rows of other ids keep their mark.
LEMMA ClearRewrites ==
  ASSUME NEW fs \in SUBSET BookFiles, NEW is
  PROVE  /\ Rewrites(ClearFilesMissing(fs, is), fs)
         /\ \A g \in ClearFilesMissing(fs, is) :
              \E f \in fs : /\ SameRow(g, f) /\ g.stamp = f.stamp
                            /\ g.mark = f.mark \/ (f.id \in is /\ g.mark = "no")
<1> DEFINE u == [f \in fs |-> IF f.id \in is THEN [f EXCEPT !.mark = "no"] ELSE f]
<1>1. \A f \in fs : /\ u[f] \in BookFiles /\ SameRow(u[f], f) /\ u[f].stamp = f.stamp
                    /\ u[f].mark = f.mark \/ (f.id \in is /\ u[f].mark = "no")
  BY DEF BookFiles, SameRow, Marks
<1>2. ClearFilesMissing(fs, is) = {u[f] : f \in fs}
  BY DEF ClearFilesMissing
<1>3. u \in [fs -> BookFiles]
  BY <1>1
<1> HIDE DEF u
<1>4. QED
  BY <1>1, <1>2, <1>3, MapRewrites

-----------------------------------------------------------------------------
\* Every book has a location and every location its book.
Linked(fs, bs) ==
  /\ \A b \in bs : \E f \in fs : f.book = b.id
  /\ \A f \in fs : \E b \in bs : b.id = f.book

\* A rewrite keeps books and locations linked.
LEMMA RewriteLinked ==
  ASSUME NEW fs, NEW gs, NEW bs, Rewrites(gs, fs), Linked(fs, bs)
  PROVE  Linked(gs, bs)
BY DEF Rewrites, Linked, SameRow

\* PruneMissingFiles, ForgetMissingFile: deleting rows with their owners
\* pruned keeps them linked.
LEMMA DeleteLinked ==
  ASSUME NEW fs, NEW bs, NEW is, NEW owners, Linked(fs, bs),
         OwnersOf(fs, is) \subseteq owners
  PROVE  Linked(DeleteFiles(fs, is), PruneOrphans(bs, DeleteFiles(fs, is), owners))
<1> DEFINE gs == DeleteFiles(fs, is)
           cs == PruneOrphans(bs, gs, owners)
<1>1. ASSUME NEW b \in cs PROVE \E f \in gs : f.book = b.id
  <2>1. b \in bs /\ (b.id \in owners => FilesOf(gs, b.id) # {})
    BY DEF PruneOrphans
  <2>2. CASE b.id \in owners
    BY <2>1, <2>2 DEF FilesOf
  <2>3. CASE b.id \notin owners
    <3>1. PICK f \in fs : f.book = b.id
      BY <2>1 DEF Linked
    <3>2. f.id \notin is
      BY <2>3, <3>1 DEF OwnersOf
    <3>3. QED
      BY <3>1, <3>2 DEF DeleteFiles
  <2>4. QED
    BY <2>2, <2>3
<1>2. ASSUME NEW f \in gs PROVE \E b \in cs : b.id = f.book
  <2>1. PICK b \in bs : b.id = f.book
    BY DEF Linked, DeleteFiles
  <2>2. QED
    BY <2>1 DEF PruneOrphans, FilesOf
<1>3. QED
  BY <1>1, <1>2 DEF Linked

\* ReassignFileAndPruneOrphan: an upsert for a book in the table, with the
\* path's previous owner pruned if nothing is left of it, keeps them linked.
LEMMA ReassignLinked ==
  ASSUME NEW fs \in SUBSET BookFiles, NEW bs \in SUBSET Books, NEW i \in Nat,
         NEW b \in Nat, NEW p \in Paths, NEW s \in Nat,
         Linked(fs, bs), b \in BookIds(bs)
  PROVE  LET gs == UpsertBookFile(fs, i, b, p, s)
         IN  Linked(gs, BooksAfterReassign(bs, gs, PreviousOwner(fs, p), b))
<1> DEFINE gs == UpsertBookFile(fs, i, b, p, s)
           cs == BooksAfterReassign(bs, gs, PreviousOwner(fs, p), b)
<1>1. PICK g \in gs : g.path = p /\ g.book = b
  BY UpsertGives
<1>2. ASSUME NEW c \in cs PROVE \E f \in gs : f.book = c.id
  <2>1. c \in bs /\ (c.id \in PreviousOwner(fs, p) \ {b} => FilesOf(gs, c.id) # {})
    BY DEF BooksAfterReassign, PruneOrphans
  <2>2. PICK f \in fs : f.book = c.id
    BY <2>1 DEF Linked
  <2>3. CASE f.path = p
    BY <1>1, <2>1, <2>2, <2>3 DEF PreviousOwner, FileAt, FilesOf
  <2>4. CASE f.path # p
    BY <2>2, <2>4, UpsertKeeps
  <2>5. QED
    BY <2>3, <2>4
<1>3. ASSUME NEW f \in gs PROVE \E c \in cs : c.id = f.book
  <2>1. f.book = b \/ f \in fs
    BY UpsertOthers
  <2>2. PICK c \in bs : c.id = f.book
    BY <2>1 DEF Linked, BookIds
  <2>3. QED
    BY <2>2 DEF BooksAfterReassign, PruneOrphans, FilesOf
<1> HIDE DEF gs, cs
<1>4. Linked(gs, cs)
  BY <1>2, <1>3 DEF Linked
<1>5. QED
  BY <1>4 DEF gs, cs

\* CreateBookWithFile: the same for a new book.
LEMMA CreateLinked ==
  ASSUME NEW fs \in SUBSET BookFiles, NEW bs \in SUBSET Books, NEW i \in Nat,
         NEW b \in Nat, NEW p \in Paths, NEW s \in Nat, NEW h \in Contents,
         Linked(fs, bs), b \notin BookIds(bs)
  PROVE  LET gs == UpsertBookFile(fs, i, b, p, s)
         IN  Linked(gs, BooksAfterCreate(bs, gs, PreviousOwner(fs, p), b, h))
<1> DEFINE gs == UpsertBookFile(fs, i, b, p, s)
           gone == ReplacedBook(gs, PreviousOwner(fs, p), b)
           cs == BooksAfterCreate(bs, gs, PreviousOwner(fs, p), b, h)
<1>1. PICK g \in gs : g.path = p /\ g.book = b
  BY UpsertGives
<1>2. PICK e : cs = PruneOrphans(bs, gs, gone) \cup {[id |-> b, hash |-> h, edited |-> e]}
  BY DEF BooksAfterCreate
<1>3. ASSUME NEW c \in cs PROVE \E f \in gs : f.book = c.id
  <2>1. CASE c = [id |-> b, hash |-> h, edited |-> e]
    BY <1>1, <2>1
  <2>2. CASE c \in PruneOrphans(bs, gs, gone)
    <3>1. c \in bs /\ c.id # b
      BY <2>2 DEF PruneOrphans, BookIds
    <3>2. c.id \in PreviousOwner(fs, p) => FilesOf(gs, c.id) # {}
      BY <2>2, <3>1 DEF PruneOrphans, ReplacedBook
    <3>3. PICK f \in fs : f.book = c.id
      BY <3>1 DEF Linked
    <3>4. CASE f.path = p
      BY <3>2, <3>3, <3>4 DEF PreviousOwner, FileAt, FilesOf
    <3>5. CASE f.path # p
      BY <3>3, <3>5, UpsertKeeps
    <3>6. QED
      BY <3>4, <3>5
  <2>3. QED
    BY <1>2, <2>1, <2>2
<1>4. ASSUME NEW f \in gs PROVE \E c \in cs : c.id = f.book
  <2>1. CASE f.book = b
    <3>1. [id |-> b, hash |-> h, edited |-> e] \in cs
      BY <1>2
    <3>2. QED
      BY <2>1, <3>1
  <2>2. CASE f.book # b
    <3>1. f \in fs
      BY <2>2, UpsertOthers
    <3>2. PICK c \in bs : c.id = f.book
      BY <3>1 DEF Linked
    <3>3. c \in PruneOrphans(bs, gs, gone)
      BY <3>2 DEF PruneOrphans, FilesOf
    <3>4. QED
      BY <1>2, <3>2, <3>3
  <2>3. QED
    BY <2>1, <2>2
<1> HIDE DEF gs, cs
<1>5. Linked(gs, cs)
  BY <1>3, <1>4 DEF Linked
<1>6. QED
  BY <1>5 DEF gs, cs

-----------------------------------------------------------------------------
\* What the statements leave are tables again.
LEMMA UpsertType ==
  ASSUME NEW fs \in SUBSET BookFiles, NEW i \in Nat, NEW b \in Nat, NEW p \in Paths,
         NEW s \in Nat
  PROVE  UpsertBookFile(fs, i, b, p, s) \in SUBSET BookFiles
<1>1. \A f \in UpsertBookFile(fs, i, b, p, s) : f \in BookFiles
  <2>1. TAKE f \in UpsertBookFile(fs, i, b, p, s)
  <2>2. QED
    BY UpsertRows
<1>2. QED
  BY <1>1

LEMMA CreateType ==
  ASSUME NEW bs \in SUBSET Books, NEW fs, NEW is, NEW b \in Nat, NEW h \in Contents
  PROVE  BooksAfterCreate(bs, fs, is, b, h) \in SUBSET Books
<1> DEFINE gone == ReplacedBook(fs, is, b)
           e == \E c \in bs : c.id \in gone /\ c.edited
<1>1. BooksAfterCreate(bs, fs, is, b, h) =
        PruneOrphans(bs, fs, gone) \cup {[id |-> b, hash |-> h, edited |-> e]}
  BY DEF BooksAfterCreate
<1>2. e \in BOOLEAN
  OBVIOUS
<1> HIDE DEF e, gone
<1>3. [id |-> b, hash |-> h, edited |-> e] \in Books
  BY <1>2 DEF Books
<1>4. QED
  BY <1>1, <1>3 DEF PruneOrphans

-----------------------------------------------------------------------------
(***************************************************************************)
(* Type correctness.                                                       *)
(***************************************************************************)

\* What scan[a] holds at each place in scanFile.
LEMMA ScanFields ==
  ASSUME NEW s \in Scans
  PROVE  /\ s.pc \in {"idle", "stat", "hash", "touch", "create", "attach", "raced"}
         /\ s.pc = "idle" => s = Idle
         /\ s.pc # "idle" => s.path \in Paths
         /\ s.pc \notin {"idle", "stat"} => s.stamp \in Nat
         /\ s.pc = "hash" => s.row \in SUBSET BookFiles
         /\ s.pc = "touch" => s.id \in Nat
         /\ s.pc = "create" => s.hash \in Contents
         /\ s.pc \in {"attach", "raced"} => s.book \in Nat
BY DEF Scans, Idle

\* A probe that finds a file finds its content.
LEMMA ProbePresent ==
  ASSUME NEW p \in Paths, Probe(p) = "present"
  PROVE  disk[p] # NoFile
BY DEF Probe

LEMMA AfterStatType ==
  ASSUME TypeOK, NEW p \in Paths
  PROVE  AfterStat(p) \in Scans
<1>1. mtime[p] \in Nat /\ FileAt(files, p) \in SUBSET BookFiles
  BY DEF TypeOK, FileAt
<1>2. Idle \in Scans
  BY DEF Scans
<1>3. [pc |-> "hash", path |-> p, stamp |-> mtime[p], row |-> FileAt(files, p)] \in Scans
  BY <1>1 DEF Scans
<1>4. QED
  BY <1>2, <1>3 DEF AfterStat

\* What follows the hash of a file: nothing, or one of the three writes.
LEMMA AfterHashCases ==
  ASSUME NEW s, NEW t \in AfterHash(s), t # Idle
  PROVE  /\ Probe(s.path) = "present"
         /\ \/ t = [pc |-> "create", path |-> s.path, stamp |-> s.stamp, hash |-> disk[s.path]]
            \/ \E f \in s.row, b \in books :
                 /\ t = [pc |-> "touch", path |-> s.path, stamp |-> s.stamp, id |-> f.id]
                 /\ f.book = b.id /\ b.hash = disk[s.path]
            \/ \E b \in books :
                 /\ t = [pc |-> "attach", path |-> s.path, stamp |-> s.stamp, book |-> b.id]
                 /\ b.hash = disk[s.path]
<1> DEFINE known == BookWithHash(books, disk[s.path])
           same  == {f \in s.row : \E b \in known : f.book = b.id}
<1>1. CASE Probe(s.path) # "present"
  BY <1>1 DEF AfterHash
<1>2. CASE Probe(s.path) = "present" /\ known = {}
  BY <1>2 DEF AfterHash
<1>3. CASE Probe(s.path) = "present" /\ known # {} /\ same # {}
  <2>1. t \in {[pc |-> "touch", path |-> s.path, stamp |-> s.stamp, id |-> f.id] : f \in same}
    BY <1>3 DEF AfterHash
  <2>2. QED
    BY <1>3, <2>1 DEF BookWithHash
<1>4. CASE Probe(s.path) = "present" /\ known # {} /\ same = {}
  <2>1. t \in {[pc |-> "attach", path |-> s.path, stamp |-> s.stamp, book |-> b.id] : b \in known}
    BY <1>4 DEF AfterHash
  <2>2. QED
    BY <1>4, <2>1 DEF BookWithHash
<1>5. QED
  BY <1>1, <1>2, <1>3, <1>4

LEMMA AfterHashType ==
  ASSUME TypeOK, NEW s \in Scans, s.pc = "hash", NEW t \in AfterHash(s)
  PROVE  t \in Scans
<1>1. s.path \in Paths /\ s.stamp \in Nat /\ s.row \in SUBSET BookFiles
  BY ScanFields
<1>2. CASE t = Idle
  BY <1>2 DEF Scans
<1>3. CASE Probe(s.path) = "present"
            /\ t = [pc |-> "create", path |-> s.path, stamp |-> s.stamp, hash |-> disk[s.path]]
  <2>1. disk[s.path] \in Contents
    BY <1>1, <1>3, ProbePresent DEF TypeOK
  <2>2. QED
    BY <1>1, <1>3, <2>1 DEF Scans
<1>4. CASE \E f \in s.row : t = [pc |-> "touch", path |-> s.path, stamp |-> s.stamp, id |-> f.id]
  <2>1. PICK f \in s.row : t = [pc |-> "touch", path |-> s.path, stamp |-> s.stamp, id |-> f.id]
    BY <1>4
  <2>2. f.id \in Nat
    BY <1>1 DEF BookFiles
  <2>3. QED
    BY <1>1, <2>1, <2>2 DEF Scans
<1>5. CASE \E b \in books : t = [pc |-> "attach", path |-> s.path, stamp |-> s.stamp, book |-> b.id]
  <2>1. PICK b \in books : t = [pc |-> "attach", path |-> s.path, stamp |-> s.stamp, book |-> b.id]
    BY <1>5
  <2>2. b.id \in Nat
    BY DEF TypeOK, Books
  <2>3. QED
    BY <1>1, <2>1, <2>2 DEF Scans
<1>6. QED
  BY <1>2, <1>3, <1>4, <1>5, AfterHashCases

\* The sweep's end and every point of it are of the sweep's type.
LEMMA SettleType ==
  ASSUME NEW s \in Sweeps
  PROVE  Settle(s) \in Sweeps
BY DEF Settle, NoSweep, Sweeps

\* missingGrace going by rewrites rows; only a recent mark becomes an old one.
LEMMA GraceRewrites ==
  ASSUME files \in SUBSET BookFiles, GracePasses
  PROVE  /\ Rewrites(files', files)
         /\ \A g \in files' : \E f \in files :
              /\ SameRow(g, f) /\ g.stamp = f.stamp
              /\ g.mark = f.mark \/ (f.mark = "recent" /\ g.mark = "old")
<1> DEFINE u == [f \in files |-> IF f.mark = "recent" THEN [f EXCEPT !.mark = "old"] ELSE f]
<1>1. \A f \in files : /\ u[f] \in BookFiles /\ SameRow(u[f], f) /\ u[f].stamp = f.stamp
                       /\ u[f].mark = f.mark \/ (f.mark = "recent" /\ u[f].mark = "old")
  BY DEF BookFiles, SameRow, Marks
<1>2. files' = {u[f] : f \in files}
  BY DEF GracePasses
<1>3. u \in [files -> BookFiles]
  BY <1>1
<1> HIDE DEF u
<1>4. QED
  BY <1>1, <1>2, <1>3, MapRewrites

LEMMA InitType == Init => TypeOK
<1> SUFFICES ASSUME Init PROVE TypeOK
  OBVIOUS
<1>1. clock \in 0 .. MaxEvents
  BY MaxEventsAssumption DEF Init
<1>2. Idle \in Scans
  BY DEF Scans
<1>3. NoSweep \in Sweeps
  BY DEF NoSweep, Sweeps
<1>4. QED
  BY <1>1, <1>2, <1>3 DEF Init, TypeOK, DirStates

LEMMA ScanFileType ==
  ASSUME TypeOK, NEW a \in Actors, ScanFile(a)
  PROVE  TypeOK'
<1> DEFINE s == scan[a]
<1>1. s \in Scans
  BY DEF TypeOK
<1>2. Idle \in Scans
  BY DEF Scans
<1>3. CASE ScanHash(a)
  <2>1. PICK t \in AfterHash(s) : scan' = [scan EXCEPT ![a] = t]
    BY <1>3 DEF ScanHash
  <2>2. t \in Scans
    BY <1>1, <1>3, AfterHashType DEF ScanHash
  <2>3. QED
    BY <1>3, <2>1, <2>2 DEF ScanHash, TypeOK, world, tables
<1>4. CASE ScanTouch(a)
  <2>1. s.stamp \in Nat /\ s.id \in Nat
    BY <1>1, <1>4, ScanFields DEF ScanTouch
  <2>2. files' \in SUBSET BookFiles
    BY <1>4, <2>1, StatRewrites DEF ScanTouch, TypeOK, Rewrites
  <2>3. QED
    BY <1>2, <1>4, <2>2 DEF ScanTouch, TypeOK, world
<1>5. CASE ScanCreate(a)
  <2>1. s.path \in Paths /\ s.stamp \in Nat /\ s.hash \in Contents
    BY <1>1, <1>5, ScanFields DEF ScanCreate
  <2>2. files' \in SUBSET BookFiles
    BY <1>5, <2>1, UpsertType DEF ScanCreate, TypeOK
  <2>3. books' = BooksAfterCreate(books, files', PreviousOwner(files, s.path),
                                  nextBook, s.hash)
    BY <1>5 DEF ScanCreate
  <2>4. books \in SUBSET Books /\ nextBook \in Nat
    BY DEF TypeOK
  <2>5. books' \in SUBSET Books
    BY <2>1, <2>3, <2>4, CreateType
  <2>6. nextFile' \in Nat /\ nextBook' \in Nat
    BY <1>5 DEF ScanCreate, TypeOK
  <2>7. QED
    BY <1>2, <1>5, <2>2, <2>5, <2>6 DEF ScanCreate, TypeOK, world
<1>6. CASE ScanLoseRace(a)
  <2>1. PICK b \in books :
          scan' = [scan EXCEPT ![a] = [pc |-> "raced", path |-> s.path,
                                       stamp |-> s.stamp, book |-> b.id]]
    BY <1>6 DEF ScanLoseRace, BookWithHash
  <2>2. s.path \in Paths /\ s.stamp \in Nat /\ b.id \in Nat
    BY <1>1, <1>6, ScanFields DEF ScanLoseRace, TypeOK, Books
  <2>3. [pc |-> "raced", path |-> s.path, stamp |-> s.stamp, book |-> b.id] \in Scans
    BY <2>2 DEF Scans
  <2>4. QED
    BY <1>6, <2>1, <2>3 DEF ScanLoseRace, TypeOK, world, tables
<1>7. CASE ScanAttach(a)
  <2>1. s.path \in Paths /\ s.stamp \in Nat /\ s.book \in Nat
    BY <1>1, <1>7, ScanFields DEF ScanAttach
  <2>2. files' \in SUBSET BookFiles
    BY <1>7, <2>1, UpsertType DEF ScanAttach, TypeOK
  <2>3. books' \in SUBSET Books
    BY <1>7 DEF ScanAttach, TypeOK, BooksAfterReassign, PruneOrphans
  <2>4. nextFile' \in Nat /\ nextBook' \in Nat
    BY <1>7 DEF ScanAttach, TypeOK
  <2>5. QED
    BY <1>2, <1>7, <2>2, <2>3, <2>4 DEF ScanAttach, TypeOK, world
<1>8. QED
  BY <1>3, <1>4, <1>5, <1>6, <1>7 DEF ScanFile

LEMMA SweepType ==
  ASSUME TypeOK, StartSweep \/ Walk \/ ReconcileMissing \/ ScanStat
  PROVE  TypeOK'
<1>1. CASE StartSweep
  BY <1>1, DirAssumption DEF StartSweep, TypeOK, Sweeps, NoSweep, world, tables
<1>2. ASSUME NEW d \in Dirs, ListDir(d) PROVE TypeOK'
  <2>1. sweep' \in Sweeps
    BY <1>2 DEF ListDir, TypeOK, Sweeps, SubDirs, FilesIn
  <2>2. QED
    BY <1>2, <2>1 DEF ListDir, TypeOK, world, tables
<1>3. ASSUME NEW d \in Dirs, ListEmptyDir(d) PROVE TypeOK'
  BY <1>3 DEF ListEmptyDir, TypeOK, Sweeps, world, tables
<1>4. ASSUME NEW d \in Dirs, SkipDir(d) PROVE TypeOK'
  <2>1. sweep' \in Sweeps
    BY <1>4 DEF SkipDir, TypeOK, Sweeps, NoSweep
  <2>2. QED
    BY <1>4, <2>1 DEF SkipDir, TypeOK, world, tables
<1>5. ASSUME NEW d \in Dirs, PassLink(d) PROVE TypeOK'
  <2>1. sweep' \in Sweeps
    BY <1>5 DEF PassLink, TypeOK, Sweeps
  <2>2. QED
    BY <1>5, <2>1 DEF PassLink, TypeOK, world, tables
<1>6. ASSUME NEW p \in Paths, VisitFile(p) PROVE TypeOK'
  <2>1. sweep' \in Sweeps
    BY <1>6 DEF VisitFile, TypeOK, Sweeps
  <2>2. AfterStat(p) \in Scans
    BY AfterStatType
  <2>3. QED
    BY <1>6, <2>1, <2>2 DEF VisitFile, TypeOK, world, tables
<1>7. CASE Reconcile
  <2> DEFINE rows == {f \in files : ~UnderAny(f.path, sweep.skipped)}
             back == {f \in rows : f.path \in sweep.seen /\ f.mark # "no"}
             new == [sweep EXCEPT !.phase = "check",
                                  !.unseen = {f \in rows : f.path \notin sweep.seen},
                                  !.clear = {f.id : f \in back}]
  <2>1. {f \in rows : f.path \notin sweep.seen} \in SUBSET BookFiles
    BY DEF TypeOK
  <2>2. {f.id : f \in back} \in SUBSET Nat
    BY DEF TypeOK, BookFiles
  <2> HIDE DEF rows, back
  <2>3. new \in Sweeps
    BY <2>1, <2>2 DEF TypeOK, Sweeps
  <2>4. NoSweep \in Sweeps
    BY DEF NoSweep, Sweeps
  <2>5. sweep' = IF sweep.seen = {} THEN NoSweep ELSE Settle(new)
    BY <1>7 DEF Reconcile, rows, back
  <2> HIDE DEF new
  <2>6. QED
    BY <1>7, <2>3, <2>4, <2>5, SettleType DEF Reconcile, TypeOK, world, tables
<1>8. ASSUME NEW f \in sweep.unseen, LstatRow(f) PROVE TypeOK'
  <2>1. f.id \in Nat
    BY DEF TypeOK, Sweeps, BookFiles
  <2>2. PICK ms, ps : /\ ms \subseteq {f.id} /\ ps \subseteq {f.id}
                      /\ sweep' = Settle([sweep EXCEPT !.unseen = @ \ {f},
                                           !.mark = @ \cup ms, !.prune = @ \cup ps])
    BY <1>8 DEF LstatRow
  <2>3. [sweep EXCEPT !.unseen = @ \ {f}, !.mark = @ \cup ms, !.prune = @ \cup ps] \in Sweeps
    BY <2>1, <2>2 DEF TypeOK, Sweeps
  <2>4. QED
    BY <1>8, <2>2, <2>3, SettleType DEF LstatRow, TypeOK, world, tables
<1>9. CASE MarkMissing
  <2>1. files' \in SUBSET BookFiles
    BY <1>9, MarkRewrites DEF MarkMissing, TypeOK, Rewrites
  <2>2. [sweep EXCEPT !.mark = {}] \in Sweeps
    BY DEF TypeOK, Sweeps
  <2>3. QED
    BY <1>9, <2>1, <2>2, SettleType DEF MarkMissing, TypeOK, world
<1>10. CASE ClearMissing
  <2>1. files' \in SUBSET BookFiles
    BY <1>10, ClearRewrites DEF ClearMissing, TypeOK, Rewrites
  <2>2. [sweep EXCEPT !.clear = {}] \in Sweeps
    BY DEF TypeOK, Sweeps
  <2>3. QED
    BY <1>10, <2>1, <2>2, SettleType DEF ClearMissing, TypeOK, world
<1>11. CASE PruneMissing
  <2>1. NoSweep \in Sweeps
    BY DEF NoSweep, Sweeps
  <2>2. QED
    BY <1>11, <2>1 DEF PruneMissing, TypeOK, DeleteFiles, PruneOrphans, world
<1>12. CASE ScanStat
  <2>1. scan["importer"] \in Scans
    BY DEF TypeOK, Actors
  <2>2. AfterStat(scan["importer"].path) \in Scans
    BY <1>12, <2>1, ScanFields, AfterStatType DEF ScanStat
  <2>3. QED
    BY <1>12, <2>2 DEF ScanStat, TypeOK, world, tables
<1>13. QED
  BY <1>1, <1>2, <1>3, <1>4, <1>5, <1>6, <1>7, <1>8, <1>9, <1>10, <1>11, <1>12
  DEF Walk, ReconcileMissing

LEMMA OutsideType ==
  ASSUME TypeOK, People \/ Outside
  PROVE  TypeOK'
<1>1. ASSUME NEW f \in files, ForgetMissingFile(f) PROVE TypeOK'
  BY <1>1 DEF ForgetMissingFile, TypeOK, DeleteFiles, PruneOrphans, world
<1>2. ASSUME NEW b \in books, EditBook(b) PROVE TypeOK'
  <2>1. [b EXCEPT !.edited = TRUE] \in Books
    BY DEF TypeOK, Books
  <2>2. QED
    BY <1>2, <2>1 DEF EditBook, TypeOK, world
<1>3. ASSUME NEW p \in Paths, NEW c \in Contents, Import(p, c) PROVE TypeOK'
  <2>1. clock + 1 \in 0 .. MaxEvents /\ clock + 1 \in Nat
    BY <1>3, MaxEventsAssumption DEF Import, TypeOK
  <2>2. [pc |-> "stat", path |-> p] \in Scans
    BY DEF Scans
  <2>3. QED
    BY <1>3, <2>1, <2>2 DEF Import, TypeOK, tables
<1>4. ASSUME NEW p \in Paths, NEW c \in Contents, WriteFile(p, c) PROVE TypeOK'
  <2>1. clock + 1 \in 0 .. MaxEvents /\ clock + 1 \in Nat
    BY <1>4, MaxEventsAssumption DEF WriteFile, TypeOK
  <2>2. QED
    BY <1>4, <2>1 DEF WriteFile, TypeOK, tables
<1>5. ASSUME NEW p \in Paths, RemoveFile(p) PROVE TypeOK'
  <2>1. clock + 1 \in 0 .. MaxEvents
    BY <1>5, MaxEventsAssumption DEF RemoveFile, TypeOK
  <2>2. QED
    BY <1>5, <2>1 DEF RemoveFile, TypeOK, tables
<1>6. ASSUME NEW d \in Dirs, NEW s \in DirStates, ChangeDir(d, s) PROVE TypeOK'
  <2>1. clock + 1 \in 0 .. MaxEvents
    BY <1>6, MaxEventsAssumption DEF ChangeDir, TypeOK
  <2>2. sweep' \in Sweeps
    BY <1>6 DEF ChangeDir, TypeOK, Sweeps
  <2>3. QED
    BY <1>6, <2>1, <2>2 DEF ChangeDir, TypeOK, tables
<1>7. CASE Crash
  <2>1. clock + 1 \in 0 .. MaxEvents
    BY <1>7, MaxEventsAssumption DEF Crash, TypeOK
  <2>2. Idle \in Scans /\ NoSweep \in Sweeps
    BY DEF Scans, NoSweep, Sweeps
  <2>3. QED
    BY <1>7, <2>1, <2>2 DEF Crash, TypeOK, tables
<1>8. CASE GracePasses
  <2>1. files' \in SUBSET BookFiles
    BY <1>8, GraceRewrites DEF TypeOK, Rewrites
  <2>2. QED
    BY <1>8, <2>1 DEF GracePasses, TypeOK, world
<1>9. ASSUME NEW a \in Actors, ScanFails(a) PROVE TypeOK'
  <2>1. clock + 1 \in 0 .. MaxEvents /\ Idle \in Scans
    BY <1>9, MaxEventsAssumption DEF ScanFails, TypeOK, Scans
  <2>2. QED
    BY <1>9, <2>1 DEF ScanFails, TypeOK, tables
<1>10. CASE ReconcileFails
  <2>1. clock + 1 \in 0 .. MaxEvents
    BY <1>10, MaxEventsAssumption DEF ReconcileFails, TypeOK
  <2>2. sweep' \in Sweeps
    BY <1>10 DEF ReconcileFails, Dropped, Settle, TypeOK, NoSweep, Sweeps
  <2>3. QED
    BY <1>10, <2>1, <2>2 DEF ReconcileFails, TypeOK, tables
<1>11. QED
  BY <1>1, <1>2, <1>3, <1>4, <1>5, <1>6, <1>7, <1>8, <1>9, <1>10 DEF People, Outside

\* Every variable keeps its type.
THEOREM TypeCorrect == Spec => []TypeOK
<1>1. Init => TypeOK
  BY InitType
<1>2. TypeOK /\ [Next]_vars => TypeOK'
  <2>1. CASE UNCHANGED vars
    BY <2>1 DEF vars, TypeOK
  <2>2. ASSUME TypeOK, Next PROVE TypeOK'
    BY <2>2, ScanFileType, SweepType, OutsideType DEF Next
  <2>3. QED
    BY <2>1, <2>2
<1>3. QED
  BY <1>1, <1>2, PTL DEF Spec

-----------------------------------------------------------------------------
(***************************************************************************)
(* The tables.  NoOrphanBook and OneOfEach are inductive only together     *)
(* with the freshness of the ids: a new row or book must not take the id   *)
(* of one that is there.                                                   *)
(***************************************************************************)
Fresh ==
  /\ \A f \in files : f.id < nextFile
  /\ \A b \in books : b.id < nextBook

TablesInv == Fresh /\ Linked(files, books) /\ OneRow(files) /\ OneBook(books)

\* A statement that rewrites rows and no book.
LEMMA RewriteStep ==
  ASSUME TypeOK, TablesInv, Rewrites(files', files),
         UNCHANGED <<books, nextFile, nextBook>>
  PROVE  TablesInv'
<1>1. Fresh'
  BY DEF TablesInv, Fresh, Rewrites, SameRow
<1>2. Linked(files', books')
  BY RewriteLinked DEF TablesInv
<1>3. OneRow(files') /\ OneBook(books')
  BY DEF TablesInv, Rewrites
<1>4. QED
  BY <1>1, <1>2, <1>3 DEF TablesInv

\* A deletion of rows by id, with their owners pruned.
LEMMA DeleteStep ==
  ASSUME TypeOK, TablesInv, NEW is, NEW owners,
         OwnersOf(files, is) \subseteq owners,
         files' = DeleteFiles(files, is),
         books' = PruneOrphans(books, files', owners),
         UNCHANGED <<nextFile, nextBook>>
  PROVE  TablesInv'
<1>1. files' \subseteq files /\ books' \subseteq books
  BY DEF DeleteFiles, PruneOrphans
<1>2. Linked(files', books')
  BY DeleteLinked DEF TablesInv
<1>3. QED
  BY <1>1, <1>2 DEF TablesInv, Fresh, OneRow, OneBook

\* The id the next row gets is not in the table, nor is the next book's.
LEMMA FreshIds ==
  ASSUME TypeOK, TablesInv
  PROVE  /\ \A f \in files : f.id # nextFile
         /\ nextBook \notin BookIds(books)
BY DEF TypeOK, TablesInv, Fresh, BookIds, BookFiles, Books

LEMMA UpsertFresh ==
  ASSUME TypeOK, TablesInv, NEW b \in Nat, NEW p \in Paths, NEW s \in Nat,
         NEW f \in UpsertBookFile(files, nextFile, b, p, s)
  PROVE  f.id < nextFile + 1
<1>1. files \in SUBSET BookFiles /\ nextFile \in Nat
  BY DEF TypeOK
<1>2. f.id = nextFile \/ \E g \in files : g.id = f.id
  BY <1>1, UpsertRows
<1>3. \A g \in files : g.id \in Nat /\ g.id < nextFile
  BY <1>1 DEF TablesInv, Fresh, BookFiles
<1>4. QED
  BY <1>1, <1>2, <1>3

LEMMA CreateStep ==
  ASSUME TypeOK, TablesInv, NEW a \in Actors, ScanCreate(a)
  PROVE  TablesInv'
<1> DEFINE p == scan[a].path
           s == scan[a].stamp
           h == scan[a].hash
<1>1. p \in Paths /\ s \in Nat /\ h \in Contents
  BY ScanFields DEF ScanCreate, TypeOK
<1>2. /\ files \in SUBSET BookFiles /\ books \in SUBSET Books
      /\ nextFile \in Nat /\ nextBook \in Nat
  BY DEF TypeOK
<1>3. /\ files' = UpsertBookFile(files, nextFile, nextBook, p, s)
      /\ books' = BooksAfterCreate(books, files', PreviousOwner(files, p), nextBook, h)
      /\ nextFile' = nextFile + 1 /\ nextBook' = nextBook + 1
      /\ BookWithHash(books, h) = {}
  BY DEF ScanCreate
<1> HIDE DEF p, s, h
<1>4. Linked(files', books')
  BY <1>1, <1>2, <1>3, FreshIds, CreateLinked DEF TablesInv
<1>5. OneRow(files')
  BY <1>1, <1>2, <1>3, FreshIds, UpsertOneRow DEF TablesInv
<1>6. \A f \in files' : f.id < nextFile'
  BY <1>1, <1>2, <1>3, UpsertFresh
<1>7. PICK e : \A b \in books' : b \in books \/ b = [id |-> nextBook, hash |-> h, edited |-> e]
  BY <1>3 DEF BooksAfterCreate, PruneOrphans
<1>8. \A b \in books : b.id \in Nat /\ b.id < nextBook /\ b.hash # h
  BY <1>2, <1>3 DEF TablesInv, Fresh, Books, BookWithHash
<1>9. \A b \in books' : b.id < nextBook'
  BY <1>2, <1>3, <1>7, <1>8
<1>10. OneBook(books')
  BY <1>2, <1>7, <1>8 DEF TablesInv, OneBook
<1>11. QED
  BY <1>4, <1>5, <1>6, <1>9, <1>10 DEF TablesInv, Fresh

LEMMA AttachStep ==
  ASSUME TypeOK, TablesInv, NEW a \in Actors, ScanAttach(a)
  PROVE  TablesInv'
<1> DEFINE p == scan[a].path
           s == scan[a].stamp
           b == scan[a].book
<1>1. CASE b \notin BookIds(books)
  BY <1>1 DEF ScanAttach, TablesInv, Fresh
<1>2. CASE b \in BookIds(books)
  <2>1. p \in Paths /\ s \in Nat /\ b \in Nat
    BY ScanFields DEF ScanAttach, TypeOK
  <2>2. /\ files \in SUBSET BookFiles /\ books \in SUBSET Books
        /\ nextFile \in Nat /\ nextBook \in Nat
    BY DEF TypeOK
  <2>3. /\ files' = UpsertBookFile(files, nextFile, b, p, s)
        /\ books' = BooksAfterReassign(books, files', PreviousOwner(files, p), b)
        /\ nextFile' = nextFile + 1 /\ nextBook' = nextBook
    BY <1>2 DEF ScanAttach
  <2> HIDE DEF p, s, b
  <2>4. Linked(files', books')
    BY <1>2, <2>1, <2>2, <2>3, ReassignLinked DEF TablesInv
  <2>5. OneRow(files')
    BY <2>1, <2>2, <2>3, FreshIds, UpsertOneRow DEF TablesInv
  <2>6. \A f \in files' : f.id < nextFile'
    BY <2>1, <2>2, <2>3, UpsertFresh
  <2>7. books' \subseteq books
    BY <2>3 DEF BooksAfterReassign, PruneOrphans
  <2>8. QED
    BY <2>3, <2>4, <2>5, <2>6, <2>7 DEF TablesInv, Fresh, OneBook
<1>3. QED
  BY <1>1, <1>2

\* The tables stay whole over every step of the program and of the world.
LEMMA TablesStep ==
  ASSUME TypeOK, TablesInv, Next
  PROVE  TablesInv'
<1> USE DEF world, tables
<1>1. CASE UNCHANGED <<files, books, nextFile, nextBook>>
  BY <1>1 DEF TablesInv, Fresh
<1>2. ASSUME NEW a \in Actors, ScanFile(a) PROVE TablesInv'
  <2>1. CASE ScanTouch(a)
    <3>1. scan[a].stamp \in Nat /\ scan[a].id \in Nat
      BY <2>1, ScanFields DEF ScanTouch, TypeOK
    <3>2. Rewrites(files', files)
      BY <2>1, <3>1, StatRewrites DEF ScanTouch, TypeOK
    <3>3. QED
      BY <2>1, <3>2, RewriteStep DEF ScanTouch
  <2>2. QED
    BY <1>1, <1>2, <2>1, CreateStep, AttachStep DEF ScanFile, ScanHash, ScanLoseRace
<1>3. CASE MarkMissing
  BY <1>3, MarkRewrites, RewriteStep DEF MarkMissing, TypeOK
<1>4. CASE ClearMissing
  BY <1>4, ClearRewrites, RewriteStep DEF ClearMissing, TypeOK
<1>5. CASE PruneMissing
  BY <1>5, DeleteStep DEF PruneMissing
<1>6. ASSUME NEW f \in files, ForgetMissingFile(f) PROVE TablesInv'
  <2>1. OwnersOf(files, {f.id}) \subseteq {f.book}
    BY DEF OwnersOf, TablesInv, OneRow
  <2>2. QED
    BY <1>6, <2>1, DeleteStep DEF ForgetMissingFile
<1>7. ASSUME NEW b \in books, EditBook(b) PROVE TablesInv'
  <2> DEFINE e == [b EXCEPT !.edited = TRUE]
  <2>1. e.id = b.id /\ e.hash = b.hash
    BY DEF TypeOK, Books
  <2>2. books' = (books \ {b}) \cup {e}
    BY <1>7 DEF EditBook
  <2> HIDE DEF e
  <2>3. QED
    BY <1>7, <2>1, <2>2 DEF EditBook, TablesInv, Fresh, Linked, OneBook
<1>8. CASE GracePasses
  BY <1>8, GraceRewrites, RewriteStep DEF GracePasses, TypeOK
<1>9. QED
  BY <1>1, <1>2, <1>3, <1>4, <1>5, <1>6, <1>7, <1>8
  DEF Next, Walk, ReconcileMissing, People, Outside, StartSweep, ListDir, ListEmptyDir,
      SkipDir, PassLink, VisitFile, Reconcile, LstatRow, ScanStat, Import, WriteFile,
      RemoveFile, ChangeDir, Crash, ScanFails, ReconcileFails

\* The two tables stay tied: unique ids, paths and contents, every row to a
\* book and every book to a row.
THEOREM TablesWhole == Spec => []TablesInv
<1>1. Init => TablesInv
  BY DEF Init, TablesInv, Fresh, Linked, OneRow, OneBook
<1>2. TypeOK /\ TablesInv /\ [Next]_vars => TablesInv'
  BY TablesStep DEF vars, TablesInv, Fresh
<1>3. QED
  BY <1>1, <1>2, TypeCorrect, PTL DEF Spec

\* No book is without a location and no location without its book, for every
\* interleaving of the sweep, the importer, the clicks and the crashes.
THEOREM NoOrphans == Spec => []NoOrphanBook
<1>1. TablesInv => NoOrphanBook
  BY DEF TablesInv, Linked, NoOrphanBook, FilesOf, BookIds
<1>2. QED
  BY <1>1, TablesWhole, PTL

\* One book per content and one row per path, for every such interleaving.
THEOREM NoDuplicates == Spec => []OneOfEach
<1>1. TablesInv => OneOfEach
  BY DEF TablesInv, OneRow, OneBook, OneOfEach
<1>2. QED
  BY <1>1, TablesWhole, PTL

-----------------------------------------------------------------------------
(***************************************************************************)
(* The sweep: what it prunes, what the cheap check may skip, and what      *)
(* becomes of a person's edits.                                            *)
(***************************************************************************)

(***************************************************************************)
(* PruneListOverdue.  The list is made from a snapshot of the table, so    *)
(* the invariant follows each snapshot row to the row that has its id now: *)
(* ids are not reused, nothing but the sweep's own clearing takes a mark   *)
(* off, and a row is never both to be cleared and to be decided.           *)
(***************************************************************************)
PruneInv ==
  /\ sweep.phase # "check" => sweep.unseen = {} /\ sweep.clear = {} /\ sweep.prune = {}
  /\ \A f \in sweep.unseen : f.id < nextFile /\ f.id \notin sweep.clear
  /\ \A i \in sweep.prune : i < nextFile /\ i \notin sweep.clear
  /\ \A f \in sweep.unseen, g \in files : f.id = g.id /\ f.mark = "old" => g.mark = "old"
  /\ \A g \in files : g.id \in sweep.prune => g.mark = "old"

(***************************************************************************)
(* CheapCheckSound.  A path below the root has one writer, the sweep; the  *)
(* invariant says what the sweep's step in scanFile knows of the path it   *)
(* is at, under the stamp it read before it hashed.                        *)
(***************************************************************************)

\* Content h is that of the file whose stat is s, if that is still its stat.
TrueOf(p, s, h) == disk[p] # NoFile /\ s = mtime[p] => h = disk[p]

\* So is the content of book i.
Names(p, s, i) == \A b \in books : b.id = i => TrueOf(p, s, b.hash)

StampInv ==
  /\ \A p \in Paths : mtime[p] <= clock
  /\ \A f \in files : f.stamp <= clock
  /\ \A a \in Actors : scan[a].pc \notin {"idle", "stat"} => scan[a].stamp <= clock

\* The importer works in the root, and a row id names one path for good.
PlaceInv ==
  /\ scan["importer"].pc # "idle" => DirOf[scan["importer"].path] = Root
  /\ \A a \in Actors :
       scan[a].pc = "hash" =>
         \A f \in scan[a].row : /\ f.id < nextFile
                                /\ \A g \in files : g.id = f.id => g.path = scan[a].path
  /\ \A a \in Actors :
       scan[a].pc = "touch" =>
         /\ scan[a].id < nextFile
         /\ \A g \in files : g.id = scan[a].id => g.path = scan[a].path

JobTrue(j) ==
  j.pc # "idle" /\ DirOf[j.path] # Root =>
    /\ j.pc = "hash" => \A f \in j.row, g \in files : g.id = f.id => g.book = f.book
    /\ j.pc = "touch" => \A g \in files : g.id = j.id => Names(j.path, j.stamp, g.book)
    /\ j.pc = "create" => TrueOf(j.path, j.stamp, j.hash)
    /\ j.pc \in {"attach", "raced"} =>
         j.book < nextBook /\ Names(j.path, j.stamp, j.book)

JobInv == JobTrue(scan["sweep"])

RowInv == \A f \in files : DirOf[f.path] # Root => Names(f.path, f.stamp, f.book)

CheapInv == StampInv /\ PlaceInv /\ JobInv /\ RowInv

-----------------------------------------------------------------------------
\* Where a row of the table comes from: it is new, or it is the row that had
\* its id and path before; only ClearMissing takes an old mark off.
Descends(g, f) ==
  /\ f.id = g.id /\ f.path = g.path
  /\ f.mark = "old" => g.mark = "old" \/ (ClearMissing /\ f.id \in sweep.clear)

LEMMA UpsertDescends ==
  ASSUME TypeOK, NEW b \in Nat, NEW p \in Paths, NEW s \in Nat,
         files' = UpsertBookFile(files, nextFile, b, p, s), nextFile' = nextFile + 1,
         NEW g \in files'
  PROVE  (g.id = nextFile /\ nextFile' = nextFile + 1) \/ \E f \in files : Descends(g, f)
<1>1. files \in SUBSET BookFiles /\ nextFile \in Nat
  BY DEF TypeOK
<1>2. g.id = nextFile \/ \E f \in files : f.id = g.id /\ f.path = g.path /\ f.mark = g.mark
  BY <1>1, UpsertOrigin
<1>3. QED
  BY <1>2 DEF Descends

LEMMA RowsStep ==
  ASSUME TypeOK, Next
  PROVE  /\ nextFile' \in {nextFile, nextFile + 1}
         /\ \A g \in files' : \/ g.id = nextFile /\ nextFile' = nextFile + 1
                              \/ \E f \in files : Descends(g, f)
<1> USE DEF world, tables
<1>1. CASE UNCHANGED <<files, nextFile>>
  BY <1>1 DEF Descends
<1>2. CASE files' \subseteq files /\ UNCHANGED nextFile
  BY <1>2 DEF Descends
<1>3. ASSUME NEW a \in Actors, ScanTouch(a) PROVE nextFile' = nextFile /\ \A g \in files' : \E f \in files : Descends(g, f)
  <2>1. scan[a].stamp \in Nat /\ scan[a].id \in Nat
    BY <1>3, ScanFields DEF ScanTouch, TypeOK
  <2>2. QED
    BY <1>3, <2>1, StatRewrites DEF ScanTouch, TypeOK, SameRow, Descends
<1>4. ASSUME NEW a \in Actors, ScanCreate(a)
      PROVE  /\ nextFile' = nextFile + 1
             /\ \A g \in files' : \/ g.id = nextFile /\ nextFile' = nextFile + 1
                                  \/ \E f \in files : Descends(g, f)
  <2>1. scan[a].path \in Paths /\ scan[a].stamp \in Nat /\ nextBook \in Nat
    BY <1>4, ScanFields DEF ScanCreate, TypeOK
  <2>2. QED
    BY <1>4, <2>1, UpsertDescends DEF ScanCreate
<1>5. ASSUME NEW a \in Actors, ScanAttach(a), scan[a].book \in BookIds(books)
      PROVE  /\ nextFile' = nextFile + 1
             /\ \A g \in files' : \/ g.id = nextFile /\ nextFile' = nextFile + 1
                                  \/ \E f \in files : Descends(g, f)
  <2>1. scan[a].path \in Paths /\ scan[a].stamp \in Nat /\ scan[a].book \in Nat
    BY <1>5, ScanFields DEF ScanAttach, TypeOK
  <2>2. QED
    BY <1>5, <2>1, UpsertDescends DEF ScanAttach
<1>6. ASSUME NEW a \in Actors, ScanAttach(a), scan[a].book \notin BookIds(books)
      PROVE  UNCHANGED <<files, nextFile>>
  BY <1>6 DEF ScanAttach
<1>7. CASE MarkMissing
  BY <1>7, MarkRewrites DEF MarkMissing, TypeOK, SameRow, Descends
<1>8. CASE ClearMissing
  BY <1>8, ClearRewrites DEF ClearMissing, TypeOK, SameRow, Descends
<1>9. CASE GracePasses
  BY <1>9, GraceRewrites DEF GracePasses, TypeOK, SameRow, Descends
<1>10. CASE PruneMissing \/ \E f \in files : ForgetMissingFile(f)
  BY <1>2, <1>10 DEF PruneMissing, ForgetMissingFile, DeleteFiles
<1>11. ASSUME NEW a \in Actors, ScanFile(a)
       PROVE  /\ nextFile' \in {nextFile, nextFile + 1}
              /\ \A g \in files' : \/ g.id = nextFile /\ nextFile' = nextFile + 1
                                   \/ \E f \in files : Descends(g, f)
  BY <1>1, <1>3, <1>4, <1>5, <1>6, <1>11 DEF ScanFile, ScanHash, ScanLoseRace
<1>12. QED
  BY <1>1, <1>7, <1>8, <1>9, <1>10, <1>11
  DEF Next, Walk, ReconcileMissing, People, Outside, StartSweep, ListDir, ListEmptyDir,
      SkipDir, PassLink, VisitFile, Reconcile, LstatRow, ScanStat, Import, WriteFile,
      RemoveFile, ChangeDir, Crash, ScanFails, ReconcileFails, EditBook

-----------------------------------------------------------------------------
\* A step that leaves the sweep's lists as they are and clears no mark.
LEMMA KeepLists ==
  ASSUME TypeOK, PruneInv, Next, ~ClearMissing,
         sweep'.phase = sweep.phase, sweep'.unseen = sweep.unseen,
         sweep'.clear = sweep.clear, sweep'.prune = sweep.prune
  PROVE  PruneInv'
<1>1. /\ \A f \in files : f.id \in Nat
      /\ \A f \in sweep.unseen : f.id \in Nat
      /\ \A i \in sweep.prune : i \in Nat
      /\ nextFile \in Nat
  BY DEF TypeOK, Sweeps, BookFiles
<1>2. /\ nextFile' \in {nextFile, nextFile + 1}
      /\ \A g \in files' : \/ g.id = nextFile /\ nextFile' = nextFile + 1
                           \/ \E f \in files : Descends(g, f)
  BY RowsStep
<1>3. \A g \in files' : \/ g.id = nextFile
                        \/ \E f \in files : f.id = g.id /\ (f.mark = "old" => g.mark = "old")
  BY <1>2 DEF Descends
<1>4. /\ \A f \in sweep.unseen : f.id # nextFile /\ f.id < nextFile'
      /\ \A i \in sweep.prune : i # nextFile /\ i < nextFile'
  BY <1>1, <1>2 DEF PruneInv
<1>5. \A f \in sweep.unseen, g \in files' : f.id = g.id /\ f.mark = "old" => g.mark = "old"
  BY <1>3, <1>4 DEF PruneInv
<1>6. \A g \in files' : g.id \in sweep.prune => g.mark = "old"
  BY <1>3, <1>4 DEF PruneInv
<1>7. QED
  BY <1>4, <1>5, <1>6 DEF PruneInv

LEMMA SettleCases ==
  ASSUME NEW s
  PROVE  Settle(s) = NoSweep \/ Settle(s) = s
BY DEF Settle

LEMMA NoSweepPrune ==
  ASSUME sweep' = NoSweep
  PROVE  PruneInv'
BY DEF NoSweep, PruneInv

LEMMA PruneStep ==
  ASSUME TypeOK, TypeOK', TablesInv, PruneInv, Next
  PROVE  PruneInv'
<1> USE DEF world, tables
<1>1. CASE StartSweep
  BY <1>1 DEF StartSweep, NoSweep, PruneInv
<1>2. CASE Walk
  <2>1. sweep.phase = "walk" /\ sweep.unseen = {} /\ sweep.clear = {} /\ sweep.prune = {}
    BY <1>2 DEF Walk, ListDir, ListEmptyDir, SkipDir, PassLink, VisitFile, Meets, PruneInv
  <2>2. sweep' = NoSweep \/
        (sweep'.phase = "walk" /\ sweep'.unseen = {} /\ sweep'.clear = {} /\ sweep'.prune = {})
    BY <1>2, <2>1 DEF Walk, ListDir, ListEmptyDir, SkipDir, PassLink, VisitFile, TypeOK, Sweeps
  <2>3. QED
    BY <2>2, NoSweepPrune DEF PruneInv
<1>3. CASE Reconcile
  <2> DEFINE rows == {f \in files : ~UnderAny(f.path, sweep.skipped)}
             back == {f \in rows : f.path \in sweep.seen /\ f.mark # "no"}
             new == [sweep EXCEPT !.phase = "check",
                                  !.unseen = {f \in rows : f.path \notin sweep.seen},
                                  !.clear = {f.id : f \in back}]
  <2>1. sweep' = NoSweep \/ sweep' = new
    BY <1>3, SettleCases DEF Reconcile
  <2>2. CASE sweep' = new
    <3>1. /\ sweep'.phase = "check" /\ sweep'.prune = {}
          /\ sweep'.unseen = {f \in rows : f.path \notin sweep.seen}
          /\ sweep'.clear = {f.id : f \in back}
      BY <1>3, <2>2 DEF Reconcile, PruneInv, TypeOK, Sweeps
    <3>2. \A f, g \in files : f.id = g.id => f = g
      BY DEF TablesInv, OneRow
    <3>3. \A f \in sweep'.unseen : f \in files /\ f.id \notin sweep'.clear
      BY <3>1, <3>2
    <3>4. files' = files /\ nextFile' = nextFile
      BY <1>3 DEF Reconcile
    <3> HIDE DEF rows, back, new
    <3>5. QED
      BY <3>1, <3>2, <3>3, <3>4 DEF PruneInv, TablesInv, Fresh
  <2>3. QED
    BY <2>1, <2>2, NoSweepPrune
<1>4. ASSUME NEW f \in sweep.unseen, LstatRow(f) PROVE PruneInv'
  <2>1. PICK ms, ps : /\ ps \subseteq {f.id} /\ (ps # {} => f.mark = "old")
                      /\ sweep' = Settle([sweep EXCEPT !.unseen = @ \ {f},
                                           !.mark = @ \cup ms, !.prune = @ \cup ps])
    BY <1>4 DEF LstatRow
  <2>2. CASE sweep' = [sweep EXCEPT !.unseen = @ \ {f}, !.mark = @ \cup ms, !.prune = @ \cup ps]
    <3>1. /\ sweep'.phase = sweep.phase /\ sweep'.clear = sweep.clear
          /\ sweep'.unseen = sweep.unseen \ {f} /\ sweep'.prune = sweep.prune \cup ps
      BY <2>2 DEF TypeOK, Sweeps
    <3>2. files' = files /\ nextFile' = nextFile /\ sweep.phase = "check"
      BY <1>4 DEF LstatRow
    <3>3. QED
      BY <2>1, <3>1, <3>2 DEF PruneInv
  <2>3. QED
    BY <2>1, <2>2, SettleCases, NoSweepPrune
<1>5. CASE MarkMissing
  <2>1. CASE sweep' = [sweep EXCEPT !.mark = {}]
    <3>1. ~ClearMissing
      BY <1>5 DEF MarkMissing, ClearMissing
    <3>2. QED
      BY <2>1, <3>1, KeepLists DEF TypeOK, Sweeps
  <2>2. QED
    BY <1>5, <2>1, SettleCases, NoSweepPrune DEF MarkMissing
<1>6. CASE ClearMissing
  <2>1. CASE sweep' = [sweep EXCEPT !.clear = {}]
    <3>1. /\ sweep'.phase = sweep.phase /\ sweep'.clear = {} /\ sweep.phase = "check"
          /\ sweep'.unseen = {} /\ sweep'.prune = sweep.prune /\ nextFile' = nextFile
      BY <1>6, <2>1 DEF ClearMissing, TypeOK, Sweeps
    <3>2. \A g \in files' : \E f \in files : SameRow(g, f) /\ (f.id \notin sweep.clear => g.mark = f.mark)
      BY <1>6, ClearRewrites DEF ClearMissing, TypeOK
    <3>3. \A g \in files' : g.id \in sweep.prune => g.mark = "old"
      BY <3>2 DEF PruneInv, SameRow
    <3>4. QED
      BY <3>1, <3>3 DEF PruneInv
  <2>2. QED
    BY <1>6, <2>1, SettleCases, NoSweepPrune DEF ClearMissing
<1>7. CASE PruneMissing
  BY <1>7, NoSweepPrune DEF PruneMissing
<1>8. CASE Crash
  BY <1>8, NoSweepPrune DEF Crash
<1>9. CASE UNCHANGED sweep \/ \E d \in Dirs, s \in DirStates : ChangeDir(d, s)
  <2>1. /\ sweep'.phase = sweep.phase /\ sweep'.unseen = sweep.unseen
        /\ sweep'.clear = sweep.clear /\ sweep'.prune = sweep.prune
    BY <1>9 DEF ChangeDir, TypeOK, Sweeps
  <2>2. QED
    BY <1>6, <2>1, KeepLists
<1>10. CASE ReconcileFails
  <2>1. \/ sweep' = NoSweep
        \/ sweep' = [sweep EXCEPT !.mark = {}]
        \/ sweep' = [sweep EXCEPT !.clear = {}]
    BY <1>10, SettleCases DEF ReconcileFails, Dropped
  <2>2. UNCHANGED <<files, nextFile>>
    BY <1>10 DEF ReconcileFails, tables
  <2>3. CASE sweep' # NoSweep
    <3>1. /\ sweep'.phase = sweep.phase /\ sweep'.unseen = sweep.unseen
          /\ sweep'.clear \subseteq sweep.clear /\ sweep'.prune = sweep.prune
      BY <2>1, <2>3 DEF TypeOK, Sweeps
    <3>2. QED
      BY <2>2, <3>1 DEF PruneInv
  <2>4. QED
    BY <2>3, NoSweepPrune
<1>11. QED
  BY <1>1, <1>2, <1>3, <1>4, <1>5, <1>6, <1>7, <1>8, <1>9, <1>10
  DEF Next, ReconcileMissing, People, Outside, ScanFile, ScanHash, ScanTouch, ScanCreate,
      ScanLoseRace, ScanAttach, ScanStat, ForgetMissingFile, EditBook, Import, WriteFile,
      RemoveFile, GracePasses, ScanFails

\* What the sweep deletes by id is, at the time of the DELETE, still marked
\* and past its grace, whatever was indexed, forgotten or imported since the
\* row was condemned.
THEOREM PruneOverdue == Spec => []PruneListOverdue
<1>1. Init => PruneInv
  BY DEF Init, NoSweep, PruneInv
<1>2. TypeOK /\ TypeOK' /\ TablesInv /\ PruneInv /\ [Next]_vars => PruneInv'
  BY PruneStep DEF vars, PruneInv
<1>3. PruneInv => PruneListOverdue
  BY DEF PruneInv, PruneListOverdue
<1>4. QED
  BY <1>1, <1>2, <1>3, TypeCorrect, TablesWhole, PTL DEF Spec

-----------------------------------------------------------------------------
\* Who may write a row, and what: it stays as it was but for its mark, or
\* scanFile refreshes its stat, creates its book or attaches it to one.
KeptRow(g) ==
  \E f \in files : SameRow(g, f) /\ f.stamp = g.stamp

TouchedRow(g, a) ==
  /\ ScanTouch(a) /\ g.id = scan[a].id /\ g.stamp = scan[a].stamp
  /\ \E f \in files : SameRow(g, f)

CreatedRow(g, a) ==
  ScanCreate(a) /\ g.path = scan[a].path /\ g.stamp = scan[a].stamp /\ g.book = nextBook

AttachedRow(g, a) ==
  ScanAttach(a) /\ g.path = scan[a].path /\ g.stamp = scan[a].stamp /\ g.book = scan[a].book

LEMMA RowOrigin ==
  ASSUME TypeOK, Next
  PROVE  \A g \in files' : \/ KeptRow(g)
                           \/ \E a \in Actors : \/ TouchedRow(g, a) \/ CreatedRow(g, a)
                                                \/ AttachedRow(g, a)
<1> USE DEF world, tables
<1>0. files \in SUBSET BookFiles /\ nextFile \in Nat /\ nextBook \in Nat
  BY DEF TypeOK
<1>1. CASE files' \subseteq files
  BY <1>1 DEF KeptRow, SameRow
<1>2. ASSUME NEW a \in Actors, ScanTouch(a)
      PROVE  \A g \in files' : KeptRow(g) \/ TouchedRow(g, a)
  <2>1. scan[a].stamp \in Nat /\ scan[a].id \in Nat
    BY <1>2, ScanFields DEF ScanTouch, TypeOK
  <2>2. files' = UpdateBookFileStat(files, scan[a].id, scan[a].stamp)
    BY <1>2 DEF ScanTouch
  <2>3. \A g \in files' : \E f \in files :
          /\ SameRow(g, f)
          /\ IF f.id = scan[a].id THEN g.stamp = scan[a].stamp ELSE g.stamp = f.stamp
    BY <1>0, <2>1, <2>2, StatRewrites
  <2>4. QED
    BY <1>2, <2>3 DEF KeptRow, TouchedRow, SameRow
<1>3. ASSUME NEW a \in Actors, ScanCreate(a)
      PROVE  \A g \in files' : KeptRow(g) \/ CreatedRow(g, a)
  <2>1. scan[a].path \in Paths /\ scan[a].stamp \in Nat
    BY <1>3, ScanFields DEF ScanCreate, TypeOK
  <2>2. files' = UpsertBookFile(files, nextFile, nextBook, scan[a].path, scan[a].stamp)
    BY <1>3 DEF ScanCreate
  <2>3. QED
    BY <1>0, <1>3, <2>1, <2>2, UpsertWrites DEF KeptRow, CreatedRow, SameRow
<1>4. ASSUME NEW a \in Actors, ScanAttach(a)
      PROVE  \A g \in files' : KeptRow(g) \/ AttachedRow(g, a)
  <2>1. scan[a].path \in Paths /\ scan[a].stamp \in Nat /\ scan[a].book \in Nat
    BY <1>4, ScanFields DEF ScanAttach, TypeOK
  <2>2. files' = files \/
        files' = UpsertBookFile(files, nextFile, scan[a].book, scan[a].path, scan[a].stamp)
    BY <1>4 DEF ScanAttach
  <2>3. QED
    BY <1>0, <1>1, <1>4, <2>1, <2>2, UpsertWrites DEF KeptRow, AttachedRow, SameRow
<1>5. CASE MarkMissing
  BY <1>5, MarkRewrites DEF MarkMissing, TypeOK, KeptRow
<1>6. CASE ClearMissing
  BY <1>6, ClearRewrites DEF ClearMissing, TypeOK, KeptRow
<1>7. CASE GracePasses
  BY <1>7, GraceRewrites DEF TypeOK, KeptRow
<1>8. CASE PruneMissing \/ \E f \in files : ForgetMissingFile(f)
  BY <1>1, <1>8 DEF PruneMissing, ForgetMissingFile, DeleteFiles
<1>9. CASE \E a \in Actors : ScanFile(a)
  BY <1>1, <1>2, <1>3, <1>4, <1>9 DEF ScanFile, ScanHash, ScanLoseRace
<1>10. QED
  BY <1>1, <1>5, <1>6, <1>7, <1>8, <1>9
  DEF Next, Walk, ReconcileMissing, People, Outside, StartSweep, ListDir, ListEmptyDir,
      SkipDir, PassLink, VisitFile, Reconcile, LstatRow, ScanStat, Import, WriteFile,
      RemoveFile, ChangeDir, Crash, ScanFails, ReconcileFails, EditBook

\* A book keeps its id and hash; a new one has a new id and the hash scanFile
\* computed.
LEMMA BookOrigin ==
  ASSUME TypeOK, Next
  PROVE  /\ nextBook' \in {nextBook, nextBook + 1}
         /\ \A c \in books' :
              \/ \E b \in books : b.id = c.id /\ b.hash = c.hash
              \/ /\ c.id = nextBook /\ nextBook' = nextBook + 1
                 /\ \E a \in Actors : ScanCreate(a) /\ c.hash = scan[a].hash
<1> USE DEF world, tables
<1>1. CASE books' \subseteq books /\ nextBook' = nextBook
  BY <1>1
<1>2. ASSUME NEW a \in Actors, ScanCreate(a)
      PROVE  /\ nextBook' = nextBook + 1
             /\ \A c \in books' : c \in books \/ (c.id = nextBook /\ c.hash = scan[a].hash)
  BY <1>2 DEF ScanCreate, BooksAfterCreate, PruneOrphans
<1>3. ASSUME NEW b \in books, EditBook(b)
      PROVE  /\ nextBook' = nextBook
             /\ \A c \in books' : \E d \in books : d.id = c.id /\ d.hash = c.hash
  <2>1. [b EXCEPT !.edited = TRUE].id = b.id /\ [b EXCEPT !.edited = TRUE].hash = b.hash
    BY DEF TypeOK, Books
  <2>2. QED
    BY <1>3, <2>1 DEF EditBook
<1>4. CASE PruneMissing \/ \E f \in files : ForgetMissingFile(f)
  BY <1>1, <1>4 DEF PruneMissing, ForgetMissingFile, PruneOrphans
<1>5. CASE \E a \in Actors : ScanFile(a)
  BY <1>1, <1>2, <1>5
  DEF ScanFile, ScanHash, ScanLoseRace, ScanTouch, ScanAttach, BooksAfterReassign, PruneOrphans
<1>6. QED
  BY <1>1, <1>3, <1>4, <1>5
  DEF Next, Walk, ReconcileMissing, People, Outside, StartSweep, ListDir, ListEmptyDir,
      SkipDir, PassLink, VisitFile, Reconcile, LstatRow, ScanStat, Import, WriteFile,
      RemoveFile, ChangeDir, Crash, ScanFails, ReconcileFails, MarkMissing, ClearMissing, GracePasses

\* What the outside world or the importer does to a file ends in no file or
\* in a size and mtime no one has seen.
LEMMA FileOrigin ==
  ASSUME TypeOK, Next
  PROVE  /\ clock' \in {clock, clock + 1}
         /\ \A p \in Paths : \/ disk'[p] = disk[p] /\ mtime'[p] = mtime[p]
                             \/ clock' = clock + 1 /\ disk'[p] = NoFile /\ mtime'[p] = 0
                             \/ clock' = clock + 1 /\ mtime'[p] = clock + 1
BY DEF Next, Walk, ReconcileMissing, People, Outside, StartSweep, ListDir, ListEmptyDir,
       SkipDir, PassLink, VisitFile, Reconcile, LstatRow, ScanStat, Import, WriteFile,
       RemoveFile, ChangeDir, Crash, ScanFails, ReconcileFails, MarkMissing, ClearMissing, PruneMissing, GracePasses,
       ScanFile, ScanHash, ScanTouch, ScanCreate, ScanLoseRace, ScanAttach,
       ForgetMissingFile, EditBook, world, tables, TypeOK

\* Where scan[a] goes in a step.
Starts(a, p) ==
  /\ scan'[a] = AfterStat(p) /\ UNCHANGED <<world, tables>>
  /\ a = "importer" => scan[a].pc = "stat" /\ p = scan[a].path

Publishes(a, p) ==
  a = "importer" /\ DirOf[p] = Root /\ scan'[a] = [pc |-> "stat", path |-> p]

Hashes(a) == ScanHash(a) /\ scan'[a] \in AfterHash(scan[a])

Loses(a) ==
  /\ scan[a].pc = "create" /\ UNCHANGED <<world, tables>>
  /\ \E b \in books :
       /\ b.hash = scan[a].hash
       /\ scan'[a] = [pc |-> "raced", path |-> scan[a].path,
                      stamp |-> scan[a].stamp, book |-> b.id]

LEMMA JobOrigin ==
  ASSUME TypeOK, Next, NEW a \in Actors, scan'[a] # scan[a], scan'[a] # Idle
  PROVE  Hashes(a) \/ Loses(a) \/ \E p \in Paths : Starts(a, p) \/ Publishes(a, p)
<1>1. ASSUME NEW e \in Actors, ScanFile(e) PROVE Hashes(a) \/ Loses(a)
  BY <1>1 DEF ScanFile, ScanHash, ScanTouch, ScanCreate, ScanLoseRace, ScanAttach,
              Hashes, Loses, BookWithHash, TypeOK
<1>2. CASE ScanStat
  <2>1. a = "importer" /\ scan[a].path \in Paths
    BY <1>2, ScanFields DEF ScanStat, TypeOK
  <2>2. QED
    BY <1>2, <2>1 DEF ScanStat, Starts, TypeOK
<1>3. ASSUME NEW p \in Paths, VisitFile(p) PROVE Starts(a, p)
  BY <1>3 DEF VisitFile, Starts, TypeOK
<1>4. ASSUME NEW p \in Paths, NEW c \in Contents, Import(p, c) PROVE Publishes(a, p)
  BY <1>4 DEF Import, Publishes, TypeOK
<1>5. CASE UNCHANGED scan \/ Crash \/ \E e \in Actors : ScanFails(e)
  BY <1>5 DEF Crash, ScanFails, TypeOK
<1>6. QED
  BY <1>1, <1>2, <1>3, <1>4, <1>5
  DEF Next, Walk, ReconcileMissing, People, Outside, StartSweep, ListDir, ListEmptyDir,
      SkipDir, PassLink, Reconcile, LstatRow, WriteFile, RemoveFile, ChangeDir,
      ReconcileFails, MarkMissing, ClearMissing, PruneMissing, GracePasses, ForgetMissingFile, EditBook

-----------------------------------------------------------------------------
\* Fields of a step that starts or goes on.
LEMMA StartFields ==
  ASSUME NEW a \in Actors, NEW p \in Paths, Starts(a, p), scan'[a] # Idle
  PROVE  /\ scan'[a].pc = "hash" /\ scan'[a].path = p
         /\ scan'[a].stamp = mtime[p] /\ scan'[a].row = FileAt(files, p)
         /\ a = "importer" => p = scan[a].path /\ scan[a].pc = "stat"
         /\ UNCHANGED <<world, tables>>
BY DEF Starts, AfterStat

LEMMA OtherFields ==
  ASSUME NEW a \in Actors
  PROVE  /\ Loses(a) => scan'[a].pc = "raced"
         /\ \A p \in Paths : Publishes(a, p) => scan'[a].pc = "stat"
<1>1. ASSUME Loses(a) PROVE scan'[a].pc = "raced"
  <2>1. PICK b \in books : scan'[a] = [pc |-> "raced", path |-> scan[a].path,
                                       stamp |-> scan[a].stamp, book |-> b.id]
    BY <1>1 DEF Loses
  <2>2. QED
    BY <2>1
<1>2. ASSUME NEW p \in Paths, Publishes(a, p) PROVE scan'[a].pc = "stat"
  BY <1>2 DEF Publishes
<1>3. QED
  BY <1>1, <1>2

LEMMA HashFields ==
  ASSUME NEW a \in Actors, Hashes(a), scan'[a] # Idle
  PROVE  /\ scan'[a].pc \in {"create", "touch", "attach"} /\ scan[a].pc = "hash"
         /\ scan'[a].path = scan[a].path /\ scan'[a].stamp = scan[a].stamp
         /\ UNCHANGED <<world, tables>>
         /\ scan'[a].pc = "create" => scan'[a].hash = disk[scan[a].path]
         /\ scan'[a].pc = "touch" =>
              \E f \in scan[a].row, b \in books :
                scan'[a].id = f.id /\ f.book = b.id /\ b.hash = disk[scan[a].path]
         /\ scan'[a].pc = "attach" =>
              \E b \in books : scan'[a].book = b.id /\ b.hash = disk[scan[a].path]
<1> DEFINE s == scan[a]
           t == scan'[a]
<1>1. \/ t = [pc |-> "create", path |-> s.path, stamp |-> s.stamp, hash |-> disk[s.path]]
      \/ \E f \in s.row, b \in books :
           /\ t = [pc |-> "touch", path |-> s.path, stamp |-> s.stamp, id |-> f.id]
           /\ f.book = b.id /\ b.hash = disk[s.path]
      \/ \E b \in books :
           /\ t = [pc |-> "attach", path |-> s.path, stamp |-> s.stamp, book |-> b.id]
           /\ b.hash = disk[s.path]
  BY AfterHashCases DEF Hashes
<1>2. s.pc = "hash" /\ UNCHANGED <<world, tables>>
  BY DEF Hashes, ScanHash
<1>3. CASE t = [pc |-> "create", path |-> s.path, stamp |-> s.stamp, hash |-> disk[s.path]]
  BY <1>2, <1>3
<1>4. CASE \E f \in s.row, b \in books :
             /\ t = [pc |-> "touch", path |-> s.path, stamp |-> s.stamp, id |-> f.id]
             /\ f.book = b.id /\ b.hash = disk[s.path]
  BY <1>2, <1>4
<1>5. CASE \E b \in books :
             /\ t = [pc |-> "attach", path |-> s.path, stamp |-> s.stamp, book |-> b.id]
             /\ b.hash = disk[s.path]
  BY <1>2, <1>5
<1>6. QED
  BY <1>1, <1>3, <1>4, <1>5

-----------------------------------------------------------------------------
LEMMA StampStep ==
  ASSUME TypeOK, StampInv, Next
  PROVE  StampInv'
<1>0. /\ clock \in Nat /\ \A p \in Paths : mtime[p] \in Nat
      /\ \A f \in files : f.stamp \in Nat
      /\ \A a \in Actors : scan[a].pc \notin {"idle", "stat"} => scan[a].stamp \in Nat
      /\ clock' \in {clock, clock + 1}
  BY MaxEventsAssumption, ScanFields, FileOrigin DEF TypeOK, BookFiles
<1>1. ASSUME NEW p \in Paths PROVE mtime'[p] <= clock'
  BY <1>0, FileOrigin DEF StampInv
<1>2. ASSUME NEW g \in files' PROVE g.stamp <= clock'
  <2>1. \/ \E f \in files : g.stamp = f.stamp
        \/ \E a \in Actors : scan[a].pc \notin {"idle", "stat"} /\ g.stamp = scan[a].stamp
    BY RowOrigin DEF KeptRow, TouchedRow, CreatedRow, AttachedRow, ScanTouch, ScanCreate,
                     ScanAttach
  <2>2. QED
    BY <1>0, <2>1 DEF StampInv
<1>3. ASSUME NEW a \in Actors, scan'[a].pc \notin {"idle", "stat"}
      PROVE  scan'[a].stamp <= clock'
  <2>1. CASE scan'[a] = scan[a]
    BY <1>0, <1>3, <2>1 DEF StampInv
  <2>2. CASE Hashes(a)
    BY <1>0, <1>3, <2>2, HashFields DEF StampInv, Idle
  <2>3. CASE Loses(a)
    BY <1>0, <2>3 DEF StampInv, Loses
  <2>4. ASSUME NEW p \in Paths, Starts(a, p) PROVE scan'[a].stamp <= clock'
    BY <1>0, <1>3, <2>4, StartFields DEF StampInv, Idle
  <2>5. ~\E p \in Paths : Publishes(a, p)
    BY <1>3, OtherFields
  <2>6. scan'[a] # Idle
    BY <1>3 DEF Idle
  <2>7. QED
    BY <1>3, <2>1, <2>2, <2>3, <2>4, <2>5, <2>6, JobOrigin
<1>4. QED
  BY <1>1, <1>2, <1>3 DEF StampInv

LEMMA PlaceStep ==
  ASSUME TypeOK, TablesInv, PlaceInv, Next
  PROVE  PlaceInv'
<1>0. /\ nextFile \in Nat /\ nextFile' \in {nextFile, nextFile + 1}
      /\ \A f \in files : f.id \in Nat /\ f.id < nextFile
      /\ "importer" \in Actors
  BY RowsStep DEF TypeOK, TablesInv, Fresh, BookFiles, Actors
<1>1. \A g \in files' : g.id = nextFile \/ \E f \in files : f.id = g.id /\ f.path = g.path
  BY RowsStep DEF Descends
<1>2. ASSUME scan'["importer"].pc # "idle" PROVE DirOf[scan'["importer"].path] = Root
  <2>1. scan'["importer"] # Idle
    BY <1>2 DEF Idle
  <2>2. CASE scan'["importer"] = scan["importer"]
    BY <1>2, <2>2 DEF PlaceInv
  <2>3. CASE Hashes("importer")
    BY <1>0, <2>1, <2>3, HashFields DEF PlaceInv
  <2>4. CASE Loses("importer")
    BY <1>0, <2>4 DEF Loses, PlaceInv
  <2>5. ASSUME NEW p \in Paths, Starts("importer", p) \/ Publishes("importer", p)
        PROVE  DirOf[scan'["importer"].path] = Root
    BY <1>0, <2>1, <2>5, StartFields DEF Starts, Publishes, PlaceInv
  <2>6. QED
    BY <1>0, <2>1, <2>2, <2>3, <2>4, <2>5, JobOrigin
<1>3. ASSUME NEW a \in Actors, scan'[a].pc = "hash", NEW f \in scan'[a].row
      PROVE  /\ f.id < nextFile'
             /\ \A g \in files' : g.id = f.id => g.path = scan'[a].path
  <2>1. scan'[a] # Idle
    BY <1>3 DEF Idle
  <2>2. CASE scan'[a] = scan[a]
    <3>1. f.id \in Nat
      BY <1>3, <2>2, ScanFields DEF TypeOK, BookFiles
    <3>2. f.id < nextFile /\ \A g \in files : g.id = f.id => g.path = scan[a].path
      BY <1>3, <2>2 DEF PlaceInv
    <3>3. QED
      BY <1>0, <1>1, <2>2, <3>1, <3>2
  <2>3. ASSUME NEW p \in Paths, Starts(a, p)
        PROVE  /\ f.id < nextFile'
               /\ \A g \in files' : g.id = f.id => g.path = scan'[a].path
    <3>1. scan'[a].path = p /\ scan'[a].row = FileAt(files, p) /\ UNCHANGED tables
      BY <2>1, <2>3, StartFields
    <3>2. f \in files /\ f.path = p
      BY <1>3, <3>1 DEF FileAt
    <3>3. QED
      BY <1>0, <3>1, <3>2 DEF tables, TablesInv, OneRow
  <2>4. ~Hashes(a) /\ ~Loses(a) /\ ~\E p \in Paths : Publishes(a, p)
    BY <1>3, <2>1, HashFields, OtherFields
  <2>5. QED
    BY <2>1, <2>2, <2>3, <2>4, JobOrigin
<1>4. ASSUME NEW a \in Actors, scan'[a].pc = "touch"
      PROVE  /\ scan'[a].id < nextFile'
             /\ \A g \in files' : g.id = scan'[a].id => g.path = scan'[a].path
  <2>1. scan'[a] # Idle
    BY <1>4 DEF Idle
  <2>2. CASE scan'[a] = scan[a]
    <3>1. scan[a].id \in Nat
      BY <1>4, <2>2, ScanFields DEF TypeOK
    <3>2. scan[a].id < nextFile /\ \A g \in files : g.id = scan[a].id => g.path = scan[a].path
      BY <1>4, <2>2 DEF PlaceInv
    <3>3. QED
      BY <1>0, <1>1, <2>2, <3>1, <3>2
  <2>3. CASE Hashes(a)
    <3>1. /\ scan[a].pc = "hash" /\ scan'[a].path = scan[a].path /\ UNCHANGED tables
          /\ \E f \in scan[a].row : scan'[a].id = f.id
      BY <1>4, <2>1, <2>3, HashFields
    <3>2. QED
      BY <3>1 DEF tables, PlaceInv
  <2>4. ASSUME NEW p \in Paths, Starts(a, p) PROVE FALSE
    BY <1>4, <2>1, <2>4, StartFields
  <2>5. ~Loses(a) /\ ~\E p \in Paths : Publishes(a, p)
    BY <1>4, OtherFields
  <2>6. QED
    BY <2>1, <2>2, <2>3, <2>4, <2>5, JobOrigin
<1>5. QED
  BY <1>2, <1>3, <1>4 DEF PlaceInv

\* A true claim about a content seen under an old stat stays true: a file
\* that changes gets a stat of its own.
LEMMA TrueKept ==
  ASSUME TypeOK, Next, NEW p \in Paths, NEW s \in Nat, NEW h,
         s <= clock, TrueOf(p, s, h)
  PROVE  TrueOf(p, s, h)'
<1>1. \/ disk'[p] = disk[p] /\ mtime'[p] = mtime[p]
      \/ disk'[p] = NoFile
      \/ mtime'[p] = clock + 1
  BY FileOrigin
<1>2. clock \in Nat
  BY MaxEventsAssumption DEF TypeOK
<1>3. QED
  BY <1>1, <1>2 DEF TrueOf

LEMMA NamesKept ==
  ASSUME TypeOK, TablesInv, Next, NEW p \in Paths, NEW s \in Nat, NEW i \in Nat,
         s <= clock, i < nextBook, Names(p, s, i)
  PROVE  Names(p, s, i)'
<1>1. SUFFICES ASSUME NEW c \in books', c.id = i
               PROVE  TrueOf(p, s, c.hash)'
  BY DEF Names
<1>2. nextBook \in Nat
  BY DEF TypeOK
<1>3. PICK b \in books : b.id = i /\ b.hash = c.hash
  BY <1>1, <1>2, BookOrigin
<1>4. TrueOf(p, s, c.hash)
  BY <1>3 DEF Names
<1>5. QED
  BY <1>4, TrueKept

LEMMA JobStep ==
  ASSUME TypeOK, TypeOK', TablesInv, CheapInv, Next
  PROVE  JobInv'
<1>0. PICK j, k : j = scan["sweep"] /\ k = scan'["sweep"]
  OBVIOUS
<1>1. /\ "sweep" \in Actors /\ j \in Scans /\ k \in Scans
      /\ StampInv /\ PlaceInv /\ JobTrue(j)
      /\ nextBook \in Nat /\ nextBook' \in {nextBook, nextBook + 1}
      /\ nextFile \in Nat
  BY <1>0, BookOrigin DEF TypeOK, Actors, CheapInv, JobInv
<1>2. SUFFICES ASSUME k # Idle, DirOf[k.path] # Root
               PROVE  JobTrue(k)'
  <2>1. k = Idle \/ DirOf[k.path] = Root => JobTrue(k)'
    BY DEF JobTrue, Idle
  <2>2. QED
    BY <1>0, <1>2, <2>1 DEF JobInv
<1>3. CASE k = j
  <2>1. k.pc # "idle" /\ k.path \in Paths
    BY <1>1, <1>2, ScanFields
  <2>2. k.pc # "stat" => k.stamp \in Nat /\ k.stamp <= clock
    BY <1>0, <1>1, <1>3, <2>1, ScanFields DEF StampInv
  <2>3. ASSUME NEW g \in files', g.path = k.path PROVE \E f \in files : SameRow(g, f)
    <3>1. ASSUME NEW a \in Actors, CreatedRow(g, a) \/ AttachedRow(g, a) PROVE FALSE
      <4>1. scan'[a] = Idle
        BY <3>1 DEF CreatedRow, AttachedRow, ScanCreate, ScanAttach, TypeOK
      <4>2. a = "importer"
        BY <1>0, <1>2, <4>1 DEF Actors
      <4>3. DirOf[g.path] = Root
        BY <1>1, <3>1, <4>2 DEF PlaceInv, CreatedRow, AttachedRow, ScanCreate, ScanAttach
      <4>4. QED
        BY <1>2, <2>3, <4>3
    <3>2. QED
      BY <3>1, RowOrigin DEF KeptRow, TouchedRow
  <2>4. \A g \in files' : g.id = nextFile \/ \E f \in files : f.id = g.id /\ f.path = g.path
    BY RowsStep DEF Descends
  <2>5. \A f \in files : f.id \in Nat /\ f.book \in Nat /\ f.book < nextBook
    BY <1>1 DEF TypeOK, TablesInv, Fresh, Linked, BookFiles
  <2>6. ASSUME k.pc = "hash", NEW f \in k.row, NEW g \in files', g.id = f.id
        PROVE  g.book = f.book
    <3>1. f.id \in Nat /\ f.id < nextFile /\ \A e \in files : e.id = f.id => e.path = k.path
      BY <1>0, <1>1, <1>3, <2>6, ScanFields DEF PlaceInv, BookFiles
    <3>2. g.path = k.path
      BY <1>1, <2>4, <2>6, <3>1
    <3>3. PICK e \in files : SameRow(g, e)
      BY <2>3, <3>2
    <3>4. QED
      BY <1>1, <1>2, <1>3, <2>1, <2>6, <3>3 DEF SameRow, JobTrue
  <2>7. ASSUME k.pc = "touch", NEW g \in files', g.id = k.id
        PROVE  Names(k.path, k.stamp, g.book)'
    <3>1. k.id \in Nat /\ k.id < nextFile /\ \A e \in files : e.id = k.id => e.path = k.path
      BY <1>0, <1>1, <1>3, <2>7, ScanFields DEF PlaceInv
    <3>2. g.path = k.path
      BY <1>1, <2>4, <2>7, <3>1
    <3>3. PICK f \in files : SameRow(g, f)
      BY <2>3, <3>2
    <3>4. Names(k.path, k.stamp, f.book)
      BY <1>1, <1>2, <1>3, <2>1, <2>7, <3>3 DEF SameRow, JobTrue
    <3>5. Names(k.path, k.stamp, f.book)'
      BY <2>1, <2>2, <2>5, <2>7, <3>4, NamesKept
    <3>6. QED
      BY <3>3, <3>5 DEF SameRow
  <2>8. ASSUME k.pc = "create" PROVE TrueOf(k.path, k.stamp, k.hash)'
    <3>1. TrueOf(k.path, k.stamp, k.hash)
      BY <1>1, <1>2, <1>3, <2>1, <2>8 DEF JobTrue
    <3>2. QED
      BY <2>1, <2>2, <2>8, <3>1, TrueKept
  <2>9. ASSUME k.pc \in {"attach", "raced"}
        PROVE  k.book < nextBook' /\ Names(k.path, k.stamp, k.book)'
    <3>1. k.book \in Nat /\ k.book < nextBook /\ Names(k.path, k.stamp, k.book)
      BY <1>1, <1>2, <1>3, <2>1, <2>9, ScanFields DEF JobTrue
    <3>2. Names(k.path, k.stamp, k.book)'
      BY <2>1, <2>2, <2>9, <3>1, NamesKept
    <3>3. QED
      BY <1>1, <3>1, <3>2
  <2>10. QED
    BY <2>6, <2>7, <2>8, <2>9 DEF JobTrue
<1>4. CASE Hashes("sweep")
  <2>1. /\ k.pc \in {"create", "touch", "attach"} /\ j.pc = "hash"
        /\ k.path = j.path /\ k.stamp = j.stamp /\ UNCHANGED <<world, tables>>
    BY <1>0, <1>1, <1>2, <1>4, HashFields
  <2>2. k.path \in Paths /\ \A b \in books : b.id \in Nat /\ b.id < nextBook
    BY <1>1, <1>2, <2>1, ScanFields DEF TypeOK, TablesInv, Fresh, Books
  <2>3. UNCHANGED <<disk, mtime, files, books, nextBook>>
    BY <2>1 DEF world, tables
  <2>4. ASSUME NEW b \in books, b.hash = disk[k.path] PROVE Names(k.path, k.stamp, b.id)'
    <3>1. \A c \in books : c.id = b.id => c = b
      BY DEF TablesInv, OneBook
    <3>2. QED
      BY <2>3, <2>4, <3>1 DEF Names, TrueOf
  <2>5. ASSUME k.pc = "touch", NEW g \in files', g.id = k.id
        PROVE  Names(k.path, k.stamp, g.book)'
    <3>1. PICK f \in j.row, b \in books : k.id = f.id /\ f.book = b.id /\ b.hash = disk[j.path]
      BY <1>0, <1>1, <1>2, <1>4, <2>5, HashFields
    <3>2. g.book = f.book
      BY <1>1, <1>2, <2>1, <2>3, <2>5, <3>1 DEF JobTrue
    <3>3. Names(k.path, k.stamp, b.id)'
      BY <2>1, <2>4, <3>1
    <3>4. QED
      BY <3>1, <3>2, <3>3
  <2>6. ASSUME k.pc = "create" PROVE TrueOf(k.path, k.stamp, k.hash)'
    <3>1. k.hash = disk[j.path]
      BY <1>0, <1>1, <1>2, <1>4, <2>6, HashFields
    <3>2. QED
      BY <2>1, <2>3, <3>1 DEF TrueOf
  <2>7. ASSUME k.pc = "attach" PROVE k.book < nextBook' /\ Names(k.path, k.stamp, k.book)'
    <3>1. PICK b \in books : k.book = b.id /\ b.hash = disk[j.path]
      BY <1>0, <1>1, <1>2, <1>4, <2>7, HashFields
    <3>2. Names(k.path, k.stamp, b.id)'
      BY <2>1, <2>4, <3>1
    <3>3. QED
      BY <2>2, <2>3, <3>1, <3>2
  <2>8. QED
    BY <2>1, <2>5, <2>6, <2>7 DEF JobTrue
<1>5. CASE Loses("sweep")
  <2>1. PICK b \in books :
          /\ b.hash = j.hash /\ j.pc = "create"
          /\ k = [pc |-> "raced", path |-> j.path, stamp |-> j.stamp, book |-> b.id]
          /\ UNCHANGED <<disk, mtime, books, nextBook>>
    BY <1>0, <1>5 DEF Loses, world, tables
  <2>2. k.pc = "raced" /\ k.path = j.path /\ k.stamp = j.stamp /\ k.book = b.id
    BY <2>1
  <2>3. TrueOf(k.path, k.stamp, b.hash)
    BY <1>1, <1>2, <2>1, <2>2 DEF JobTrue
  <2>4. b.id < nextBook' /\ \A c \in books : c.id = b.id => c = b
    BY <2>1 DEF TablesInv, Fresh, OneBook
  <2>5. Names(k.path, k.stamp, b.id)'
    BY <2>1, <2>3, <2>4 DEF Names, TrueOf
  <2>6. QED
    BY <2>2, <2>4, <2>5 DEF JobTrue
<1>6. ASSUME NEW p \in Paths, Starts("sweep", p) PROVE JobTrue(k)'
  <2>1. k.pc = "hash" /\ k.row = FileAt(files, p) /\ files' = files
    BY <1>0, <1>1, <1>2, <1>6, StartFields DEF tables
  <2>2. QED
    BY <2>1 DEF JobTrue, FileAt, TablesInv, OneRow
<1>7. QED
  BY <1>0, <1>1, <1>2, <1>3, <1>4, <1>5, <1>6, JobOrigin DEF Publishes

LEMMA RowStep ==
  ASSUME TypeOK, TypeOK', TablesInv, CheapInv, Next
  PROVE  RowInv'
<1>1. SUFFICES ASSUME NEW g \in files', DirOf[g.path] # Root
               PROVE  Names(g.path, g.stamp, g.book)'
  BY DEF RowInv
<1>2. /\ g.path \in Paths /\ g.stamp \in Nat /\ g.book \in Nat
      /\ nextBook \in Nat /\ clock \in Nat
  BY MaxEventsAssumption DEF TypeOK, BookFiles
<1>3. CASE KeptRow(g)
  <2>1. PICK f \in files : SameRow(g, f) /\ f.stamp = g.stamp
    BY <1>3 DEF KeptRow
  <2>2. Names(g.path, g.stamp, g.book) /\ g.stamp <= clock
    BY <1>1, <2>1 DEF SameRow, CheapInv, RowInv, StampInv
  <2>3. g.book < nextBook
    BY <2>1 DEF SameRow, TablesInv, Linked, Fresh
  <2>4. QED
    BY <1>2, <2>2, <2>3, NamesKept
<1>4. ASSUME NEW a \in Actors, TouchedRow(g, a) PROVE Names(g.path, g.stamp, g.book)'
  <2>1. PICK f \in files : SameRow(g, f)
    BY <1>4 DEF TouchedRow
  <2>2. scan[a].pc = "touch" /\ g.id = scan[a].id /\ g.stamp = scan[a].stamp
    BY <1>4 DEF TouchedRow, ScanTouch
  <2>3. g.path = scan[a].path
    BY <2>1, <2>2 DEF SameRow, CheapInv, PlaceInv
  <2>4. a = "sweep"
    BY <1>1, <2>2, <2>3 DEF Actors, CheapInv, PlaceInv
  <2>5. Names(g.path, g.stamp, f.book)
    BY <1>1, <2>1, <2>2, <2>3, <2>4 DEF SameRow, CheapInv, JobInv, JobTrue
  <2>6. g.stamp <= clock /\ g.book < nextBook /\ g.book = f.book
    BY <2>1, <2>2 DEF SameRow, CheapInv, StampInv, TablesInv, Linked, Fresh
  <2>7. QED
    BY <1>2, <2>5, <2>6, NamesKept
<1>5. ASSUME NEW a \in Actors, CreatedRow(g, a) PROVE Names(g.path, g.stamp, g.book)'
  <2>1. /\ scan[a].pc = "create" /\ g.path = scan[a].path /\ g.stamp = scan[a].stamp
        /\ g.book = nextBook /\ UNCHANGED <<disk, mtime>>
        /\ books' = BooksAfterCreate(books, files', PreviousOwner(files, scan[a].path),
                                     nextBook, scan[a].hash)
    BY <1>5 DEF CreatedRow, ScanCreate, world
  <2>2. a = "sweep"
    BY <1>1, <2>1 DEF Actors, CheapInv, PlaceInv
  <2>3. TrueOf(g.path, g.stamp, scan[a].hash)
    BY <1>1, <2>1, <2>2 DEF CheapInv, JobInv, JobTrue
  <2>4. \A c \in books' : c.id = nextBook => c.hash = scan[a].hash
    BY <2>1, FreshIds DEF BooksAfterCreate, PruneOrphans, BookIds
  <2>5. QED
    BY <2>1, <2>3, <2>4 DEF Names, TrueOf
<1>6. ASSUME NEW a \in Actors, AttachedRow(g, a) PROVE Names(g.path, g.stamp, g.book)'
  <2>1. /\ scan[a].pc \in {"attach", "raced"} /\ g.path = scan[a].path
        /\ g.stamp = scan[a].stamp /\ g.book = scan[a].book
    BY <1>6 DEF AttachedRow, ScanAttach
  <2>2. a = "sweep"
    BY <1>1, <2>1 DEF Actors, CheapInv, PlaceInv
  <2>3. g.book < nextBook /\ Names(g.path, g.stamp, g.book)
    BY <1>1, <2>1, <2>2 DEF CheapInv, JobInv, JobTrue
  <2>4. g.stamp <= clock
    BY <2>1 DEF CheapInv, StampInv
  <2>5. QED
    BY <1>2, <2>3, <2>4, NamesKept
<1>7. QED
  BY <1>3, <1>4, <1>5, <1>6, RowOrigin

\* Below the root the cheap check never skips a file whose content is not its
\* row's book's: a rewrite between the stat, the hash and the write is seen.
THEOREM CheapCheck == Spec => []CheapCheckSound
<1>1. Init => CheapInv
  BY DirAssumption DEF Init, CheapInv, StampInv, PlaceInv, JobInv, JobTrue, RowInv, Idle, Actors
<1>2. TypeOK /\ TypeOK' /\ TablesInv /\ CheapInv /\ [Next]_vars => CheapInv'
  <2>1. CASE Next
    BY <2>1, StampStep, PlaceStep, JobStep, RowStep DEF CheapInv
  <2>2. CASE UNCHANGED vars
    BY <2>2 DEF vars, CheapInv, StampInv, PlaceInv, JobInv, JobTrue, RowInv, Names, TrueOf
  <2>3. QED
    BY <2>1, <2>2
<1>3. TablesInv /\ CheapInv => CheapCheckSound
  BY DEF TablesInv, Linked, CheapInv, RowInv, Names, TrueOf, CheapCheckSound, SkipsOnlyTrueRow
<1>4. QED
  BY <1>1, <1>2, <1>3, TypeCorrect, TablesWhole, PTL DEF Spec

-----------------------------------------------------------------------------
\* A book that scanFile replaces because its only file has new bytes passes
\* what a person edited on it to its successor.
THEOREM RewriteKeeps == Spec => RewriteKeepsEdits
<1>1. TypeOK /\ TablesInv /\ [Next]_vars => [SucceededOn({"create"})]_vars
  <2>1. SUFFICES ASSUME TypeOK, TablesInv, Next,
                        NEW a \in Actors, NEW b \in books, scan[a].pc = "create",
                        scan'[a] = Idle, b.edited, b.id \notin {c.id : c \in books'}
                 PROVE  \E c \in books' : c.edited /\ c.id \notin BookIds(books)
    BY DEF SucceededOn, ScanEnds
  <2>2. CASE ScanCreate(a)
    <3> DEFINE gone == ReplacedBook(files', PreviousOwner(files, scan[a].path), nextBook)
               e == \E c \in books : c.id \in gone /\ c.edited
    <3>1. books' = PruneOrphans(books, files', gone) \cup
                     {[id |-> nextBook, hash |-> scan[a].hash, edited |-> e]}
      BY <2>2 DEF ScanCreate, BooksAfterCreate
    <3>2. b.id \in gone
      BY <2>1, <3>1 DEF PruneOrphans
    <3>3. e
      BY <2>1, <3>2
    <3> HIDE DEF e, gone
    <3>4. nextBook \notin BookIds(books)
      BY <2>1, FreshIds
    <3>5. [id |-> nextBook, hash |-> scan[a].hash, edited |-> e] \in books'
      BY <3>1
    <3>6. [id |-> nextBook, hash |-> scan[a].hash, edited |-> e].edited
      BY <3>3
    <3>7. QED
      BY <3>4, <3>5, <3>6
  <2>3. books \subseteq books' => FALSE
    BY <2>1
  <2>4. scan'[a] = scan[a] => FALSE
    BY <2>1 DEF Idle
  <2>5. ASSUME NEW d \in Actors, ScanFile(d), ~ScanCreate(a)
        PROVE  books \subseteq books' \/ scan'[a] = scan[a]
    BY <2>1, <2>5 DEF ScanFile, ScanHash, ScanTouch, ScanCreate, ScanLoseRace, ScanAttach,
                      tables, TypeOK
  <2>6. CASE UNCHANGED books \/ UNCHANGED scan
    BY <2>3, <2>4, <2>6
  <2>7. QED
    BY <2>1, <2>2, <2>3, <2>4, <2>5, <2>6
    DEF Next, Walk, ReconcileMissing, People, Outside, StartSweep, ListDir, ListEmptyDir,
        SkipDir, PassLink, VisitFile, Reconcile, LstatRow, ScanStat, Import, WriteFile,
        RemoveFile, ChangeDir, Crash, ScanFails, ReconcileFails, MarkMissing, ClearMissing, PruneMissing, GracePasses,
        ForgetMissingFile, EditBook, tables
<1>2. QED
  BY <1>1, TypeCorrect, TablesWhole, PTL DEF Spec, RewriteKeepsEdits
-----------------------------------------------------------------------------
(***************************************************************************)
(* VolumeLossPrunesNothing.  Of the directories that have not changed since *)
(* the sweep began, the invariant says what the walk has met: above what   *)
(* was listed everything could be listed, and a directory all of whose     *)
(* ancestors could be listed is still to come, or was listed, or is among  *)
(* those the sweep holds nothing against.  The rest is about rows: what is *)
(* condemned was outside the latter when it was looked for, and a row      *)
(* keeps its path for as long as it keeps its id.                          *)
(***************************************************************************)
Open(d) == \A e \in Ancestors(d) \cap sweep.steady : dirState[e] = "ok"

Due(d) ==
  /\ sweep.phase # "idle" /\ Ancestors(d) \subseteq sweep.steady
  /\ \A e \in Ancestors(d) \ {d} : dirState[e] = "ok"

Met(d) ==
  \/ dirState[d] \in {"ok", "offline"}
  \/ d \in sweep.skipped \cup sweep.linked
  \/ Ancestors(d) \cap sweep.dirs # {}

WalkInv ==
  /\ dirState[Root] # "linked"
  /\ \A d \in sweep.dirs \ {Root} : Open(Parent(d))
  /\ \A p \in sweep.seen : Open(DirOf[p])
  /\ \A d \in Dirs : Due(d) => Met(d)
  /\ sweep.phase = "check" => sweep.dirs = {} /\ sweep.seen # {}

Spared(p) == UnderAny(p, sweep.skipped)

CondemnedInv ==
  /\ \A f \in sweep.unseen : ~Spared(f.path)
  /\ \A f \in sweep.unseen, g \in files : f.id = g.id => f.path = g.path
  /\ \A g \in files : g.id \in sweep.prune => ~Spared(g.path) /\ ~Unconfirmed(g.path)

LEMMA Above ==
  ASSUME NEW d \in Dirs, d # Root
  PROVE  /\ Parent(d) \in Dirs /\ Parent(d) # d
         /\ Ancestors(Parent(d)) = Ancestors(d) \ {d}
BY DirAssumption DEF Parent, Ancestors

\* The next directory on the way down from e to d.
LEMMA Below ==
  ASSUME NEW d \in Dirs, NEW e \in Ancestors(d) \ {d}
  PROVE  Ancestors(d) \cap SubDirs(e) # {}
<1>1. d # Root  BY DirAssumption DEF Ancestors
<1>2. CASE e = Root
  <2>1. TopOf[d] \in Ancestors(d) \cap SubDirs(e)
    BY <1>1, <1>2, DirAssumption DEF Ancestors, SubDirs, Parent
  <2> QED  BY <2>1
<1>3. CASE e # Root
  <2>1. e = TopOf[d]  BY <1>3 DEF Ancestors
  <2>2. d \in Ancestors(d) \cap SubDirs(e)
    BY <1>1, <2>1 DEF Ancestors, SubDirs, Parent
  <2> QED  BY <2>2
<1> QED  BY <1>2, <1>3

\* An ancestor of all of Ancestors(d) is enough to know what blocks there.
LEMMA NothingBlocks ==
  ASSUME NEW d, \A e \in Ancestors(d) : dirState[e] = "ok"
  PROVE  Blocking(d) = {}
BY DEF Blocking

\* What the walk has met stands while it and the directories do.
LEMMA SameWalk ==
  ASSUME WalkInv, UNCHANGED dirState,
         sweep'.phase = sweep.phase, sweep'.dirs = sweep.dirs, sweep'.seen = sweep.seen,
         sweep'.skipped = sweep.skipped, sweep'.linked = sweep.linked,
         sweep'.steady = sweep.steady
  PROVE  WalkInv'
BY DEF WalkInv, Open, Due, Met

LEMMA NoWalk ==
  ASSUME WalkInv, UNCHANGED dirState, sweep' = NoSweep
  PROVE  WalkInv'
BY DEF WalkInv, NoSweep, Due

LEMMA ListStep ==
  ASSUME TypeOK, WalkInv, NEW d \in Dirs, ListDir(d)
  PROVE  WalkInv'
<1>1. /\ d \in sweep.dirs /\ sweep.phase = "walk" /\ dirState[d] = "ok"
  <2>1. d \in sweep.dirs \cup sweep.todo  BY DEF ListDir, Meets, Listed
  <2>2. sweep.todo \subseteq Paths  BY DEF TypeOK, Sweeps
  <2> QED  BY <2>1, <2>2, RankAssumption DEF ListDir, Meets
<1>2. /\ sweep'.phase = "walk" /\ sweep'.skipped = sweep.skipped /\ sweep'.linked = sweep.linked
      /\ sweep'.steady = sweep.steady
      /\ sweep'.dirs = (sweep.dirs \ {d}) \cup SubDirs(d)
      /\ sweep'.seen = sweep.seen \cup FilesIn(d)
      /\ dirState' = dirState
  BY <1>1 DEF ListDir, TypeOK, Sweeps, world
<1>3. Open(d)
  <2>1. CASE d = Root
    BY <1>1, <2>1, DirAssumption DEF Open, Ancestors
  <2>2. CASE d # Root
    <3>1. Open(Parent(d))  BY <1>1, <2>2 DEF WalkInv
    <3> QED  BY <1>1, <2>2, <3>1, Above DEF Open
  <2> QED  BY <2>1, <2>2
<1>4. \A e : Open(e)' <=> Open(e)  BY <1>2 DEF Open
<1>5. \A e \in sweep'.dirs \ {Root} : Open(Parent(e))
  BY <1>2, <1>3 DEF WalkInv, SubDirs
<1>6. \A p \in sweep'.seen : Open(DirOf[p])
  BY <1>2, <1>3 DEF WalkInv, FilesIn
<1>7. ASSUME NEW e \in Dirs, Due(e)' PROVE Met(e)'
  <2>1. Due(e)  BY <1>1, <1>2, <1>7 DEF Due
  <2>2. Met(e)  BY <2>1 DEF WalkInv
  <2>3. CASE d \notin Ancestors(e)
    BY <1>2, <2>2, <2>3 DEF Met
  <2>4. CASE d = e
    BY <1>1, <1>2, <2>4 DEF Met
  <2>5. CASE d \in Ancestors(e) \ {e}
    BY <1>2, <2>5, Below DEF Met
  <2> QED  BY <2>3, <2>4, <2>5
<1> QED  BY <1>2, <1>4, <1>5, <1>6, <1>7 DEF WalkInv

\* The walk comes to a directory it does not list.
LEMMA PassStep ==
  ASSUME TypeOK, WalkInv, NEW d \in Dirs, ListEmptyDir(d) \/ SkipDir(d) \/ PassLink(d)
  PROVE  WalkInv'
<1>1. sweep.phase = "walk" /\ dirState' = dirState
  BY DEF ListEmptyDir, SkipDir, PassLink, Meets, world
<1>2. CASE sweep' = NoSweep
  BY <1>1, <1>2, NoWalk
<1>3. CASE sweep' # NoSweep
  <2>1. /\ sweep'.phase = "walk" /\ sweep'.seen = sweep.seen /\ sweep'.steady = sweep.steady
        /\ sweep'.dirs = sweep.dirs \ {d}
        /\ sweep.skipped \subseteq sweep'.skipped /\ sweep.linked \subseteq sweep'.linked
    <3>1. CASE ListEmptyDir(d)  BY <1>1, <3>1 DEF ListEmptyDir, TypeOK, Sweeps
    <3>2. CASE SkipDir(d)  BY <1>1, <1>3, <3>2 DEF SkipDir, TypeOK, Sweeps
    <3>3. CASE PassLink(d)  BY <1>1, <3>3 DEF PassLink, TypeOK, Sweeps
    <3> QED  BY <3>1, <3>2, <3>3
  <2>2. \A e : Open(e)' <=> Open(e)  BY <1>1, <2>1 DEF Open
  <2>3. ASSUME NEW e \in Dirs, Due(e)' PROVE Met(e)'
    <3>1. Due(e)  BY <1>1, <2>1, <2>3 DEF Due
    <3>2. Met(e)  BY <3>1 DEF WalkInv
    <3>3. CASE d \notin Ancestors(e)
      BY <1>1, <2>1, <3>2, <3>3 DEF Met
    <3>4. CASE d \in Ancestors(e) \ {e}
      <4>1. e # Root  BY <3>4, DirAssumption DEF Ancestors
      <4>2. dirState[d] = "ok"  BY <3>1, <3>4 DEF Due
      <4>3. SkipDir(d) /\ d # Root /\ Blocking(Parent(d)) # {}
        BY <1>3, <4>2 DEF ListEmptyDir, SkipDir, PassLink
      <4>4. Ancestors(Parent(d)) \subseteq Ancestors(e) \ {e}
        BY <3>4, <4>1, <4>3, DirAssumption DEF Ancestors, Parent
      <4> QED  BY <3>1, <4>3, <4>4, NothingBlocks DEF Due
    <3>5. CASE d = e
      <4>1. CASE ListEmptyDir(d)
        BY <1>1, <3>5, <4>1 DEF ListEmptyDir, Met
      <4>2. CASE SkipDir(d)
        <5>1. sweep'.skipped = sweep.skipped \cup {d}
          BY <1>3, <4>2 DEF SkipDir, TypeOK, Sweeps
        <5> QED  BY <3>5, <5>1 DEF Met
      <4>3. CASE PassLink(d)
        <5>1. d # Root  BY <4>3 DEF PassLink, WalkInv
        <5>2. Blocking(Parent(d)) = {}
          BY <3>1, <3>5, <5>1, Above, NothingBlocks DEF Due
        <5>3. d \in sweep'.linked
          BY <4>3, <5>2 DEF PassLink, TypeOK, Sweeps
        <5> QED  BY <3>5, <5>3 DEF Met
      <4> QED  BY <4>1, <4>2, <4>3
    <3> QED  BY <3>3, <3>4, <3>5
  <2> QED  BY <1>1, <2>1, <2>2, <2>3 DEF WalkInv
<1> QED  BY <1>2, <1>3

LEMMA ChangeStep ==
  ASSUME TypeOK, WalkInv, NEW d \in Dirs, NEW s \in DirStates, ChangeDir(d, s)
  PROVE  WalkInv'
<1>1. /\ sweep'.phase = sweep.phase /\ sweep'.dirs = sweep.dirs /\ sweep'.seen = sweep.seen
      /\ sweep'.skipped = sweep.skipped /\ sweep'.linked = sweep.linked
      /\ sweep'.steady = sweep.steady \ {d}
  BY DEF ChangeDir, TypeOK, Sweeps
<1>2. \A e \in Dirs : e # d => dirState'[e] = dirState[e]
  BY DEF ChangeDir, TypeOK
<1>3. dirState'[Root] # "linked"
  BY <1>2, DirAssumption DEF ChangeDir, TypeOK, WalkInv
<1>4. sweep.steady \subseteq Dirs  BY DEF TypeOK, Sweeps
<1>5. \A e : Open(e) => Open(e)'
  BY <1>1, <1>2, <1>4 DEF Open
<1>6. ASSUME NEW e \in Dirs, Due(e)' PROVE Met(e)'
  <2>1. Ancestors(e) \subseteq sweep.steady \ {d}  BY <1>1, <1>6 DEF Due
  <2>2. \A g \in Ancestors(e) : dirState'[g] = dirState[g]
    BY <1>2, <1>4, <2>1
  <2>3. Due(e)  BY <1>1, <1>6, <2>1, <2>2 DEF Due
  <2>4. e \in Ancestors(e)  BY DEF Ancestors
  <2> QED  BY <1>1, <2>2, <2>3, <2>4 DEF WalkInv, Met
<1> QED  BY <1>1, <1>3, <1>5, <1>6 DEF WalkInv

LEMMA Lists ==
  ASSUME NEW f \in sweep.unseen, LstatRow(f)
  PROVE  \E ms, ps : /\ ps \subseteq {f.id} /\ (ps # {} => ~Unconfirmed(f.path))
                     /\ sweep' = Settle([sweep EXCEPT !.unseen = @ \ {f},
                                          !.mark = @ \cup ms, !.prune = @ \cup ps])
<1> DEFINE known == Probe(f.path) # "unknown"
           overdue == f.mark = "old" /\ ~Unconfirmed(f.path)
           ms == {i \in {f.id} : known /\ f.mark = "no"}
           ps == {i \in {f.id} : known /\ overdue}
<1>1. sweep' = Settle([sweep EXCEPT !.unseen = @ \ {f}, !.mark = @ \cup ms, !.prune = @ \cup ps])
  BY DEF LstatRow
<1>2. ps \subseteq {f.id} /\ (ps # {} => ~Unconfirmed(f.path))  OBVIOUS
<1> HIDE DEF ms, ps
<1> QED  BY <1>1, <1>2

LEMMA WalkStep ==
  ASSUME TypeOK, WalkInv, Next
  PROVE  WalkInv'
<1> USE DEF world, tables
<1>1. CASE StartSweep
  <2>1. /\ dirState' = dirState /\ sweep'.phase = "walk" /\ sweep'.dirs = {Root}
        /\ sweep'.seen = {}
    BY <1>1 DEF StartSweep, NoSweep
  <2> QED  BY <2>1 DEF WalkInv, Met, Ancestors
<1>2. CASE Walk
  <2>1. ASSUME NEW p \in Paths, VisitFile(p) PROVE WalkInv'
    <3>1. /\ sweep'.phase = sweep.phase /\ sweep'.dirs = sweep.dirs /\ sweep'.seen = sweep.seen
          /\ sweep'.skipped = sweep.skipped /\ sweep'.linked = sweep.linked
          /\ sweep'.steady = sweep.steady /\ dirState' = dirState
      BY <2>1 DEF VisitFile, TypeOK, Sweeps
    <3> QED  BY <3>1, SameWalk
  <2> QED  BY <1>2, <2>1, ListStep, PassStep DEF Walk
<1>3. CASE Reconcile
  <2> DEFINE rows == {f \in files : ~UnderAny(f.path, sweep.skipped)}
             unseen == {f \in rows : f.path \notin sweep.seen}
             clear == {f.id : f \in {g \in rows : g.path \in sweep.seen /\ g.mark # "no"}}
             new == [sweep EXCEPT !.phase = "check", !.unseen = unseen, !.clear = clear]
  <2>1. sweep' = NoSweep \/ (sweep' = new /\ sweep.seen # {})
    BY <1>3, SettleCases DEF Reconcile
  <2>2. CASE sweep' = new /\ sweep.seen # {}
    <3> HIDE DEF unseen, clear
    <3>1. /\ sweep'.phase = "check" /\ sweep'.dirs = sweep.dirs /\ sweep'.seen = sweep.seen
          /\ sweep'.skipped = sweep.skipped /\ sweep'.linked = sweep.linked
          /\ sweep'.steady = sweep.steady
      BY <2>2 DEF TypeOK, Sweeps
    <3>2. sweep.phase = "walk" /\ sweep.dirs = {} /\ dirState' = dirState
      BY <1>3 DEF Reconcile, Listed
    <3> HIDE DEF new
    <3> QED  BY <2>2, <3>1, <3>2 DEF WalkInv, Open, Due, Met
  <2>3. dirState' = dirState  BY <1>3 DEF Reconcile
  <2> QED  BY <2>1, <2>2, <2>3, NoWalk
<1>4. ASSUME NEW f \in sweep.unseen, LstatRow(f) PROVE WalkInv'
  <2>1. PICK ms, ps : sweep' = Settle([sweep EXCEPT !.unseen = @ \ {f},
                                         !.mark = @ \cup ms, !.prune = @ \cup ps])
    BY <1>4, Lists
  <2>2. dirState' = dirState  BY <1>4 DEF LstatRow
  <2>3. CASE sweep' = [sweep EXCEPT !.unseen = @ \ {f}, !.mark = @ \cup ms, !.prune = @ \cup ps]
    BY <2>2, <2>3, SameWalk DEF TypeOK, Sweeps
  <2> QED  BY <2>1, <2>2, <2>3, SettleCases, NoWalk
<1>5. CASE MarkMissing \/ ClearMissing \/ PruneMissing \/ ReconcileFails
  <2>1. dirState' = dirState
    BY <1>5 DEF MarkMissing, ClearMissing, PruneMissing, ReconcileFails
  <2>2. \/ sweep' = NoSweep
        \/ sweep' = [sweep EXCEPT !.mark = {}]
        \/ sweep' = [sweep EXCEPT !.clear = {}]
    BY <1>5, SettleCases DEF MarkMissing, ClearMissing, PruneMissing, ReconcileFails, Dropped
  <2>3. CASE sweep' # NoSweep
    BY <2>1, <2>2, <2>3, SameWalk DEF TypeOK, Sweeps
  <2> QED  BY <2>1, <2>3, NoWalk
<1>6. CASE Crash
  BY <1>6, NoWalk DEF Crash
<1>7. CASE UNCHANGED <<sweep, dirState>>
  BY <1>7, SameWalk
<1>8. QED
  BY <1>1, <1>2, <1>3, <1>4, <1>5, <1>6, <1>7, ChangeStep
  DEF Next, ReconcileMissing, People, Outside, ScanFile, ScanHash, ScanTouch, ScanCreate,
      ScanLoseRace, ScanAttach, ScanStat, ForgetMissingFile, EditBook, Import, WriteFile,
      RemoveFile, GracePasses, ScanFails

\* Rows keep their paths, so what was found of a condemned one still holds.
LEMMA SameVerdicts ==
  ASSUME TypeOK, PruneInv, CondemnedInv, Next,
         sweep'.unseen \subseteq sweep.unseen, sweep'.prune = sweep.prune,
         sweep'.skipped = sweep.skipped, sweep'.linked = sweep.linked, sweep'.seen = sweep.seen
  PROVE  CondemnedInv'
<1>1. /\ \A f \in sweep.unseen : f.id < nextFile /\ f.id \in Nat
      /\ \A i \in sweep.prune : i < nextFile /\ i \in Nat
      /\ nextFile \in Nat
  BY DEF PruneInv, TypeOK, Sweeps, BookFiles
<1>2. \A g \in files' : g.id = nextFile \/ \E f \in files : f.id = g.id /\ f.path = g.path
  BY RowsStep DEF Descends
<1>3. \A f \in sweep'.unseen, g \in files' : f.id = g.id => f.path = g.path
  BY <1>1, <1>2 DEF CondemnedInv
<1>4. \A p : Spared(p)' <=> Spared(p)
  BY DEF Spared, UnderAny
<1>5. \A p : Unconfirmed(p)' <=> Unconfirmed(p)
  BY DEF Unconfirmed, UnderAny
<1>6. \A g \in files' : g.id \in sweep'.prune => ~Spared(g.path) /\ ~Unconfirmed(g.path)
  BY <1>1, <1>2 DEF CondemnedInv
<1> QED  BY <1>3, <1>4, <1>5, <1>6 DEF CondemnedInv

LEMMA NoneCondemned ==
  ASSUME sweep'.unseen = {}, sweep'.prune = {}
  PROVE  CondemnedInv'
BY DEF CondemnedInv

LEMMA CondemnedStep ==
  ASSUME TypeOK, TypeOK', TablesInv, PruneInv, PruneInv', CondemnedInv, Next
  PROVE  CondemnedInv'
<1> USE DEF world, tables
<1>1. CASE sweep'.phase # "check"
  BY <1>1, NoneCondemned DEF PruneInv
<1>2. CASE Reconcile /\ sweep'.phase = "check"
  <2> DEFINE rows == {f \in files : ~UnderAny(f.path, sweep.skipped)}
             unseen == {f \in rows : f.path \notin sweep.seen}
             clear == {f.id : f \in {g \in rows : g.path \in sweep.seen /\ g.mark # "no"}}
             new == [sweep EXCEPT !.phase = "check", !.unseen = unseen, !.clear = clear]
  <2>1. sweep' = new
    BY <1>2, SettleCases DEF Reconcile, NoSweep
  <2> HIDE DEF unseen, clear
  <2>2. /\ sweep'.prune = {} /\ sweep'.unseen = unseen /\ sweep'.skipped = sweep.skipped
        /\ files' = files
    <3>1. sweep.prune = {} /\ files' = files  BY <1>2 DEF Reconcile, PruneInv
    <3> QED  BY <2>1, <3>1 DEF TypeOK, Sweeps
  <2> HIDE DEF new
  <2>3. \A f \in unseen : f \in files /\ ~Spared(f.path)
    BY DEF unseen, Spared
  <2>4. \A f, g \in files : f.id = g.id => f = g
    BY DEF TablesInv, OneRow
  <2>5. \A p : Spared(p)' <=> Spared(p)  BY <2>2 DEF Spared, UnderAny
  <2> QED  BY <2>2, <2>3, <2>4, <2>5 DEF CondemnedInv
<1>3. ASSUME NEW f \in sweep.unseen, LstatRow(f), sweep'.phase = "check" PROVE CondemnedInv'
  <2>1. PICK ms, ps : /\ ps \subseteq {f.id} /\ (ps # {} => ~Unconfirmed(f.path))
                      /\ sweep' = Settle([sweep EXCEPT !.unseen = @ \ {f},
                                           !.mark = @ \cup ms, !.prune = @ \cup ps])
    BY <1>3, Lists
  <2>2. sweep' = [sweep EXCEPT !.unseen = @ \ {f}, !.mark = @ \cup ms, !.prune = @ \cup ps]
    BY <1>3, <2>1, SettleCases DEF NoSweep
  <2>3. /\ sweep'.unseen = sweep.unseen \ {f} /\ sweep'.prune = sweep.prune \cup ps
        /\ sweep'.skipped = sweep.skipped /\ sweep'.linked = sweep.linked /\ sweep'.seen = sweep.seen
        /\ files' = files
    BY <1>3, <2>2 DEF LstatRow, TypeOK, Sweeps
  <2>4. \A p : (Spared(p)' <=> Spared(p)) /\ (Unconfirmed(p)' <=> Unconfirmed(p))
    BY <2>3 DEF Spared, Unconfirmed, UnderAny
  <2>5. ASSUME NEW g \in files, g.id \in ps PROVE ~Spared(g.path) /\ ~Unconfirmed(g.path)
    <3>1. g.path = f.path  BY <2>1, <2>5 DEF CondemnedInv
    <3> QED  BY <2>1, <2>5, <3>1 DEF CondemnedInv
  <2> QED  BY <2>3, <2>4, <2>5 DEF CondemnedInv
<1>4. CASE MarkMissing \/ ClearMissing \/ PruneMissing \/ ReconcileFails
  <2>1. \/ sweep' = NoSweep
        \/ sweep' = [sweep EXCEPT !.mark = {}]
        \/ sweep' = [sweep EXCEPT !.clear = {}]
    BY <1>4, SettleCases DEF MarkMissing, ClearMissing, PruneMissing, ReconcileFails, Dropped
  <2>2. CASE sweep' # NoSweep
    BY <2>1, <2>2, SameVerdicts DEF TypeOK, Sweeps
  <2> QED  BY <1>1, <2>2 DEF NoSweep
<1>5. CASE UNCHANGED sweep \/ \E d \in Dirs, s \in DirStates : ChangeDir(d, s)
  <2>1. /\ sweep'.unseen = sweep.unseen /\ sweep'.prune = sweep.prune
        /\ sweep'.skipped = sweep.skipped /\ sweep'.linked = sweep.linked /\ sweep'.seen = sweep.seen
    BY <1>5 DEF ChangeDir, TypeOK, Sweeps
  <2> QED  BY <2>1, SameVerdicts
<1>6. CASE StartSweep \/ Walk \/ Crash
  <2>1. sweep'.phase # "check"
    <3>1. CASE StartSweep  BY <3>1 DEF StartSweep, NoSweep
    <3>2. CASE Crash  BY <3>2 DEF Crash, NoSweep
    <3>3. CASE Walk
      <4>1. sweep.phase = "walk"
        BY <3>3 DEF Walk, ListDir, ListEmptyDir, SkipDir, PassLink, VisitFile, Meets
      <4>2. sweep' = NoSweep \/ sweep'.phase = "walk"
        BY <3>3, <4>1 DEF Walk, ListDir, ListEmptyDir, SkipDir, PassLink, VisitFile,
                          TypeOK, Sweeps
      <4> QED  BY <4>2 DEF NoSweep
    <3> QED  BY <1>6, <3>1, <3>2, <3>3
  <2> QED  BY <1>1, <2>1
<1>7. QED
  BY <1>1, <1>2, <1>3, <1>4, <1>5, <1>6
  DEF Next, ReconcileMissing, People, Outside, ScanFile, ScanHash, ScanTouch, ScanCreate,
      ScanLoseRace, ScanAttach, ScanStat, ForgetMissingFile, EditBook, Import, WriteFile,
      RemoveFile, GracePasses, ScanFails

\* A volume that is away, a directory that cannot be read or one behind a
\* link costs no row of the index, for any tree of directories and whatever
\* else happens while the sweep runs.
THEOREM LossPrunesNothing == Spec => []VolumeLossPrunesNothing
<1>1. Init => PruneInv /\ WalkInv /\ CondemnedInv
  <2> SUFFICES ASSUME Init PROVE PruneInv /\ WalkInv /\ CondemnedInv  OBVIOUS
  <2>1. PruneInv  BY DEF Init, NoSweep, PruneInv
  <2>2. WalkInv  BY DirAssumption DEF Init, NoSweep, WalkInv, Due
  <2>3. CondemnedInv  BY DEF Init, NoSweep, CondemnedInv
  <2> QED  BY <2>1, <2>2, <2>3
<1>2. TypeOK /\ TypeOK' /\ TablesInv /\ PruneInv /\ [Next]_vars => PruneInv'
  BY PruneStep DEF vars, PruneInv
<1>3. TypeOK /\ WalkInv /\ [Next]_vars => WalkInv'
  <2>1. WalkInv /\ UNCHANGED vars => WalkInv'
    BY SameWalk DEF vars
  <2> QED  BY <2>1, WalkStep
<1>4. TypeOK /\ TypeOK' /\ TablesInv /\ PruneInv /\ PruneInv' /\ CondemnedInv /\ [Next]_vars
        => CondemnedInv'
  <2>1. CondemnedInv /\ UNCHANGED vars => CondemnedInv'
    BY DEF vars, CondemnedInv, Spared, Unconfirmed, UnderAny
  <2> QED  BY <2>1, CondemnedStep
<1>5. TypeOK /\ PruneInv /\ WalkInv /\ CondemnedInv => VolumeLossPrunesNothing
  <2> SUFFICES ASSUME TypeOK, PruneInv, WalkInv, CondemnedInv,
                      NEW f \in files, f.id \in sweep.prune, SteadyTo(f.path)
               PROVE  /\ dirState[Root] = "ok"
                      /\ dirState[TopOf[DirOf[f.path]]] = "ok"
                      /\ dirState[DirOf[f.path]] \in {"ok", "offline"}
    BY DEF VolumeLossPrunesNothing
  <2> DEFINE d == DirOf[f.path]
  <2>1. d \in Dirs /\ Ancestors(d) \subseteq sweep.steady /\ sweep.phase = "check"
    BY DirAssumption DEF TypeOK, BookFiles, SteadyTo, PruneInv
  <2>2. ~UnderAny(f.path, sweep.skipped) /\ ~Unconfirmed(f.path)
    BY DEF CondemnedInv, Spared
  <2>3. d \notin sweep.skipped \cup sweep.linked
    BY <2>2 DEF UnderAny, Unconfirmed, Ancestors
  <2>4. dirState[Root] = "ok"
    <3>1. PICK p \in sweep.seen : Open(DirOf[p])  BY <2>1 DEF WalkInv
    <3> QED  BY <2>1, <3>1 DEF Open, Ancestors
  <2>5. dirState[TopOf[d]] = "ok"
    <3>1. CASE TopOf[d] = Root  BY <2>4, <3>1
    <3>2. CASE TopOf[d] # Root
      <4>1. PICK p \in sweep.seen : TopOf[DirOf[p]] = TopOf[d]
        BY <2>2, <3>2 DEF Unconfirmed
      <4>2. Open(DirOf[p])  BY DEF WalkInv
      <4> QED  BY <2>1, <4>1, <4>2 DEF Open, Ancestors
    <3> QED  BY <3>1, <3>2
  <2>6. Due(d)  BY <2>1, <2>4, <2>5 DEF Due, Ancestors
  <2>7. Met(d) /\ sweep.dirs = {}  BY <2>1, <2>6 DEF WalkInv
  <2> QED  BY <2>3, <2>4, <2>5, <2>7 DEF Met
<1>6. QED
  BY <1>1, <1>2, <1>3, <1>4, <1>5, TypeCorrect, TablesWhole, PTL DEF Spec

-----------------------------------------------------------------------------
(***************************************************************************)
(* KeepsCatalog.  Everything the catalog shows of the tables it shows      *)
(* through unique ids, paths and hashes and through the tie of rows and    *)
(* books, so TablesInv holds the refinement up; PruneListOverdue is why a  *)
(* sweep only drops paths long missed.                                     *)
(***************************************************************************)
Whole(fs, bs) ==
  fs \subseteq BookFiles /\ bs \subseteq Books /\ Linked(fs, bs) /\ OneRow(fs) /\ OneBook(bs)

\* A row and its book are what the catalog has at the row's path.
LEMMA RowShows ==
  ASSUME NEW fs, NEW bs, Whole(fs, bs), NEW f \in fs, NEW b \in bs, f.book = b.id
  PROVE  ContentIn(fs, bs, f.path) = b.hash /\ MarkIn(fs, f.path) = f.mark
<1>1. RowAt(fs, f.path) = f
  BY DEF Whole, OneRow, RowAt
<1>2. b = CHOOSE c \in bs : c.id = f.book
  BY DEF Whole, OneBook
<1>3. QED
  BY <1>1, <1>2 DEF ContentIn, MarkIn

\* A path is without a row and shows nothing, or shows a row and its book.
LEMMA PathShows ==
  ASSUME NEW fs, NEW bs, Whole(fs, bs), NEW p \in Paths
  PROVE  \/ /\ \A f \in fs : f.path # p
            /\ ContentIn(fs, bs, p) = NoFile /\ MarkIn(fs, p) = "no"
         \/ \E f \in fs, b \in bs : /\ f.path = p /\ f.book = b.id
                                    /\ ContentIn(fs, bs, p) = b.hash /\ MarkIn(fs, p) = f.mark
<1>1. CASE \A f \in fs : f.path # p
  BY <1>1 DEF ContentIn, MarkIn
<1>2. ASSUME NEW f \in fs, f.path = p
      PROVE  \E b \in bs : /\ f.path = p /\ f.book = b.id
                           /\ ContentIn(fs, bs, p) = b.hash /\ MarkIn(fs, p) = f.mark
  <2>1. PICK b \in bs : b.id = f.book
    BY DEF Whole, Linked
  <2>2. QED
    BY <1>2, <2>1, RowShows
<1>3. QED
  BY <1>1, <1>2

\* A content is nothing that is not a file's.
LEMMA HashIsContent ==
  ASSUME NEW fs, NEW bs, Whole(fs, bs), NEW b \in bs
  PROVE  b.hash \in Contents /\ b.hash # NoFile
BY NoFileAssumption DEF Whole, Books

\* The contents there is a book of are those some path shows.
LEMMA BooksShown ==
  ASSUME NEW fs, NEW bs, Whole(fs, bs)
  PROVE  {b.hash : b \in bs} = {ContentIn(fs, bs, p) : p \in Paths} \ {NoFile}
<1>1. ASSUME NEW b \in bs
      PROVE  b.hash \in {ContentIn(fs, bs, p) : p \in Paths} \ {NoFile}
  <2>1. PICK f \in fs : f.book = b.id
    BY DEF Whole, Linked
  <2>2. f.path \in Paths
    BY DEF Whole, BookFiles
  <2>3. QED
    BY <2>1, <2>2, RowShows, HashIsContent
<1>2. ASSUME NEW p \in Paths, ContentIn(fs, bs, p) # NoFile
      PROVE  ContentIn(fs, bs, p) \in {b.hash : b \in bs}
  BY <1>2, PathShows
<1>3. QED
  BY <1>1, <1>2

\* No book changes its hash.
Stable(bs, cs) == \A b \in bs, c \in cs : b.id = c.id => b.hash = c.hash

\* A path whose row keeps its owner shows what it did.
LEMMA SameOwner ==
  ASSUME NEW fs, NEW bs, Whole(fs, bs), NEW gs, NEW cs, Whole(gs, cs), Stable(bs, cs),
         NEW f \in fs, NEW g \in gs, f.path = g.path, f.book = g.book
  PROVE  ContentIn(gs, cs, f.path) = ContentIn(fs, bs, f.path)
<1>1. PICK b \in bs : b.id = f.book
  BY DEF Whole, Linked
<1>2. PICK c \in cs : c.id = g.book
  BY DEF Whole, Linked
<1>3. b.hash = c.hash
  BY <1>1, <1>2 DEF Stable
<1>4. QED
  BY <1>1, <1>2, <1>3, RowShows

\* A rewrite changes no content.
LEMMA RewriteShows ==
  ASSUME NEW fs, NEW bs, Whole(fs, bs), NEW gs, NEW cs, Whole(gs, cs), Stable(bs, cs),
         Rewrites(gs, fs), NEW p \in Paths
  PROVE  ContentIn(gs, cs, p) = ContentIn(fs, bs, p)
<1>1. CASE \A f \in fs : f.path # p
  <2>1. \A g \in gs : g.path # p
    BY <1>1 DEF Rewrites, SameRow
  <2>2. QED
    BY <1>1, <2>1 DEF ContentIn
<1>2. ASSUME NEW f \in fs, f.path = p
      PROVE  ContentIn(gs, cs, p) = ContentIn(fs, bs, p)
  <2>1. PICK g \in gs : SameRow(g, f)
    BY DEF Rewrites
  <2>2. QED
    BY <1>2, <2>1, SameOwner DEF SameRow
<1>3. QED
  BY <1>1, <1>2

\* An upsert changes no content but at its path, and no mark.
LEMMA UpsertShows ==
  ASSUME NEW fs, NEW bs, Whole(fs, bs), NEW i \in Nat, NEW b \in Nat, NEW p \in Paths,
         NEW s \in Nat, NEW cs, Whole(UpsertBookFile(fs, i, b, p, s), cs), Stable(bs, cs),
         NEW q \in Paths
  PROVE  /\ q # p => ContentIn(UpsertBookFile(fs, i, b, p, s), cs, q) = ContentIn(fs, bs, q)
         /\ MarkIn(UpsertBookFile(fs, i, b, p, s), q) = MarkIn(fs, q)
<1> DEFINE gs == UpsertBookFile(fs, i, b, p, s)
<1>0. fs \in SUBSET BookFiles
  BY DEF Whole
<1>1. \A g \in gs : IF g.path = p THEN Inherits(g, fs, p) ELSE g \in fs
  BY <1>0, UpsertMarks
<1>2. \A f \in fs : f.path # p => f \in gs
  BY <1>0, UpsertKeeps
<1>3. \E g \in gs : g.path = p
  BY <1>0, UpsertGives
<1>4. Whole(gs, cs)
  OBVIOUS
<1> HIDE DEF gs
<1>5. CASE q = p
  <2>1. PICK g \in gs, c \in cs : g.path = p /\ MarkIn(gs, p) = g.mark
    BY <1>3, <1>4, PathShows
  <2>2. CASE FileAt(fs, p) = {}
    BY <1>1, <1>5, <2>1, <2>2 DEF Inherits, FileAt, MarkIn, gs
  <2>3. ASSUME NEW f \in fs, f.path = p, g.mark = f.mark
        PROVE  MarkIn(fs, p) = f.mark
    <3>1. RowAt(fs, p) = f
      BY <2>3 DEF Whole, OneRow, RowAt
    <3>2. QED
      BY <2>3, <3>1 DEF MarkIn
  <2>4. QED
    BY <1>1, <1>5, <2>1, <2>2, <2>3 DEF Inherits, gs
<1>6. CASE q # p /\ \A f \in fs : f.path # q
  BY <1>1, <1>6 DEF Inherits, ContentIn, MarkIn, gs
<1>7. ASSUME NEW f \in fs, f.path = q, q # p
      PROVE  ContentIn(gs, cs, q) = ContentIn(fs, bs, q) /\ MarkIn(gs, q) = MarkIn(fs, q)
  <2>1. f \in gs
    BY <1>2, <1>7
  <2>2. RowAt(fs, q) = f /\ RowAt(gs, q) = f
    BY <1>4, <1>7, <2>1 DEF Whole, OneRow, RowAt
  <2>3. QED
    BY <1>4, <1>7, <2>1, <2>2, SameOwner DEF MarkIn
<1>8. QED
  BY <1>5, <1>6, <1>7 DEF gs

\* The tables a step leaves are whole as well.
LEMMA WholeTables ==
  (TypeOK /\ TablesInv => Whole(files, books)) /\ (TypeOK' /\ TablesInv' => Whole(files', books'))
BY DEF TypeOK, TablesInv, Whole

LEMMA CatalogKeeps ==
  ASSUME Whole(files', books')
  PROVE  TheCatalog!Keeps
<1>1. {b.hash : b \in books'} = {ContentIn(files', books', p) : p \in Paths} \ {NoFile}
  BY BooksShown
<1>2. {ContentAt'[p] : p \in Paths} = {ContentIn(files', books', p) : p \in Paths}
  BY DEF ContentAt
<1>3. QED
  BY <1>1, <1>2 DEF TheCatalog!Keeps, BookContents

LEMMA CatalogStutter ==
  ASSUME UNCHANGED <<files, books>>
  PROVE  UNCHANGED TheCatalog!vars
BY DEF TheCatalog!vars, ContentAt, MarkAt, BookContents, EditedContents


\* A path's mark goes from one of from to the mark to, or stays.
LEMMA CatalogLooks ==
  ASSUME Whole(files, books), Whole(files', books'), UNCHANGED books,
         Rewrites(files', files),
         NEW from, NEW to,
         \A g \in files' : \E f \in files :
           SameRow(g, f) /\ (g.mark = f.mark \/ (f.mark \in from /\ g.mark = to))
  PROVE  \E ps \in SUBSET Paths :
           TheCatalog!Mark(ps, from, to) /\ UNCHANGED <<ContentAt, BookContents, EditedContents>>
<1> DEFINE ps == {p \in Paths : MarkIn(files', p) # MarkIn(files, p)}
<1>1. Stable(books, books')
  BY DEF Whole, OneBook, Stable
<1>2. \A p \in Paths : ContentIn(files', books', p) = ContentIn(files, books, p)
  BY <1>1, RewriteShows
<1>3. ASSUME NEW p \in ps
      PROVE  ContentAt[p] # NoFile /\ MarkAt[p] \in from /\ MarkIn(files', p) = to
  <2>1. CASE \A f \in files : f.path # p
    <3>1. \A g \in files' : g.path # p
      BY <2>1 DEF Rewrites, SameRow
    <3>2. QED
      BY <2>1, <3>1 DEF MarkIn
  <2>2. ASSUME NEW f \in files, f.path = p
        PROVE  ContentAt[p] # NoFile /\ MarkAt[p] \in from /\ MarkIn(files', p) = to
    <3>1. PICK g \in files' : SameRow(g, f)
      BY DEF Rewrites
    <3>2. PICK e \in files : SameRow(g, e) /\ (g.mark = e.mark \/ (e.mark \in from /\ g.mark = to))
      OBVIOUS
    <3>3. e = f
      BY <2>2, <3>1, <3>2 DEF SameRow, Whole, OneRow
    <3>4. RowAt(files, p) = f /\ RowAt(files', p) = g /\ g.path = p
      BY <2>2, <3>1 DEF SameRow, Whole, OneRow, RowAt
    <3>5. MarkIn(files, p) = f.mark /\ MarkIn(files', p) = g.mark
      BY <2>2, <3>4 DEF MarkIn
    <3>6. ContentIn(files, books, p) # NoFile
      BY <2>2, PathShows, HashIsContent
    <3>7. QED
      BY <3>2, <3>3, <3>5, <3>6 DEF ContentAt, MarkAt
  <2>3. QED
    BY <2>1, <2>2
<1>4. MarkAt' = [p \in Paths |-> IF p \in ps THEN to ELSE MarkAt[p]]
  BY <1>3 DEF MarkAt
<1>5. TheCatalog!Mark(ps, from, to)
  BY <1>3, <1>4 DEF TheCatalog!Mark
<1>6. UNCHANGED <<ContentAt, BookContents, EditedContents>>
  BY <1>2 DEF ContentAt, BookContents, EditedContents
<1>7. QED
  BY <1>5, <1>6

\* A DELETE of rows and of the books it leaves empty drops their paths.
LEMMA CatalogDrops ==
  ASSUME Whole(files, books), Whole(files', books'), NEW is, NEW owners,
         files' = DeleteFiles(files, is), books' = PruneOrphans(books, files', owners)
  PROVE  TheCatalog!Drop({f.path : f \in {g \in files : g.id \in is}})
<1> DEFINE ps == {f.path : f \in {g \in files : g.id \in is}}
<1>1. books' \subseteq books
  BY DEF PruneOrphans
<1>2. Stable(books, books')
  BY <1>1 DEF Whole, OneBook, Stable
<1>3. ASSUME NEW p \in Paths
      PROVE  /\ ContentIn(files', books', p) = IF p \in ps THEN NoFile ELSE ContentIn(files, books, p)
             /\ MarkIn(files', p) = IF p \in ps THEN "no" ELSE MarkIn(files, p)
  <2>1. CASE \A f \in files' : f.path # p
    <3>1. p \in ps \/ \A f \in files : f.path # p
      BY <2>1 DEF DeleteFiles
    <3>2. QED
      BY <2>1, <3>1 DEF ContentIn, MarkIn
  <2>2. ASSUME NEW f \in files', f.path = p
        PROVE  /\ p \notin ps
               /\ ContentIn(files', books', p) = ContentIn(files, books, p)
               /\ MarkIn(files', p) = MarkIn(files, p)
    <3>1. f \in files /\ f.id \notin is
      BY DEF DeleteFiles
    <3>2. p \notin ps
      BY <2>2, <3>1 DEF Whole, OneRow
    <3>3. RowAt(files, p) = f /\ RowAt(files', p) = f
      BY <2>2, <3>1 DEF Whole, OneRow, RowAt
    <3>4. QED
      BY <1>2, <2>2, <3>1, <3>2, <3>3, SameOwner DEF MarkIn
  <2>3. QED
    BY <2>1, <2>2
<1>4. EditedContents' = EditedContents \cap BookContents'
  BY <1>1 DEF EditedContents, BookContents, Whole, OneBook
<1> HIDE DEF ps
<1>5. ContentAt' = [p \in Paths |-> IF p \in ps THEN NoFile ELSE ContentAt[p]]
  BY <1>3 DEF ContentAt
<1>6. MarkAt' = [p \in Paths |-> IF p \in ps THEN "no" ELSE MarkAt[p]]
  BY <1>3 DEF MarkAt
<1>7. QED
  BY <1>4, <1>5, <1>6, CatalogKeeps DEF TheCatalog!Drop, ps

\* What ScanAttach and ScanCreate do at the path they write.
LEMMA CatalogTakes ==
  ASSUME TypeOK, Whole(files, books), Whole(files', books'), Stable(books, books'),
         NEW i \in Nat, NEW p \in Paths, NEW s \in Nat, NEW b \in books', NEW n \in Nat, b.id = n,
         files' = UpsertBookFile(files, i, n, p, s)
  PROVE  /\ ContentAt' = [ContentAt EXCEPT ![p] = b.hash]
         /\ MarkAt' = MarkAt
<1>1. \A q \in Paths : /\ q # p => ContentIn(files', books', q) = ContentIn(files, books, q)
                       /\ MarkIn(files', q) = MarkIn(files, q)
  BY UpsertShows
<1>2. PICK g \in files' : g.path = p /\ g.book = b.id
  BY UpsertGives DEF Whole
<1>3. ContentIn(files', books', p) = b.hash
  BY <1>2, RowShows
<1>4. QED
  BY <1>1, <1>3 DEF ContentAt, MarkAt

LEMMA CatalogAttach ==
  ASSUME TypeOK, Whole(files, books), Whole(files', books'), NEW a \in Actors, ScanAttach(a),
         scan[a].book \in BookIds(books)
  PROVE  TheCatalog!Next
<1> DEFINE p == scan[a].path
           s == scan[a].stamp
<1>1. p \in Paths /\ s \in Nat /\ scan[a].book \in Nat /\ nextFile \in Nat
  BY ScanFields DEF ScanAttach, TypeOK
<1>2. /\ files' = UpsertBookFile(files, nextFile, scan[a].book, p, s)
      /\ books' = BooksAfterReassign(books, files', PreviousOwner(files, p), scan[a].book)
  BY DEF ScanAttach
<1> HIDE DEF p, s
<1>3. PICK b \in books : b.id = scan[a].book
  BY DEF BookIds
<1>4. b \in books' /\ books' \subseteq books
  BY <1>2, <1>3 DEF BooksAfterReassign, PruneOrphans
<1>5. Stable(books, books')
  BY <1>4 DEF Whole, OneBook, Stable
<1>6. ContentAt' = [ContentAt EXCEPT ![p] = b.hash] /\ MarkAt' = MarkAt
  BY <1>1, <1>2, <1>3, <1>4, <1>5, CatalogTakes
<1>7. EditedContents' = EditedContents \cap BookContents'
  BY <1>4 DEF EditedContents, BookContents, Whole, OneBook
<1>8. b.hash \in BookContents /\ b.hash \in Contents
  BY <1>3 DEF BookContents, Whole, Books
<1>9. TheCatalog!Attach(p, b.hash)
  BY <1>6, <1>7, <1>8, CatalogKeeps DEF TheCatalog!Attach
<1>10. QED
  BY <1>1, <1>8, <1>9 DEF TheCatalog!Next

LEMMA CatalogCreate ==
  ASSUME TypeOK, TablesInv, Whole(files, books), Whole(files', books'),
         NEW a \in Actors, ScanCreate(a)
  PROVE  TheCatalog!Next
<1> DEFINE p == scan[a].path
           s == scan[a].stamp
           c == scan[a].hash
           owner == PreviousOwner(files, p)
           gone == ReplacedBook(files', owner, nextBook)
           heir == \E o \in books : o.id \in gone /\ o.edited
           new == [id |-> nextBook, hash |-> c, edited |-> heir]
<1>1. p \in Paths /\ s \in Nat /\ c \in Contents /\ nextFile \in Nat /\ nextBook \in Nat
  BY ScanFields DEF ScanCreate, TypeOK
<1>2. /\ files' = UpsertBookFile(files, nextFile, nextBook, p, s)
      /\ books' = PruneOrphans(books, files', gone) \cup {new}
      /\ \A o \in books : o.hash # c
  BY DEF ScanCreate, BooksAfterCreate, BookWithHash
<1>3. /\ \A o \in owner : \E f \in files : f.path = p /\ f.book = o
      /\ \A f \in files : f.path = p => f.book \in owner
      /\ \A i \in gone : i \in owner /\ i # nextBook /\ \A g \in files' : g.book # i
      /\ \A i \in owner : i # nextBook /\ (\A g \in files' : g.book # i) => i \in gone
  BY DEF PreviousOwner, FileAt, ReplacedBook, FilesOf
<1>4. new.id = nextBook /\ new.hash = c /\ new.edited = heir
  OBVIOUS
<1>5. \A g \in files' : (g.path = p /\ g.book = nextBook) \/ (g.path # p /\ g \in files)
  <2>1. files \in SUBSET BookFiles
    BY DEF Whole
  <2>2. \A g \in files' : g \in files \/ (g.path = p /\ g.book = nextBook)
    BY <1>1, <1>2, <2>1, UpsertWrites
  <2>3. \A g \in files' : g.path = p => g.book = nextBook
    <3>1. PICK g \in files' : g.path = p /\ g.book = nextBook
      BY <1>1, <1>2, <2>1, UpsertGives
    <3>2. QED
      BY <3>1 DEF Whole, OneRow
  <2>4. QED
    BY <2>2, <2>3
<1>6. \A f \in files : f.path # p => f \in files'
  BY <1>1, <1>2, UpsertKeeps DEF Whole
<1>7. \A o \in books : o.id # nextBook
  BY FreshIds DEF BookIds
<1>8. new \in books' /\ \A o \in books' : o = new \/ (o \in books /\ o.id # nextBook)
  BY <1>2, <1>7 DEF PruneOrphans
<1> HIDE DEF p, s, c, owner, gone, heir, new
<1>9. Stable(books, books')
  BY <1>4, <1>7, <1>8 DEF Whole, OneBook, Stable
<1>10. ContentAt' = [ContentAt EXCEPT ![p] = c] /\ MarkAt' = MarkAt
  BY <1>1, <1>2, <1>4, <1>8, <1>9, CatalogTakes
<1>11. c \in Contents \ BookContents
  BY <1>1, <1>2 DEF BookContents
<1>12. heir <=> ContentAt[p] \in EditedContents \ {ContentAt[q] : q \in Paths \ {p}}
  <2>1. ASSUME heir
        PROVE  ContentAt[p] \in EditedContents \ {ContentAt[q] : q \in Paths \ {p}}
    <3>1. PICK o \in books : o.id \in gone /\ o.edited
      BY <2>1 DEF heir
    <3>2. PICK f \in files : f.path = p /\ f.book = o.id
      BY <1>3, <3>1
    <3>3. ContentAt[p] = o.hash
      BY <1>1, <3>2, RowShows DEF ContentAt
    <3>4. ASSUME NEW q \in Paths \ {p} PROVE ContentAt[q] # o.hash
      <4>1. SUFFICES ASSUME ContentIn(files, books, q) = o.hash PROVE FALSE
        BY DEF ContentAt
      <4>2. o.hash # NoFile
        BY HashIsContent
      <4>3. PICK g \in files, d \in books : g.path = q /\ g.book = d.id /\ d.hash = o.hash
        BY <4>1, <4>2, PathShows
      <4>4. d = o
        BY <4>3 DEF Whole, OneBook
      <4>5. QED
        BY <1>3, <1>6, <3>1, <4>3, <4>4
    <3>5. QED
      BY <3>1, <3>3, <3>4 DEF EditedContents
  <2>2. ASSUME ContentAt[p] \in EditedContents \ {ContentAt[q] : q \in Paths \ {p}}
        PROVE  heir
    <3>1. PICK o \in books : o.edited /\ o.hash = ContentAt[p]
      BY <2>2 DEF EditedContents
    <3>2. o.hash # NoFile /\ ContentIn(files, books, p) = o.hash
      BY <1>1, <3>1, HashIsContent DEF ContentAt
    <3>3. PICK f \in files, d \in books : f.path = p /\ f.book = d.id /\ d.hash = o.hash
      BY <1>1, <3>2, PathShows
    <3>4. d = o
      BY <3>3 DEF Whole, OneBook
    <3>5. ASSUME NEW g \in files', g.book = o.id PROVE FALSE
      <4>1. g.path # p /\ g \in files
        BY <1>5, <1>7, <3>5
      <4>2. g.path \in Paths
        BY <4>1 DEF Whole, BookFiles
      <4>3. ContentAt[g.path] = o.hash
        BY <3>5, <4>1, <4>2, RowShows DEF ContentAt
      <4>4. QED
        BY <2>2, <3>1, <4>1, <4>2, <4>3
    <3>6. o.id \in gone
      BY <1>3, <1>7, <3>3, <3>4, <3>5
    <3>7. QED
      BY <3>1, <3>6 DEF heir
  <2>3. QED
    BY <2>1, <2>2
<1>13. EditedContents' = (EditedContents \cap BookContents') \cup (IF heir THEN {c} ELSE {})
  <2>1. \A o \in books' : o.edited => o.hash \in EditedContents \/ (heir /\ o.hash = c)
    BY <1>4, <1>8 DEF EditedContents
  <2>2. \A o \in books : o.edited /\ o.hash \in BookContents' => o \in books'
    <3>1. TAKE o \in books
    <3>2. HAVE o.edited /\ o.hash \in BookContents'
    <3>3. PICK d \in books' : d.hash = o.hash
      BY <3>2 DEF BookContents
    <3>4. QED
      BY <1>2, <1>4, <1>8, <3>3 DEF Whole, OneBook
  <2>3. heir => c \in EditedContents'
    BY <1>4, <1>8 DEF EditedContents
  <2>4. QED
    BY <2>1, <2>2, <2>3 DEF EditedContents, BookContents
<1>14. TheCatalog!Create(p, c)
  BY <1>10, <1>11, <1>12, <1>13, CatalogKeeps DEF TheCatalog!Create, TheCatalog!Elsewhere
<1>15. QED
  BY <1>1, <1>14 DEF TheCatalog!Next

LEMMA CatalogEdit ==
  ASSUME Whole(files, books), Whole(files', books'), NEW b \in books, EditBook(b)
  PROVE  TheCatalog!Next
<1> DEFINE e == [b EXCEPT !.edited = TRUE]
<1>1. b.hash \in Contents /\ e.id = b.id /\ e.hash = b.hash /\ e.edited
  BY DEF Whole, Books
<1>2. books' = (books \ {b}) \cup {e} /\ files' = files
  BY DEF EditBook
<1> HIDE DEF e
<1>3. Stable(books, books')
  BY <1>1, <1>2 DEF Whole, OneBook, Stable
<1>4. Rewrites(files, files)
  BY DEF Whole, Rewrites, SameRow
<1>5. \A p \in Paths : ContentIn(files', books', p) = ContentIn(files, books, p)
  BY <1>2, <1>3, <1>4, RewriteShows
<1>6. UNCHANGED <<ContentAt, MarkAt, BookContents>>
  BY <1>1, <1>2, <1>5 DEF ContentAt, MarkAt, BookContents
<1>7. EditedContents' = EditedContents \cup {b.hash} /\ b.hash \in BookContents
  BY <1>1, <1>2 DEF EditedContents, BookContents
<1>8. TheCatalog!Edit(b.hash)
  BY <1>6, <1>7 DEF TheCatalog!Edit
<1>9. QED
  BY <1>1, <1>8 DEF TheCatalog!Next

LEMMA CatalogSweep ==
  ASSUME TypeOK, TablesInv, PruneListOverdue, Whole(files, books), Whole(files', books')
  PROVE  /\ PruneMissing => TheCatalog!Next
         /\ \A f \in files : ForgetMissingFile(f) => TheCatalog!Next
<1>1. ASSUME PruneMissing PROVE TheCatalog!Next
  <2> DEFINE ps == {f.path : f \in {g \in files : g.id \in sweep.prune}}
  <2>1. TheCatalog!Drop(ps)
    BY <1>1, CatalogDrops DEF PruneMissing
  <2>2. \A p \in ps : p \in Paths /\ MarkAt[p] = "old"
    <3>1. ASSUME NEW f \in files, f.id \in sweep.prune
          PROVE  f.path \in Paths /\ MarkAt[f.path] = "old"
      <4>1. PICK b \in books : b.id = f.book
        BY DEF Whole, Linked
      <4>2. f.path \in Paths /\ f.mark = "old"
        BY <3>1 DEF Whole, BookFiles, PruneListOverdue
      <4>3. QED
        BY <4>1, <4>2, RowShows DEF MarkAt
    <3>2. QED
      BY <3>1
  <2> HIDE DEF ps
  <2>3. ps \in SUBSET Paths /\ TheCatalog!Prune(ps)
    BY <2>1, <2>2 DEF TheCatalog!Prune
  <2>4. QED
    BY <2>3 DEF TheCatalog!Next
<1>2. ASSUME NEW f \in files, ForgetMissingFile(f) PROVE TheCatalog!Next
  <2>1. {g.path : g \in {h \in files : h.id \in {f.id}}} = {f.path}
    BY DEF Whole, OneRow
  <2>2. TheCatalog!Drop({f.path})
    BY <1>2, <2>1, CatalogDrops DEF ForgetMissingFile
  <2>3. PICK b \in books : b.id = f.book
    BY DEF Whole, Linked
  <2>4. f.path \in Paths /\ MarkAt[f.path] # "no"
    BY <1>2, <2>3, RowShows DEF MarkAt, ForgetMissingFile, Whole, BookFiles
  <2>5. TheCatalog!Forget(f.path)
    BY <2>2, <2>4 DEF TheCatalog!Forget
  <2>6. QED
    BY <2>4, <2>5 DEF TheCatalog!Next
<1>3. QED
  BY <1>1, <1>2

\* A statement that refreshes, marks or clears rows is one look.
LEMMA CatalogLook ==
  ASSUME TypeOK, Whole(files, books), Whole(files', books'), UNCHANGED books
  PROVE  (\E a \in Actors : ScanTouch(a)) \/ MarkMissing \/ ClearMissing \/ GracePasses
         => TheCatalog!Next
<1>1. ASSUME NEW from, NEW to, Rewrites(files', files),
             <<from, to>> \in {<<{"no"}, "recent">>, <<{"recent"}, "old">>,
                               <<{"no", "recent", "old"}, "no">>},
             \A g \in files' : \E f \in files :
               SameRow(g, f) /\ (g.mark = f.mark \/ (f.mark \in from /\ g.mark = to))
      PROVE  TheCatalog!Next
  <2>1. PICK ps \in SUBSET Paths :
          TheCatalog!Mark(ps, from, to) /\ UNCHANGED <<ContentAt, BookContents, EditedContents>>
    BY <1>1, CatalogLooks
  <2>2. TheCatalog!Look
    BY <1>1, <2>1 DEF TheCatalog!Look
  <2>3. QED
    BY <2>2 DEF TheCatalog!Next
<1>2. ASSUME NEW a \in Actors, ScanTouch(a) PROVE TheCatalog!Next
  <2>1. scan[a].stamp \in Nat /\ scan[a].id \in Nat
    BY <1>2, ScanFields DEF ScanTouch, TypeOK
  <2>2. /\ Rewrites(files', files)
        /\ \A g \in files' : \E f \in files : SameRow(g, f) /\ g.mark = f.mark
    <3>1. files \in SUBSET BookFiles
      BY DEF Whole
    <3>2. files' = UpdateBookFileStat(files, scan[a].id, scan[a].stamp)
      BY <1>2 DEF ScanTouch
    <3>3. \A g \in files' : \E f \in files :
            /\ SameRow(g, f) /\ g.mark = f.mark
            /\ IF f.id = scan[a].id THEN g.stamp = scan[a].stamp ELSE g.stamp = f.stamp
      BY <2>1, <3>1, <3>2, StatRewrites
    <3>4. QED
      BY <2>1, <3>1, <3>2, <3>3, StatRewrites
  <2>3. QED
    BY <1>1, <2>2
<1>3. ASSUME MarkMissing PROVE TheCatalog!Next
  <2>1. /\ Rewrites(files', files)
        /\ \A g \in files' : \E f \in files :
             SameRow(g, f) /\ (g.mark = f.mark \/ (f.mark = "no" /\ g.mark = "recent"))
    BY <1>3, MarkRewrites DEF MarkMissing, TypeOK
  <2>2. \A g \in files' : \E f \in files :
          SameRow(g, f) /\ (g.mark = f.mark \/ (f.mark \in {"no"} /\ g.mark = "recent"))
    BY <2>1
  <2>3. QED
    BY <1>1, <2>1, <2>2
<1>4. ASSUME ClearMissing PROVE TheCatalog!Next
  <2>1. /\ Rewrites(files', files)
        /\ \A g \in files' : \E f \in files : SameRow(g, f) /\ (g.mark = f.mark \/ g.mark = "no")
    <3>1. files \in SUBSET BookFiles
      BY DEF Whole
    <3>2. files' = ClearFilesMissing(files, sweep.clear)
      BY <1>4 DEF ClearMissing
    <3>3. \A g \in files' : \E f \in files :
            /\ SameRow(g, f) /\ g.stamp = f.stamp
            /\ g.mark = f.mark \/ (f.id \in sweep.clear /\ g.mark = "no")
      BY <3>1, <3>2, ClearRewrites
    <3>4. QED
      BY <3>1, <3>2, <3>3, ClearRewrites
  <2>2. \A f \in files : f.mark \in {"no", "recent", "old"}
    BY DEF Whole, BookFiles, Marks
  <2>3. \A g \in files' : \E f \in files :
          SameRow(g, f) /\ (g.mark = f.mark \/ (f.mark \in {"no", "recent", "old"} /\ g.mark = "no"))
    BY <2>1, <2>2
  <2>4. QED
    BY <1>1, <2>1, <2>3
<1>5. ASSUME GracePasses PROVE TheCatalog!Next
  <2>1. /\ Rewrites(files', files)
        /\ \A g \in files' : \E f \in files :
             SameRow(g, f) /\ (g.mark = f.mark \/ (f.mark = "recent" /\ g.mark = "old"))
    BY <1>5, GraceRewrites DEF TypeOK
  <2>2. \A g \in files' : \E f \in files :
          SameRow(g, f) /\ (g.mark = f.mark \/ (f.mark \in {"recent"} /\ g.mark = "old"))
    BY <2>1
  <2>3. QED
    BY <1>1, <2>1, <2>2
<1>6. QED
  BY <1>2, <1>3, <1>4, <1>5

LEMMA CatalogStep ==
  ASSUME TypeOK, TypeOK', TablesInv, TablesInv', PruneListOverdue, [Next]_vars
  PROVE  [TheCatalog!Next]_(TheCatalog!vars)
<1> USE DEF world, tables
<1>1. Whole(files, books) /\ Whole(files', books')
  BY WholeTables
<1>2. CASE UNCHANGED <<files, books>>
  BY <1>2, CatalogStutter
<1>3. ASSUME NEW a \in Actors, ScanFile(a) PROVE [TheCatalog!Next]_(TheCatalog!vars)
  <2>1. CASE ScanTouch(a)
    BY <1>1, <2>1, CatalogLook DEF ScanTouch
  <2>2. CASE ScanAttach(a)
    <3>1. CASE scan[a].book \in BookIds(books)
      BY <1>1, <2>2, <3>1, CatalogAttach
    <3>2. CASE scan[a].book \notin BookIds(books)
      BY <1>2, <2>2, <3>2 DEF ScanAttach
    <3>3. QED
      BY <3>1, <3>2
  <2>3. QED
    BY <1>1, <1>2, <1>3, <2>1, <2>2, CatalogCreate DEF ScanFile, ScanHash, ScanLoseRace
<1>4. CASE MarkMissing \/ ClearMissing \/ GracePasses
  BY <1>1, <1>4, CatalogLook DEF MarkMissing, ClearMissing, GracePasses
<1>5. CASE PruneMissing \/ \E f \in files : ForgetMissingFile(f)
  BY <1>1, <1>5, CatalogSweep
<1>6. CASE \E b \in books : EditBook(b)
  BY <1>1, <1>6, CatalogEdit
<1>7. QED
  BY <1>2, <1>3, <1>4, <1>5, <1>6
  DEF vars, Next, Walk, ReconcileMissing, People, Outside, StartSweep, ListDir, ListEmptyDir,
      SkipDir, PassLink, VisitFile, Reconcile, LstatRow, ScanStat, Import, WriteFile,
      RemoveFile, ChangeDir, Crash, ScanFails, ReconcileFails

LEMMA CatalogInit == Init => TheCatalog!Init
BY DEF Init, TheCatalog!Init, ContentAt, MarkAt, BookContents, EditedContents, ContentIn, MarkIn

\* The two tables implement the catalog: over every interleaving of scans,
\* sweeps, clicks, failures and crashes each write is one change of the map.
THEOREM TablesKeepCatalog == Spec => KeepsCatalog
<1>1. TypeOK /\ TypeOK' /\ TablesInv /\ TablesInv' /\ PruneListOverdue /\ [Next]_vars
        => [TheCatalog!Next]_(TheCatalog!vars)
  BY CatalogStep
<1>2. QED
  BY <1>1, CatalogInit, TypeCorrect, TablesWhole, PruneOverdue, PTL
  DEF Spec, KeepsCatalog, TheCatalog!Spec

=============================================================================
