------------------------------- MODULE Tables -------------------------------
(***************************************************************************)
(* The two tables of the index and the statements internal/storage runs on *)
(* them.  A table is a set of records, one per row; an operator returns    *)
(* what a statement leaves the table as.  Everything a DB.Write callback   *)
(* does is one transaction on the single write connection, so callers      *)
(* apply these operators in one step.                                      *)
(*                                                                         *)
(*   book_files  [id, path, book, stamp, mark]                             *)
(*       stamp stands for the pair (file_size, modified_at) of the cheap   *)
(*       check; mark is missing_since seen through the grace period:       *)
(*       "no" is NULL, "recent" is younger than the grace, "old" is past.  *)
(*   books       [id, hash, edited]                                        *)
(*       edited stands for the book's manual field_sources rows.           *)
(***************************************************************************)
EXTENDS Naturals

CONSTANTS Paths,    \* slash-separated paths relative to the library root
          Contents  \* content hashes

Marks == {"no", "recent", "old"}

BookFiles == [id : Nat, path : Paths, book : Nat, stamp : Nat, mark : Marks]
Books == [id : Nat, hash : Contents, edited : BOOLEAN]

\* SELECT ... FROM book_files WHERE file_path = p: at most one row, as a set.
FileAt(files, p) == {f \in files : f.path = p}

\* The locations of book b.
FilesOf(files, b) == {f \in files : f.book = b}

\* SELECT ... FROM books WHERE content_hash = h: at most one row, as a set.
BookWithHash(books, h) == {b \in books : b.hash = h}

BookIds(books) == {b.id : b \in books}

\* previousFileOwnerTx: the owner of p before an upsert, as a set.
PreviousOwner(files, p) == {f.book : f \in FileAt(files, p)}

(***************************************************************************)
(* Statements with a plausible bug, for the mutation of the checks; the    *)
(* specification uses none of them.                                        *)
(***************************************************************************)

\* The upsert also takes the missing mark off the row it updates.
UpsertClearingMark(files, newId, b, p, s) ==
  {f \in files : f.path # p} \cup
    {[id |-> IF FileAt(files, p) = {} THEN newId ELSE (CHOOSE f \in FileAt(files, p) : TRUE).id,
      path |-> p, book |-> b, stamp |-> s, mark |-> "no"]}

\* The reassignment forgets to prune the previous owner.
BooksKeptOnReassign(books, files, owner, b) == books

\* The replaced book is deleted before its edits are read.
BooksAfterCreateTooLate(books, files, owner, new, h) ==
  {b \in books : b.id \in owner => FilesOf(files, b.id) # {}} \cup
    {[id |-> new, hash |-> h, edited |-> FALSE]}

\* A row seen again keeps its mark.
ClearNoFile(files, ids) == files

(***************************************************************************)
(* upsertBookFileTx: a path already in the table keeps its row, its id and *)
(* its missing_since, and changes owner and stat; a new path gets newId.   *)
(***************************************************************************)
UpsertBookFile(files, newId, b, p, s) ==
  IF FileAt(files, p) = {}
  THEN files \cup
       {[id |-> newId, path |-> p, book |-> b, stamp |-> s, mark |-> "no"]}
  ELSE {IF f.path = p THEN [f EXCEPT !.book = b, !.stamp = s] ELSE f : f \in files}

\* pruneOrphanedBookTx on each of ids: a book left with no location goes.
PruneOrphans(books, files, ids) ==
  {b \in books : b.id \in ids => FilesOf(files, b.id) # {}}

(***************************************************************************)
(* CreateBookWithFile: the books table after a new book took over path p.  *)
(* files is the table after the upsert.  A previous owner left with no     *)
(* location has been replaced: what a person edited on it moves to the new *)
(* book before it is deleted (inheritFromReplacedBookTx).                  *)
(***************************************************************************)
ReplacedBook(files, owner, new) ==
  {o \in owner : o # new /\ FilesOf(files, o) = {}}

BooksAfterCreate(books, files, owner, new, h) ==
  LET replaced == ReplacedBook(files, owner, new)
      inherits == \E b \in books : b.id \in replaced /\ b.edited
  IN  PruneOrphans(books, files, replaced) \cup
        {[id |-> new, hash |-> h, edited |-> inherits]}

\* ReassignFileAndPruneOrphan: the books table once b owns the path.
BooksAfterReassign(books, files, owner, b) ==
  PruneOrphans(books, files, owner \ {b})

\* updateBookFileStatTx: the stat of row id is refreshed.
UpdateBookFileStat(files, id, s) ==
  {IF f.id = id THEN [f EXCEPT !.stamp = s] ELSE f : f \in files}

\* SetFilesMissing: first seen missing wins, a marked row keeps its mark.
SetFilesMissing(files, ids) ==
  {IF f.id \in ids /\ f.mark = "no" THEN [f EXCEPT !.mark = "recent"] ELSE f : f \in files}

\* ClearFilesMissing: missing_since back to NULL.
ClearFilesMissing(files, ids) ==
  {IF f.id \in ids THEN [f EXCEPT !.mark = "no"] ELSE f : f \in files}

\* PruneMissingFiles and ForgetMissingFile: the rows a DELETE by id leaves.
DeleteFiles(files, ids) == {f \in files : f.id \notin ids}

\* The books that own a row of ids: those a DELETE may leave empty.
OwnersOf(files, ids) == {f.book : f \in {g \in files : g.id \in ids}}
=============================================================================
