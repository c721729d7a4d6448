------------------------------ MODULE Library -------------------------------
(***************************************************************************)
(* The index and the library directory it describes: the sweep             *)
(* (scanner.Scan), the importer's IndexFile racing it, the two clicks that *)
(* touch the same rows, and everything that happens to the directory       *)
(* behind the program's back.                                              *)
(*                                                                         *)
(* Atomicity follows the code: one DB.Write callback is one step, one file *)
(* system probe is one step, and everything else may happen between two of *)
(* them.  A database read and a file system read that are adjacent in the  *)
(* code share a step: no step of anyone else changes both.                 *)
(***************************************************************************)
EXTENDS Tables

CONSTANTS Dirs,       \* the library root and the directories under it
          Root,       \* the library root
          DirOf,      \* DirOf[p]: the directory path p sits in
          TopOf,      \* TopOf[d]: the top-level directory d is or is under
          Rank,       \* the order WalkDir meets entries in, of a whole library
          NoFile,     \* disk[p] when no file is at p
          MaxEvents   \* bound: events the outside world may cause

\* Directories nest at most two deep below the root: d, TopOf[d] and Root
\* are all the ancestors of d.
ASSUME DirAssumption ==
  /\ Root \in Dirs
  /\ DirOf \in [Paths -> Dirs]
  /\ TopOf \in [Dirs -> Dirs]
  /\ \A d \in Dirs : TopOf[TopOf[d]] = TopOf[d] /\ (TopOf[d] = Root <=> d = Root)
ASSUME RankAssumption == Paths \cap Dirs = {} /\ Rank \in [Paths \cup Dirs -> Nat]
ASSUME NoFileAssumption == NoFile \notin Contents
ASSUME MaxEventsAssumption == MaxEvents \in Nat

VARIABLES
  disk,      \* disk[p]: the content of the file at p, or NoFile
  mtime,     \* mtime[p]: the size and mtime pair os.Stat reports at p
  dirState,  \* what listing and probing a directory gives
  clock,     \* events of the outside world so far; a fresh mtime
  files,     \* the book_files table
  books,     \* the books table
  nextFile,  \* book_files' AUTOINCREMENT sequence
  nextBook,  \* books' AUTOINCREMENT sequence
  scan,      \* scan[a]: where actor a is in scanFile
  sweep      \* the state of the running Scan

world == <<disk, mtime, dirState, clock>>
tables == <<files, books, nextFile, nextBook>>
vars == <<disk, mtime, dirState, clock, files, books, nextFile, nextBook,
          scan, sweep>>

\* The two callers of scanFile.
Actors == {"sweep", "importer"}

-----------------------------------------------------------------------------
(***************************************************************************)
(* The file system.  "ok": listed and probed.  "offline": an empty         *)
(* mountpoint, listed as empty, probed with ENOENT.  "unreadable": neither *)
(* listed nor probed (EACCES, EIO).  "linked": replaced by a symbolic      *)
(* link, not followed by the walk, probed through.                         *)
(***************************************************************************)
DirStates == {"ok", "offline", "unreadable", "linked"}

Ancestors(d) == {Root, TopOf[d], d}
Blocking(d) == {e \in Ancestors(d) : dirState[e] \in {"offline", "unreadable"}}

\* The outermost directory that stops a probe below d decides its answer.
BlockedBy(d, s) ==
  \E e \in Blocking(d) :
    dirState[e] = s /\ \A g \in Blocking(d) : e \in Ancestors(g)

\* os.Stat, os.Lstat or open at p: "absent" is fs.ErrNotExist, "unknown" any
\* other error.
Probe(p) ==
  IF BlockedBy(DirOf[p], "offline") THEN "absent"
  ELSE IF BlockedBy(DirOf[p], "unreadable") THEN "unknown"
  ELSE IF disk[p] = NoFile THEN "absent" ELSE "present"

FilesIn(d) == {p \in Paths : DirOf[p] = d /\ disk[p] # NoFile}
Parent(d) == IF TopOf[d] = d THEN Root ELSE TopOf[d]
SubDirs(d) == {e \in Dirs \ {Root} : Parent(e) = d}

-----------------------------------------------------------------------------
(***************************************************************************)
(* scanFile.  A file whose stat matches its row is left alone; otherwise   *)
(* it is hashed, its book is looked up, and one of three writes follows.   *)
(* An error ends the file, is counted, and changes nothing.                *)
(***************************************************************************)
Idle == [pc |-> "idle"]

Scans ==
  {Idle}
  \cup [pc : {"stat"}, path : Paths]
  \cup [pc : {"hash"}, path : Paths, stamp : Nat, row : SUBSET BookFiles]
  \cup [pc : {"touch"}, path : Paths, stamp : Nat, id : Nat]
  \cup [pc : {"create"}, path : Paths, stamp : Nat, hash : Contents]
  \cup [pc : {"attach", "raced"}, path : Paths, stamp : Nat, book : Nat]

\* os.Stat, then FindFileByPath, then the cheap check.
AfterStat(p) ==
  IF \/ Probe(p) # "present"
     \/ \E f \in FileAt(files, p) : f.stamp = mtime[p]
  THEN Idle
  ELSE [pc |-> "hash", path |-> p, stamp |-> mtime[p], row |-> FileAt(files, p)]

\* hashFile, then FindBookByContentHash, then the choice of the write.
AfterHash(s) ==
  LET known == BookWithHash(books, disk[s.path])
      same  == {f \in s.row : \E b \in known : f.book = b.id}
  IN  IF Probe(s.path) # "present" THEN {Idle}
      ELSE IF known = {} THEN
        {[pc |-> "create", path |-> s.path, stamp |-> s.stamp, hash |-> disk[s.path]]}
      ELSE IF same # {} THEN
        {[pc |-> "touch", path |-> s.path, stamp |-> s.stamp, id |-> f.id] : f \in same}
      ELSE
        {[pc |-> "attach", path |-> s.path, stamp |-> s.stamp, book |-> b.id] : b \in known}

\* IndexFile's first step; the sweep's is VisitFile.
ScanStat ==
  /\ scan["importer"].pc = "stat"
  /\ scan' = [scan EXCEPT !["importer"] = AfterStat(scan["importer"].path)]
  /\ UNCHANGED <<world, tables, sweep>>

ScanHash(a) ==
  /\ scan[a].pc = "hash"
  /\ \E s \in AfterHash(scan[a]) : scan' = [scan EXCEPT ![a] = s]
  /\ UNCHANGED <<world, tables, sweep>>

\* Same book, same path: only the stat drifted.
ScanTouch(a) ==
  /\ scan[a].pc = "touch"
  /\ files' = UpdateBookFileStat(files, scan[a].id, scan[a].stamp)
  /\ scan' = [scan EXCEPT ![a] = Idle]
  /\ UNCHANGED <<world, books, nextFile, nextBook, sweep>>

\* Mutant: the row records a stat taken after the hash, not before it.
ScanCreateLateStat(a) ==
  /\ scan[a].pc = "create"
  /\ BookWithHash(books, scan[a].hash) = {}
  /\ files' = UpsertBookFile(files, nextFile, nextBook, scan[a].path, mtime[scan[a].path])
  /\ books' = BooksAfterCreate(books, files', PreviousOwner(files, scan[a].path),
                               nextBook, scan[a].hash)
  /\ nextFile' = nextFile + 1 /\ nextBook' = nextBook + 1
  /\ scan' = [scan EXCEPT ![a] = Idle]
  /\ UNCHANGED <<world, sweep>>

\* createBook inserts the book with its first location in one transaction.
ScanCreate(a) ==
  /\ scan[a].pc = "create"
  /\ BookWithHash(books, scan[a].hash) = {}
  /\ files' = UpsertBookFile(files, nextFile, nextBook, scan[a].path, scan[a].stamp)
  /\ books' = BooksAfterCreate(books, files', PreviousOwner(files, scan[a].path),
                               nextBook, scan[a].hash)
  /\ nextFile' = nextFile + 1
  /\ nextBook' = nextBook + 1
  /\ scan' = [scan EXCEPT ![a] = Idle]
  /\ UNCHANGED <<world, sweep>>

\* createBook fails on UNIQUE(content_hash); the re-read finds the winner.
ScanLoseRace(a) ==
  /\ scan[a].pc = "create"
  /\ \E b \in BookWithHash(books, scan[a].hash) :
       scan' = [scan EXCEPT ![a] = [pc |-> "raced", path |-> scan[a].path,
                                    stamp |-> scan[a].stamp, book |-> b.id]]
  /\ UNCHANGED <<world, tables, sweep>>

\* Known content at a path the index does not have, or has for another book.
\* The foreign key refuses a book deleted since it was looked up.
ScanAttach(a) ==
  /\ scan[a].pc \in {"attach", "raced"}
  /\ IF scan[a].book \in BookIds(books)
     THEN /\ files' = UpsertBookFile(files, nextFile, scan[a].book, scan[a].path, scan[a].stamp)
          /\ books' = BooksAfterReassign(books, files', PreviousOwner(files, scan[a].path),
                                         scan[a].book)
          /\ nextFile' = nextFile + 1
     ELSE UNCHANGED <<files, books, nextFile>>
  /\ scan' = [scan EXCEPT ![a] = Idle]
  /\ UNCHANGED <<world, nextBook, sweep>>

-----------------------------------------------------------------------------
(***************************************************************************)
(* Scan.  The walk lists a directory when it reaches it and then visits    *)
(* what it listed, in lexical order; reconcileMissing lists the table,     *)
(* probes each row the walk did not see, in any order, and writes three    *)
(* times.  steady is a history variable the code does not keep: the        *)
(* directories whose state has not changed since the sweep started.        *)
(***************************************************************************)
NoSweep ==
  [phase |-> "idle", dirs |-> {}, todo |-> {}, seen |-> {}, skipped |-> {},
   linked |-> {}, unseen |-> {}, mark |-> {}, clear |-> {}, prune |-> {},
   steady |-> {}]

Sweeps ==
  [phase : {"idle", "walk", "check"},
   dirs : SUBSET Dirs, todo : SUBSET Paths, seen : SUBSET Paths,
   skipped : SUBSET Dirs, linked : SUBSET Dirs, unseen : SUBSET BookFiles,
   mark : SUBSET Nat, clear : SUBSET Nat, prune : SUBSET Nat,
   steady : SUBSET Dirs]

\* The sweep is over once reconcileMissing has nothing left to do.
Settle(s) ==
  IF s.unseen = {} /\ s.mark = {} /\ s.clear = {} /\ s.prune = {} THEN NoSweep ELSE s

StartSweep ==
  /\ sweep.phase = "idle"
  /\ sweep' = [NoSweep EXCEPT !.phase = "walk", !.dirs = {Root}, !.steady = Dirs]
  /\ UNCHANGED <<world, tables, scan>>

Listed == sweep.dirs \cup sweep.todo

\* The walk has listed e, and meets it next.
Meets(e) ==
  /\ sweep.phase = "walk" /\ scan["sweep"] = Idle
  /\ e \in Listed /\ \A g \in Listed : Rank[e] <= Rank[g]

\* WalkDir lists directory d and reports what is in it.
ListDir(d) ==
  /\ Meets(d)
  /\ dirState[d] = "ok" /\ (d = Root \/ Blocking(Parent(d)) = {})
  /\ sweep' = [sweep EXCEPT !.dirs = (@ \ {d}) \cup SubDirs(d),
                            !.todo = @ \cup FilesIn(d),
                            !.seen = @ \cup FilesIn(d)]
  /\ UNCHANGED <<world, tables, scan>>

\* An empty mountpoint lists as an empty directory, without an error.
ListEmptyDir(d) ==
  /\ Meets(d)
  /\ dirState[d] = "offline" /\ (d = Root \/ Blocking(Parent(d)) = {})
  /\ sweep' = [sweep EXCEPT !.dirs = @ \ {d}]
  /\ UNCHANGED <<world, tables, scan>>

\* A directory that cannot be read costs its subtree; the root, the sweep.
SkipDir(d) ==
  /\ Meets(d)
  /\ dirState[d] # "linked"
  /\ dirState[d] = "unreadable" \/ (d # Root /\ Blocking(Parent(d)) # {})
  /\ sweep' = IF d = Root THEN NoSweep
              ELSE [sweep EXCEPT !.dirs = @ \ {d}, !.skipped = @ \cup {d}]
  /\ UNCHANGED <<world, tables, scan>>

\* A symbolic link to a directory is recorded and not followed; one that
\* does not resolve is passed over.
PassLink(d) ==
  /\ Meets(d)
  /\ dirState[d] = "linked"
  /\ sweep' = [sweep EXCEPT !.dirs = @ \ {d},
                            !.linked = IF Blocking(Parent(d)) = {} THEN @ \cup {d} ELSE @]
  /\ UNCHANGED <<world, tables, scan>>

VisitFile(p) ==
  /\ Meets(p)
  /\ sweep' = [sweep EXCEPT !.todo = @ \ {p}]
  /\ scan' = [scan EXCEPT !["sweep"] = AfterStat(p)]
  /\ UNCHANGED <<world, tables>>

UnderAny(p, dirs) == Ancestors(DirOf[p]) \cap dirs # {}

\* A walk that found no file reconciles nothing.  Otherwise ListFilesUnder
\* reads the table, and rows the walk saw or could not look for are decided.
Reconcile ==
  /\ sweep.phase = "walk" /\ scan["sweep"] = Idle /\ Listed = {}
  /\ LET rows == {f \in files : ~UnderAny(f.path, sweep.skipped)}
         back == {f \in rows : f.path \in sweep.seen /\ f.mark # "no"}
     IN  sweep' = IF sweep.seen = {} THEN NoSweep
                  ELSE Settle([sweep EXCEPT
                         !.phase = "check",
                         !.unseen = {f \in rows : f.path \notin sweep.seen},
                         !.clear = {f.id : f \in back}])
  /\ UNCHANGED <<world, tables, scan>>

\* Mutants: the test of the links is missing; or the row's own directory
\* stands for the top-level one.
UnconfirmedByTop(p) ==
  TopOf[DirOf[p]] # Root /\ ~\E q \in sweep.seen : TopOf[DirOf[q]] = TopOf[DirOf[p]]
UnconfirmedByParent(p) ==
  \/ DirOf[p] # Root /\ ~\E q \in sweep.seen : DirOf[q] = DirOf[p]
  \/ UnderAny(p, sweep.linked)

\* Its top-level directory yielded no file, or the walk met it as a link.
Unconfirmed(p) ==
  \/ /\ TopOf[DirOf[p]] # Root
     /\ ~\E q \in sweep.seen : TopOf[DirOf[q]] = TopOf[DirOf[p]]
  \/ UnderAny(p, sweep.linked)

\* os.Lstat of an unseen row.  Only an error other than ErrNotExist leaves
\* the row alone: an absence and a success are both believed.
LstatRow(f) ==
  /\ sweep.phase = "check"
  /\ f \in sweep.unseen
  /\ LET known == Probe(f.path) # "unknown"
         overdue == f.mark = "old" /\ ~Unconfirmed(f.path)
     IN  sweep' = Settle([sweep EXCEPT
           !.unseen = @ \ {f},
           !.mark  = @ \cup {i \in {f.id} : known /\ f.mark = "no"},
           !.prune = @ \cup {i \in {f.id} : known /\ overdue}])
  /\ UNCHANGED <<world, tables, scan>>

\* The three writes, in this order, each only for a list that is not empty.
MarkMissing ==
  /\ sweep.phase = "check" /\ sweep.unseen = {} /\ sweep.mark # {}
  /\ files' = SetFilesMissing(files, sweep.mark)
  /\ sweep' = Settle([sweep EXCEPT !.mark = {}])
  /\ UNCHANGED <<world, books, nextFile, nextBook, scan>>

ClearMissing ==
  /\ sweep.phase = "check" /\ sweep.unseen = {} /\ sweep.mark = {} /\ sweep.clear # {}
  /\ files' = ClearFilesMissing(files, sweep.clear)
  /\ sweep' = Settle([sweep EXCEPT !.clear = {}])
  /\ UNCHANGED <<world, books, nextFile, nextBook, scan>>

PruneMissing ==
  /\ sweep.phase = "check" /\ sweep.unseen = {} /\ sweep.mark = {} /\ sweep.clear = {}
  /\ files' = DeleteFiles(files, sweep.prune)
  /\ books' = PruneOrphans(books, files', OwnersOf(files, sweep.prune))
  /\ sweep' = NoSweep
  /\ UNCHANGED <<world, nextFile, nextBook, scan>>

-----------------------------------------------------------------------------
\* The rest of the program: two clicks and the importer's publish.

\* ForgetMissingFile: the mark is a condition of the DELETE itself.
ForgetMissingFile(f) ==
  /\ f \in files /\ f.mark # "no"
  /\ files' = DeleteFiles(files, {f.id})
  /\ books' = PruneOrphans(books, files', {f.book})
  /\ UNCHANGED <<world, nextFile, nextBook, scan, sweep>>

\* A person edits a field of book b by hand.
EditBook(b) ==
  /\ b \in books /\ ~b.edited
  /\ books' = (books \ {b}) \cup {[b EXCEPT !.edited = TRUE]}
  /\ UNCHANGED <<world, files, nextFile, nextBook, scan, sweep>>

\* copyIntoLibrary publishes only at names free in the library root, then
\* IndexFile runs on the new file.
Import(p, c) ==
  /\ clock < MaxEvents
  /\ scan["importer"] = Idle
  /\ DirOf[p] = Root /\ Probe(p) = "absent" /\ dirState[Root] = "ok"
  /\ disk' = [disk EXCEPT ![p] = c]
  /\ mtime' = [mtime EXCEPT ![p] = clock + 1]
  /\ clock' = clock + 1
  /\ scan' = [scan EXCEPT !["importer"] = [pc |-> "stat", path |-> p]]
  /\ UNCHANGED <<dirState, tables, sweep>>

-----------------------------------------------------------------------------
\* The outside world, at most MaxEvents times.

\* A file appears or is rewritten, with an mtime and size new to its path.
WriteFile(p, c) ==
  /\ clock < MaxEvents
  /\ Blocking(DirOf[p]) = {}
  /\ disk' = [disk EXCEPT ![p] = c]
  /\ mtime' = [mtime EXCEPT ![p] = clock + 1]
  /\ clock' = clock + 1
  /\ UNCHANGED <<dirState, tables, scan, sweep>>

RemoveFile(p) ==
  /\ clock < MaxEvents
  /\ Probe(p) = "present"
  /\ disk' = [disk EXCEPT ![p] = NoFile]
  /\ mtime' = [mtime EXCEPT ![p] = 0]
  /\ clock' = clock + 1
  /\ UNCHANGED <<dirState, tables, scan, sweep>>

\* A volume goes or comes back, a directory loses its permissions or is
\* replaced by a link.  The root is never a link.
ChangeDir(d, s) ==
  /\ clock < MaxEvents
  /\ dirState[d] # s /\ (d = Root => s # "linked")
  /\ dirState' = [dirState EXCEPT ![d] = s]
  /\ clock' = clock + 1
  /\ sweep' = [sweep EXCEPT !.steady = @ \ {d}]
  /\ UNCHANGED <<disk, mtime, tables, scan>>

\* A read or a write of scanFile fails, which ends the file.
ScanFails(a) ==
  /\ clock < MaxEvents
  /\ scan[a] # Idle
  /\ clock' = clock + 1
  /\ scan' = [scan EXCEPT ![a] = Idle]
  /\ UNCHANGED <<disk, mtime, dirState, tables, sweep>>

\* A statement of reconcileMissing fails: without the rows there is nothing
\* to do, and a write that fails is logged and the next one tried.
Dropped ==
  IF sweep.phase = "walk" THEN NoSweep
  ELSE IF sweep.mark # {} THEN Settle([sweep EXCEPT !.mark = {}])
  ELSE IF sweep.clear # {} THEN Settle([sweep EXCEPT !.clear = {}])
  ELSE NoSweep

ReconcileFails ==
  /\ clock < MaxEvents
  /\ \/ sweep.phase = "walk" /\ scan["sweep"] = Idle /\ Listed = {}
     \/ sweep.phase = "check" /\ sweep.unseen = {}
  /\ clock' = clock + 1
  /\ sweep' = Dropped
  /\ UNCHANGED <<disk, mtime, dirState, tables, scan>>

\* The process dies, or a shutdown cancels the sweep and the request.
Crash ==
  /\ clock < MaxEvents
  /\ clock' = clock + 1
  /\ scan' = [a \in Actors |-> Idle]
  /\ sweep' = NoSweep
  /\ UNCHANGED <<disk, mtime, dirState, tables>>

\* missingGrace goes by: every mark already set is now past it.
GracePasses ==
  /\ \E f \in files : f.mark = "recent"
  /\ files' = {IF f.mark = "recent" THEN [f EXCEPT !.mark = "old"] ELSE f : f \in files}
  /\ UNCHANGED <<world, books, nextFile, nextBook, scan, sweep>>

-----------------------------------------------------------------------------
Init ==
  /\ disk = [p \in Paths |-> NoFile]
  /\ mtime = [p \in Paths |-> 0]
  /\ dirState = [d \in Dirs |-> "ok"]
  /\ clock = 0
  /\ files = {} /\ books = {}
  /\ nextFile = 1 /\ nextBook = 1
  /\ scan = [a \in Actors |-> Idle]
  /\ sweep = NoSweep

ScanFile(a) ==
  ScanHash(a) \/ ScanTouch(a) \/ ScanCreate(a) \/ ScanLoseRace(a) \/ ScanAttach(a)

Walk ==
  \/ \E d \in Dirs : ListDir(d) \/ ListEmptyDir(d) \/ SkipDir(d) \/ PassLink(d)
  \/ \E p \in Paths : VisitFile(p)

ReconcileMissing ==
  \/ Reconcile
  \/ \E f \in sweep.unseen : LstatRow(f)
  \/ MarkMissing \/ ClearMissing \/ PruneMissing

People ==
  \/ \E f \in files : ForgetMissingFile(f)
  \/ \E b \in books : EditBook(b)
  \/ \E p \in Paths, c \in Contents : Import(p, c)

Outside ==
  \/ \E p \in Paths, c \in Contents : WriteFile(p, c)
  \/ \E p \in Paths : RemoveFile(p)
  \/ \E d \in Dirs, s \in DirStates : ChangeDir(d, s)
  \/ \E a \in Actors : ScanFails(a)
  \/ ReconcileFails
  \/ Crash
  \/ GracePasses

Next ==
  \/ StartSweep \/ Walk \/ ReconcileMissing
  \/ ScanStat \/ \E a \in Actors : ScanFile(a)
  \/ People \/ Outside

Spec == Init /\ [][Next]_vars
=============================================================================
