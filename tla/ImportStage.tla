---------------------------- MODULE ImportStage -----------------------------
(***************************************************************************)
(* The importer's staging area (importer.Stager): uploads admitted against *)
(* a budget, the registry of staged files, confirm, discard, expiry, the   *)
(* copy into the library under a name nothing else holds, and the restart  *)
(* that wipes what was staged.                                             *)
(*                                                                         *)
(* What is done under Stager.mu is one step; so is each file system call   *)
(* another actor could come between, and each database call.               *)
(***************************************************************************)
EXTENDS Integers, FiniteSets

CONSTANTS
  Ids,         \* stage ids: each upload draws a new one
  Clicks,      \* confirm requests that may be under way at once
  Contents,    \* file contents
  NoFile,      \* no file at a library name
  Free, Left,  \* a .part name nobody holds; one a crash left behind
  MaxName,     \* bound: candidates of the library name tried (maxNameAttempts)
  MaxSize,     \* MAX_IMPORT_SIZE
  Factor,      \* stagingBudgetFactor
  Sizes,       \* sizes a body may have, of those the cap admits
  Extras,      \* bytes of cover and metadata a stage may retain
  MaxEvents    \* bound: faults, restarts and changes by the outside world

ASSUME SizeAssumption ==
  MaxSize \in Nat /\ Factor \in Nat /\ Sizes \subseteq 0 .. MaxSize /\ Extras \subseteq Nat
ASSUME NameAssumption ==
  /\ NoFile \notin Contents /\ {Free, Left} \cap Clicks = {} /\ Free # Left
  /\ MaxName \in Nat \ {0} /\ MaxEvents \in Nat

VARIABLES
  stages,     \* stages[i]: the upload i, or its record in the registry
  staged,     \* Stager.staged, the bytes charged to the budget
  temp,       \* ids whose file is in the temp directory
  clicks,     \* clicks[k]: where a confirm is
  lib,        \* lib[n]: the content at the n-th candidate name in the library
  parts,      \* parts[n]: who holds the n-th candidate .part name
  book,       \* book[c]: the id of the book with content c, 0 when none
  nextBook,
  published,  \* published[i]: copies of stage i put in the library (history)
  answers,    \* answers[i]: book ids confirms of i have answered (history)
  events

vars == <<stages, staged, temp, clicks, lib, parts, book, nextBook, published, answers, events>>
library == <<lib, parts, book, nextBook>>
history == <<published, answers>>

Names == 1 .. MaxName

\* "new": not uploaded yet; "copy", "verdict", "register": Stage is running;
\* "live": registered; "gone": refused or removed.  A confirm may still hold
\* a record that is gone.
Uploading == {"copy", "verdict", "register"}
NoStage == [pc |-> "new", reserved |-> 0, done |-> FALSE, book |-> 0, expired |-> FALSE]
Stages ==
  [pc : {"new"}, reserved : {0}, done : {FALSE}, book : {0}, expired : {FALSE}]
  \cup [pc : Uploading \cup {"live", "gone"}, reserved : Nat, done : BOOLEAN, book : Nat,
        expired : BOOLEAN, content : Contents, size : Nat, extra : Nat]

NoClick == [pc |-> "idle"]
ClickStates ==
  {NoClick}
  \cup [pc : {"lock", "open"}, id : Ids]
  \cup [pc : {"claim"}, id : Ids, n : Names]
  \cup [pc : {"copy"}, id : Ids, part : Names]
  \cup [pc : {"link", "lstat", "rename"}, id : Ids, part : Names, n : Names]
  \cup [pc : {"take", "index"}, id : Ids, n : Names]

Event == events < MaxEvents /\ events' = events + 1

-----------------------------------------------------------------------------
(***************************************************************************)
(* Stage.                                                                  *)
(***************************************************************************)

\* Mutant: the room is looked for before the upload is counted.
ReserveBeside(i) ==
  /\ stages[i].pc = "new"
  /\ staged < MaxSize * Factor
  /\ staged' = staged + MaxSize
  /\ \E c \in Contents, s \in Sizes, e \in Extras :
       stages' = [stages EXCEPT ![i] =
         [pc |-> "copy", reserved |-> 0, done |-> FALSE, book |-> 0, expired |-> FALSE,
          content |-> c, size |-> s, extra |-> e]]
  /\ temp' = temp \cup {i}
  /\ UNCHANGED <<clicks, library, history, events>>

\* reserve admits an upload at the cap, then copyIn opens its file.  A
\* refused upload changes nothing.
Reserve(i) ==
  /\ stages[i].pc = "new"
  /\ staged + MaxSize <= MaxSize * Factor
  /\ staged' = staged + MaxSize
  /\ \E c \in Contents, s \in Sizes, e \in Extras :
       stages' = [stages EXCEPT ![i] =
         [pc |-> "copy", reserved |-> 0, done |-> FALSE, book |-> 0, expired |-> FALSE,
          content |-> c, size |-> s, extra |-> e]]
  /\ temp' = temp \cup {i}
  /\ UNCHANGED <<clicks, library, history, events>>

CopyIn(i) ==
  /\ stages[i].pc = "copy"
  /\ stages' = [stages EXCEPT ![i].pc = "verdict"]
  /\ UNCHANGED <<staged, temp, clicks, library, history, events>>

\* Mutant: the file of a refused upload is left behind.
StageFailsLeaving(i) ==
  /\ stages[i].pc = "copy" /\ UNCHANGED events
  /\ stages' = [stages EXCEPT ![i].pc = "gone"]
  /\ staged' = staged - MaxSize
  /\ UNCHANGED <<temp, clicks, library, history>>

\* The body is over the cap, breaks off, or is no book; or the verdict's
\* lookup fails.  The file goes, and the deferred release gives the cap back.
StageFails(i) ==
  /\ \/ stages[i].pc = "copy" /\ UNCHANGED events
     \/ stages[i].pc = "verdict" /\ Event
  /\ stages' = [stages EXCEPT ![i].pc = "gone"]
  /\ temp' = temp \ {i} /\ staged' = staged - MaxSize
  /\ UNCHANGED <<clicks, library, history>>

\* retained, then decideVerdict: content the library has drops its file, and
\* the record is done.  A match by title only colours the preview.
DecideVerdict(i) ==
  /\ stages[i].pc = "verdict"
  /\ LET known == book[stages[i].content]
     IN  /\ stages' = [stages EXCEPT
              ![i].pc = "register", ![i].done = known # 0, ![i].book = known,
              ![i].reserved = stages[i].extra + IF known = 0 THEN stages[i].size ELSE 0]
         /\ temp' = IF known = 0 THEN temp ELSE temp \ {i}
  /\ UNCHANGED <<staged, clicks, library, history, events>>

\* The record owns what it retains, charged at that and not at the cap.
Register(i) ==
  /\ stages[i].pc = "register"
  /\ stages' = [stages EXCEPT ![i].pc = "live"]
  /\ staged' = staged - (MaxSize - stages[i].reserved)
  /\ UNCHANGED <<temp, clicks, library, history, events>>

-----------------------------------------------------------------------------
(***************************************************************************)
(* The end of a stage: expiry, discard, janitor.                           *)
(***************************************************************************)

\* What the stages of ids retain, byte by byte.
Retained(ids) == UNION {{i} \X (1 .. stages[i].reserved) : i \in ids}

\* Mutant: a removed record keeps what it was charged.
RemovedCharged(ids) == [i \in Ids |-> IF i \in ids THEN [stages[i] EXCEPT !.pc = "gone"] ELSE stages[i]]

Removed(ids) ==
  [i \in Ids |-> IF i \in ids THEN [stages[i] EXCEPT !.pc = "gone", !.reserved = 0] ELSE stages[i]]

\* remove, on each of ids: the file goes, the charge is given back.
Remove(ids) ==
  /\ stages' = Removed(ids)
  /\ temp' = temp \ ids
  /\ staged' = staged - Cardinality(Retained(ids))
  /\ UNCHANGED <<library, history, events>>

\* StageTTL goes by.
Expire(i) ==
  /\ stages[i].pc \in {"register", "live"} /\ ~stages[i].expired
  /\ stages' = [stages EXCEPT ![i].expired = TRUE]
  /\ UNCHANGED <<staged, temp, clicks, library, history, events>>

Expired == {i \in Ids : stages[i].pc = "live" /\ stages[i].expired}

\* The janitor's sweep.
Janitor == Expired # {} /\ Remove(Expired) /\ UNCHANGED clicks

Discard(i) == stages[i].pc = "live" /\ Remove({i}) /\ UNCHANGED clicks

-----------------------------------------------------------------------------
(***************************************************************************)
(* Confirm.                                                                *)
(***************************************************************************)
Goes(k, c) == clicks' = [clicks EXCEPT ![k] = c]
OnlyClick == UNCHANGED <<stages, staged, temp, library, history>>

\* The registry lookup: a stage past its time is removed and refused; one
\* that is gone is refused.
Press(k, i) ==
  /\ clicks[k] = NoClick /\ stages[i].pc = "live"
  /\ IF stages[i].expired THEN Remove({i}) /\ UNCHANGED clicks
     ELSE Goes(k, [pc |-> "lock", id |-> i]) /\ OnlyClick /\ UNCHANGED events

\* Clicks inside the critical section of stage i, whose lock is its own.
Confirming(i) == {k \in Clicks : clicks[k].pc \notin {"idle", "lock"} /\ clicks[k].id = i}

\* Mutant: two confirms of one stage are not serialised.
LockNothing(k) ==
  /\ clicks[k].pc = "lock"
  /\ ~stages[clicks[k].id].done
  /\ Goes(k, [clicks[k] EXCEPT !.pc = "open"])
  /\ OnlyClick /\ UNCHANGED events

Lock(k) ==
  /\ clicks[k].pc = "lock" /\ Confirming(clicks[k].id) = {}
  /\ ~stages[clicks[k].id].done
  /\ Goes(k, [clicks[k] EXCEPT !.pc = "open"])
  /\ OnlyClick /\ UNCHANGED events

\* A stage that is done answers its book, or ErrNotIndexed when it has none.
AnswerAgain(k) ==
  /\ clicks[k].pc = "lock" /\ Confirming(clicks[k].id) = {}
  /\ LET i == clicks[k].id
     IN  /\ stages[i].done
         /\ answers' = [answers EXCEPT ![i] = @ \cup ({stages[i].book} \ {0})]
  /\ Goes(k, NoClick)
  /\ UNCHANGED <<stages, staged, temp, library, published, events>>

\* copyIntoLibrary opens the staged file; without it the stage has expired.
Open(k) ==
  /\ clicks[k].pc = "open"
  /\ Goes(k, IF clicks[k].id \in temp THEN [pc |-> "claim", id |-> clicks[k].id, n |-> 1]
             ELSE NoClick)
  /\ OnlyClick /\ UNCHANGED events

\* claimPart: O_CREATE|O_EXCL on the candidates, one after the other.
ClaimPart(k) ==
  /\ clicks[k].pc = "claim"
  /\ LET n == clicks[k].n
     IN  IF parts[n] = Free
         THEN /\ parts' = [parts EXCEPT ![n] = k]
              /\ Goes(k, [pc |-> "copy", id |-> clicks[k].id, part |-> n])
         ELSE /\ UNCHANGED parts
              /\ Goes(k, IF n < MaxName THEN [clicks[k] EXCEPT !.n = n + 1] ELSE NoClick)
  /\ UNCHANGED <<stages, staged, temp, lib, book, nextBook, history, events>>

DropPart(k) == parts' = [parts EXCEPT ![clicks[k].part] = Free]

CopyPart(k) ==
  /\ clicks[k].pc = "copy"
  /\ \/ /\ Goes(k, [pc |-> "link", id |-> clicks[k].id, part |-> clicks[k].part, n |-> 1])
        /\ UNCHANGED <<parts, events>>
     \/ Event /\ Goes(k, NoClick) /\ DropPart(k)
  /\ UNCHANGED <<stages, staged, temp, lib, book, nextBook, history>>

\* The file is at its n-th candidate name and the .part is gone.
Publish(k, n) ==
  /\ lib' = [lib EXCEPT ![n] = stages[clicks[k].id].content]
  /\ DropPart(k)
  /\ published' = [published EXCEPT ![clicks[k].id] = @ + 1]
  /\ Goes(k, [pc |-> "take", id |-> clicks[k].id, n |-> n])

\* The candidate is taken: the next one, or none is left.
NextName(k) ==
  /\ IF clicks[k].n < MaxName
     THEN Goes(k, [clicks[k] EXCEPT !.n = @ + 1]) /\ UNCHANGED parts
     ELSE Goes(k, NoClick) /\ DropPart(k)
  /\ UNCHANGED <<lib, published>>

\* Mutant: a library name is taken over, as os.Rename would.
LinkOver(k) ==
  /\ clicks[k].pc = "link"
  /\ Publish(k, clicks[k].n)
  /\ UNCHANGED <<stages, staged, temp, book, nextBook, answers, events>>

\* os.Link, which never replaces, then the .part is removed.
Link(k) ==
  /\ clicks[k].pc = "link"
  /\ IF lib[clicks[k].n] = NoFile THEN Publish(k, clicks[k].n) ELSE NextName(k)
  /\ UNCHANGED <<stages, staged, temp, book, nextBook, answers, events>>

\* Any other error of os.Link, on a file system without hard links or not,
\* turns to renamePublish.
LinkFails(k) ==
  /\ clicks[k].pc = "link" /\ Event
  /\ Goes(k, [clicks[k] EXCEPT !.pc = "lstat", !.n = 1])
  /\ OnlyClick

\* renamePublish: os.Lstat, then os.Rename, which replaces what has come to
\* the name since.
LstatName(k) ==
  /\ clicks[k].pc = "lstat"
  /\ IF lib[clicks[k].n] = NoFile
     THEN Goes(k, [clicks[k] EXCEPT !.pc = "rename"]) /\ UNCHANGED <<lib, parts, published>>
     ELSE NextName(k)
  /\ UNCHANGED <<stages, staged, temp, book, nextBook, answers, events>>

Rename(k) ==
  /\ clicks[k].pc = "rename"
  /\ Publish(k, clicks[k].n)
  /\ UNCHANGED <<stages, staged, temp, book, nextBook, answers, events>>

\* taken: the library holds the bytes, so the stage lets go of its own.
Taken(i) ==
  /\ stages' = [stages EXCEPT ![i].reserved = 0, ![i].done = TRUE]
  /\ staged' = staged - stages[i].reserved
  /\ temp' = temp \ {i}

Take(k) ==
  /\ clicks[k].pc = "take"
  /\ Taken(clicks[k].id)
  /\ Goes(k, [clicks[k] EXCEPT !.pc = "index"])
  /\ UNCHANGED <<library, history, events>>

\* The book of content c, created when there is none.
Indexed(c) ==
  IF book[c] # 0 THEN UNCHANGED <<book, nextBook>>
  ELSE book' = [book EXCEPT ![c] = nextBook] /\ nextBook' = nextBook + 1

\* IndexFile on what is now at the name, then landed and the answer.
Index(k) ==
  /\ clicks[k].pc = "index"
  /\ LET i == clicks[k].id
         c == lib[clicks[k].n]
     IN  /\ c # NoFile
         /\ Indexed(c)
         /\ stages' = [stages EXCEPT ![i].book = book'[c]]
         /\ answers' = [answers EXCEPT ![i] = @ \cup {book'[c]}]
  /\ Goes(k, NoClick)
  /\ UNCHANGED <<staged, temp, lib, parts, published, events>>

\* The file is gone again, or the index write fails: ErrNotIndexed.
IndexFails(k) ==
  /\ clicks[k].pc = "index"
  /\ (lib[clicks[k].n] = NoFile /\ UNCHANGED events) \/ Event
  /\ Goes(k, NoClick)
  /\ OnlyClick

-----------------------------------------------------------------------------
(***************************************************************************)
(* A restart, and the outside world, at most MaxEvents times.              *)
(***************************************************************************)

\* The process ends and New wipes the temp directory; a .part in the
\* library stays.
Restart ==
  /\ Event
  /\ stages' = Removed({i \in Ids : stages[i].pc # "new"})
  /\ staged' = 0 /\ temp' = {}
  /\ clicks' = [k \in Clicks |-> NoClick]
  /\ parts' = [n \in Names |-> IF parts[n] \in Clicks THEN Left ELSE parts[n]]
  /\ UNCHANGED <<lib, book, nextBook, history>>

\* A person puts a file at a name, or takes one away.
PutFile(n, c) ==
  /\ Event /\ lib[n] = NoFile
  /\ lib' = [lib EXCEPT ![n] = c]
  /\ UNCHANGED <<stages, staged, temp, clicks, parts, book, nextBook, history>>

TakeFile(n) ==
  /\ Event /\ lib[n] # NoFile
  /\ lib' = [lib EXCEPT ![n] = NoFile]
  /\ UNCHANGED <<stages, staged, temp, clicks, parts, book, nextBook, history>>

\* The sweep indexes a file, and prunes a book that has none left.
SweepIndexes(n) ==
  /\ lib[n] # NoFile /\ book[lib[n]] = 0
  /\ Indexed(lib[n])
  /\ UNCHANGED <<stages, staged, temp, clicks, lib, parts, history, events>>

SweepPrunes(c) ==
  /\ book[c] # 0 /\ \A n \in Names : lib[n] # c
  /\ book' = [book EXCEPT ![c] = 0]
  /\ UNCHANGED <<stages, staged, temp, clicks, lib, parts, nextBook, history, events>>

-----------------------------------------------------------------------------
\* The library may already hold files, some of them indexed.
Init ==
  /\ stages = [i \in Ids |-> NoStage] /\ staged = 0 /\ temp = {}
  /\ clicks = [k \in Clicks |-> NoClick]
  /\ lib \in [Names -> Contents \cup {NoFile}]
  /\ parts = [n \in Names |-> Free]
  /\ book = [c \in Contents |-> 0] /\ nextBook = 1
  /\ published = [i \in Ids |-> 0] /\ answers = [i \in Ids |-> {}]
  /\ events = 0

Staging(i) == CopyIn(i) \/ StageFails(i) \/ DecideVerdict(i) \/ Register(i)

Confirm(k) ==
  \/ Lock(k) \/ AnswerAgain(k) \/ Open(k) \/ ClaimPart(k) \/ CopyPart(k)
  \/ Link(k) \/ LinkFails(k) \/ LstatName(k) \/ Rename(k) \/ Take(k) \/ Index(k) \/ IndexFails(k)

Next ==
  \/ \E i \in Ids : Reserve(i) \/ Staging(i) \/ Expire(i) \/ Discard(i)
  \/ Janitor
  \/ \E k \in Clicks : Confirm(k) \/ \E i \in Ids : Press(k, i)
  \/ Restart
  \/ \E n \in Names : TakeFile(n) \/ SweepIndexes(n) \/ \E c \in Contents : PutFile(n, c)
  \/ \E c \in Contents : SweepPrunes(c)

Spec == Init /\ [][Next]_vars
=============================================================================
