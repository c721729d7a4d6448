# AppLibris: a TLA+ verification project

AppLibris serves a directory of e-books: it indexes the files it finds, lets a
person edit, enrich, import and send them, and must never lose what the person
typed nor claim what the directory does not hold. This project models the parts
of the server in which several actors change the same state, checks them with
TLC, and proves the main results with TLAPS.

    tlc -workers 2 -config MCLibrary_race.cfg MCLibrary
    tlapm LibraryProofs.tla

`PROJECT.json` lists the components, the runs with their properties, the mutants
(for every property of a passing run, a plausible bug that TLC finds through
it), the source lines of every definition, the findings, the hazards and the
theorems.

## 1. The system

| Component | State | Operations | Runs on |
|---|---|---|---|
| library sweep (`internal/scanner/scanner.go`) | none of its own between sweeps | `Scan`, `scanFile`, `reconcileMissing`, `IndexFile` | the scan goroutine; `IndexFile` in a request |
| index tables (`internal/storage/books.go`) | `books`, `book_files`, authors, FTS rows | upserts, reassignment, marks, prune | inside `DB.Write`: one transaction, one connection |
| send queue (`storage/sends.go`, `sender/`) | `send_log`, recipients; a poke channel | `QueueSend`, the worker, recovery | handlers, one worker |
| enrichment queue (`storage/enrichment.go`, `enrich/`) | `enrichment_jobs`, `field_sources`; a poke channel | `EnrichBook`, the worker, recovery | handlers, one worker |
| import staging (`internal/importer/`) | the registry and the budget in memory, a temp directory, `.part` files | `Stage`, `Confirm`, `Discard`, janitor, `New` | handlers, one janitor |
| watcher (`scanner/watcher.go`) | inotify watches, a trigger channel | `Refresh`, `Run` | one goroutine; `Refresh` on the scan goroutine |
| covers (`internal/cover/`, the scanner's cover functions) | image files named by content hash, `cover_path`, `cover_retry` | `Store`, regenerate, forget | scan goroutine, worker, requests |
| metadata editing (`storage/metadata.go`, `service/metadata.go`) | fields, `field_sources`, the FTS row | `UpdateBookField`, `UpdateBookAuthors` | handlers |
| browsing, search, paging (`storage/books.go`, `service/`) | a cursor in the reader's URL | `ListBooks`, `SearchBooks` | handlers |
| metadata resolution (`enrich/resolver.go`, `match.go`, `decorator.go`) | a cache and a limiter per provider | `Resolve` | the enrichment worker |
| metadata providers (`openlibrary/`, `googlebooks/`, `providers/`) | none | `ByISBN`, `Search` | under the decorators |
| server process (`cmd/server/main.go`) | contexts and goroutines | start, recovery, shutdown | main |
| database access and migrations, format parsers, address guard, web interface | none | transactions, pure functions, templates | callers |

How they interact: the sweep and the importer's `IndexFile` share `scanFile` and
the tables; both queues refer to books the sweep replaces and prunes; the
enrichment worker writes fields the person and the sweep also write; the
importer publishes files that the sweep and the watcher see before `IndexFile`
does; the watcher pokes the scan goroutine, and both of them repair the set of
watches; the sweep, the importer and the worker write one image file named by
content hash; a reader pages through rows all of them rewrite; the process ends
any of them between two steps and recovers at start.

What is hard is listed in `PROJECT.json` under `hazards`, each at its line. The
recurring shapes: a value read before a slow step and written after it (stat
before hash, snapshot before provider, claim before lookup, Lstat before
DELETE); one of several writes failing; the same content or the same row
reached by two scans; a restart that cannot know whether the outside world
acted; lost pokes; shutdown that looks like failure.

What makes each component correct:

- *Index*: every book has a location and every location a book; one book per
  content; no location is hidden from re-indexing by a stale stat; only rows
  past their grace are deleted; the loss of a volume deletes nothing; edits
  survive a rewrite; what stays is indexed and what stays away is pruned.
- *Send queue*: at most one hand-over per press; one pending send per book and
  address; every recorded reason is true; every send is settled.
- *Enrichment*: no press is lost, no job is doubled, a cut run gives no verdict,
  nothing a person or a file said is replaced, every job ends.
- *Import*: the budget is exact, files and parts belong to someone, a stage is
  copied once, a library file is never replaced.
- *Watcher*: a change that was heard is followed by a sweep, within the delay
  cap; a refresh leaves one watch per directory and leaks none; a watcher that
  has lost every watch finds its way back.
- *Covers*: path, marker, provenance and image agree; no scan clears a cover it
  has not seen; what can be had is had in the end.
- *Editing, search and paging*: the search row follows the book; a page boundary
  neither skips nor repeats a book; what is stored keeps its limit, and what a
  person saved the editor accepts again.
- *Server process*: whatever asks for its end ends it; the database is closed
  under nobody unless the deadline has passed; no worker starts beside a row that
  an earlier run left in progress.
- *Resolution*: calls to one provider are an interval apart; a field is filled by
  the first provider with an answer of this book; a failure means silence.

## 2. The modules

| Module | Contents |
|---|---|
| `Tables` | `book_files` and `books` as sets of records; the writes of `storage/books.go` as operators |
| `Library` | file system, `Scan`, `scanFile` in the sweep and in the importer, `reconcileMissing`, clicks, crashes |
| `Catalog` | the index as a person sees it: paths, contents, edits, what is missed; no ids and no sweep |
| `LibraryProps`, `MCLibrary` | properties, fairness, the refinement of `Catalog`; instances |
| `LibraryProofs` | lemmas on the writes; type and table invariants; prune list, volume loss, cheap check, edits; the refinement |
| `SendPromise` | what a press of Send promises, abstractly |
| `SendQueue`, `SendQueueProps`, `MCSendQueue` | the queue; properties and the refinement; instances |
| `SendQueueProofs` | type invariant, single hand-over, true reasons, one pending row, the refinement |
| `EnrichPromise` | what a press of Fetch promises, abstractly |
| `EnrichQueue`, `EnrichQueueProps`, `MCEnrichQueue` | the jobs table, the worker and `Resolve`, the requeue; properties and the refinement; instance |
| `EnrichQueueProofs` | type invariant, one queued job, no press lost, verdicts, empty fields only, the refinement |
| `ImportStage`, `ImportStageProps`, `MCImportStage` | registry, budget, names; properties; instances |
| `ImportStageProofs` | type invariant, budget exact, only extras exceed it, no leak, one copy, one answer, nothing replaced |
| `Covers`, `CoversProps` | the cover of one book and its three writers; properties, fairness, checked with the values of `Covers.cfg` |
| `CoversProofs` | type invariant, row whole, fresh cover kept, a provider's row has a provider's image |
| `WatchSet` | the directory tree, the set of watches, `Refresh` step by step |
| `Watcher`, `WatcherProps`, `MCWatcher` | `Run` and the scan goroutine over `WatchSet`; properties; instances with and without them |
| `WatcherProofs` | bounded burst, no lost watch, nothing heard forgotten, a calm Refresh exact; and of the process that runs the watcher: closed under nobody, warned once, recovered before claim |
| `Server`, `ServerProps` | `run()` of `cmd/server/main.go`, its goroutines and its end; properties, checked with the values of `Server.cfg` |
| `Shelf` | metadata columns, provenance and search row, with every writer |
| `Pager`, `PagerProps`, `MCPager` | a reader paging over `Shelf`; properties; instances |
| `PagerProofs` | rows indexed, pages exact, what the editor makes of a stored value |
| `TitleMatch` | `match.go` over sequences of tokens |
| `Lookup`, `LookupProps`, `MCLookup` | `Resolve`, cache, retry, limiter and the two clients; properties; instance |
| `LookupProofs` | slots apart, ISBN never filled, first answer stands, failed means silent, a search's answer is of the book |

Grain of atomicity, everywhere: one `DB.Write` callback is one step (SQLite runs
it as one transaction on the one write connection), one database read is one
step, one file system call another actor can come between is one step, and what
the importer does under `Stager.mu` is one step. A read that is adjacent to
another whose state nobody else changes in the same step shares its step; where
that is done the module says so.

### Tables and Library

`files` and `books` are the rows; ids come from AUTOINCREMENT sequences
(`nextFile`, `nextBook`). A row's `stamp` is its size and mtime, its `mark` is
`missing_since`: `no`, `recent`, `old` (past `missingGrace`), and `GracePasses`
ages it. `disk`, `mtime` and `dirState` are the directory; `Probe` is what
`os.Stat` or `os.Lstat` says through the directories on the way. A directory is
`ok`, `offline` (an empty mountpoint), `unreadable`, or `linked`.

`scan[a]` is where actor `a` is in `scanFile`: stat and `FindFileByPath`, then hash
and `FindBookByContentHash`, then one of the writes. `createBook`'s failure on
`UNIQUE(content_hash)` and its re-read are `ScanLoseRace`; a book deleted since
its lookup makes `ScanAttach` fail on the foreign key. The walk visits in
lexical order (`Rank`), a directory being listed when it is reached. The three
writes of `reconcileMissing` happen in their order, each only for a list that is
not empty. `sweep.steady` is a history field used by one property.

The tables implement `Catalog` (`KeepsCatalog`): `at[p]` is the content of the
book that the row of path `p` belongs to, `mark[p]` that row's `missing_since`,
`shelved` and `edited` are contents of rows of `books`. Ids, stamps, the sweep,
the importer and the races between them are gone; what is left says that a book
lives as long as one of its paths, that an edit goes only with its book or to its
one successor, that a path leaves the catalog because it was overdue or because a
person who saw it missed said so, and that each write of the tables is one of
these steps, whole. Orphans of either kind are excluded by it.

Left out: symbolic links to files; covers are in `Covers`, metadata, authors and
FTS rows in `Shelf`. Assumed: a write to a path gives it a size and mtime it never had. A nested
mountpoint that is empty beside populated siblings is not protected from the
prune; `scanner.go` 258-259 says so, and `VolumeLossPrunesNothing` leaves it out.

### SendPromise and SendQueue

`log` holds the rows of `send_log`, `reqs[q]` where a handler is in `QueueSend`,
`worker` where `process` is, `wire` the requests the provider may still take: it
answers, refuses, breaks the connection or stays silent, and may accept long
after the worker gave up. `run` is the process; `ctx` is done once it is
`stopping`, and `Exit` is a crash or the end of the bounded wait. The server
listens before the recovery runs, so a press may come first. `at` stands for
`queued_at`, nanosecond text, unique per press. The scanner is three actions:
a book is replaced (its rows follow), deleted, or marked and found again.

`SendPromise` is implemented through `phase <- log[i].status`; `handed` and
`accepted` are history variables of the queue, and so is `lost`, the rows left
`sending` because the write that would have settled them failed: the mark that ends
their own `process`, or the recovery. A recovery that succeeds empties it. Only a
row in `lost` may stay `sending` (`EverySendSettles`); after a failed claim, a failed
enqueue or a panic a row is owed its outcome like any other.

Left out: recipients, titles, the arithmetic of `sendDeadline`, MIME encoding.

### EnrichQueue

`jobs` are the rows of `enrichment_jobs`, whose ids are reused after a delete
(no AUTOINCREMENT). `meta[b][f]` joins a field's value with its provenance:
`empty`, `cleared`, `typed`, `embedded`, `found`. The worker holds its snapshot
(`missing`), what it was given (`got`), how many providers it asked and how many
failed. `cut` (history) records that a shutdown cut a call short. Every
`ctx.Err()` test of `process` is a guard on `run`. `owed` (history) holds the
books pressed for since a job of theirs was claimed. `lost` (history) holds the jobs
whose verdict could not be written, or that a failed requeue left running;
`EveryJobEnds` excuses those and no other. A panic is a verdict of its own: it
is recorded whatever `ctx` says, so it clears `cut`.

`EnrichPromise` has no jobs and no process. It is implemented through `waiting`
(books with a queued row), `turn` (the worker's book, while it is busy), `unsettled` (books with a row that runs, worker or not), and `owed` and
`fields` as they are. Deleting a job and pressing again while one runs, a row
whose id is given out again, a verdict that a shutdown kept from being written,
and the requeue after the restart all map to its steps.

Left out: what an answer is worth and how it is got (`Lookup`), the image file of
the cover (`Covers`). Every book has a title, so every provider
that is reached is called.

### ImportStage

`stages[i]` is an upload and then its record; the record outlives its removal
from the registry (`gone`) because a confirm may still hold it. `staged` is the
budget, `temp` the staged files, `parts` and `lib` the `.part` and final names of
one title, tried in order. Two steps of `renamePublish` are separate, so that a
person's file may come between `os.Lstat` and `os.Rename`. `SweepIndexes` and
`SweepPrunes` are the effects of `Library`'s sweep on book ids.

Left out: the download of a linked book, the preview's contents, `Get` and
`Cover`, which read only. `os.Link` and the removal of the `.part` are one step:
a crash between them leaves a `.part`, which a crash one step earlier also does.

### Covers

`book` is the row's `cover_path`, `cover_retry` and cover provenance, `image` the
file of that path, `embedded` what a parse of the book finds. `scan[s]` carries
what `maybeRegenerateCover` or `createBook` read of the row, `worker` stands
between the provider's image, its `Store` and `ApplyEnrichedFields`. `overtaken`
(history) says that another scan wrote the row since this one read it, `torn`
that a scanner wrote the image and then no row, or blanked a row that another had
written after it looked. The second needs a third scan (the sweep and two imports
of one content): the row of a fresh embedded cover is blanked while a provider's
answer for the blank row is on its way, and the image of the one ends under the
provenance of the other.

Four things the model shows of the code, which the properties leave room for:
the guard of `forgetCoverTx` compares paths, and a cover stored again has the
path of the one lost, so two scans and a worker can blank a fresh cover
(`overtaken`); a read error inside an EPUB or FB2 is reported as no cover, so
the embedded one may be missed; the loser of `createBook`'s race, or a failed
`UpdateBookCoverPath`, leaves a scanner's image under a provider's row (`torn`);
the worker's `Store` may replace a scanner's image whose row keeps no
provenance.

Left out: decoding, scaling, the download; their outcomes are chosen freely.

### WatchSet and Watcher

A directory is an inode under a name; a kernel watch is on the inode, fsnotify
files it under the name, `registered` is the identity `Refresh` saw. Moves out of
the library, deletions, unmounts and reuse of inode numbers part the three.
`Refresh` is `filepath.WalkDir`'s steps under `Watcher.mu`: stat and decide, add,
list; then the removal of what left. What inotify and fsnotify do is external,
taken from the comments of `watcher.go`. Directories nest at most two deep, which is an
assumption on the constants. The event queue may overflow: `Run`
only logs that, so what was dropped is `unheard`.

`run` is the loop of `Run` with its probe, its two timers and the recheck;
`trigger` is the channel of capacity one; `scan` is `periodicScan` with the
refresh and the walk; `unswept` says what a sweep has still to look at and
whether anybody was told. Timers count up to `Settle` and `MaxDelay`; time passes
when `Run` has nothing ready.

A library mounted again while a sweep runs gets its watches back from the sweep's
own `Refresh`; the recheck then finds nothing amiss and pokes nobody, and what
arrived with the mount waits for the ticker (`OvertakenBySweep`). Left out: a
rename inside the library, which moves a watch between two names.

### Shelf and Pager

`books` holds title, description, authors and the provenance of each, `fts` the
search rows, `owner` the book each path belongs to; title and description stand
for the one-line and the many-line scalar fields. A scalar is the word it is known by, its bytes, and
its line breaks, of one byte or, from a form, of two; that is what capping,
normalising and refusing tell apart. The writers are a sweep that finds content
(with inheritance from the book the path had), the prune, a person's save, and a
provider's answer against a snapshot. The reader holds a cursor
`(sort_title, id)` and nothing else; `SortKey` may give two titles one key.

A file whose name leaves nothing before its extension stores an empty title, which
the editor then refuses to save. `EditorCanHoldIt` names that exception and one more:
a description of a file or a provider whose breaks come back as CR LF may exceed the
limit it was cut at, which is finding 8. What a person saved, inherited or not, is
under neither. Left out: the derivation of `sort_title`, the
grammar of the search box (a query is a word or nothing), the pages of history
and locations, what is particular to other fields.

### TitleMatch and Lookup

`TitleMatch` has `titlesMatch` and `plausibleMatch` on sequences of tokens, a
token being a folded word and the separator before it. `Lookup` runs `Resolve`
for several callers: the cache, the retry and the limiter in the order
`compose` nests them, then the client. `next[p]` is the limiter's next free slot,
`cache[p]` the entries most recent first, `job[c]` where a caller is. The
decorators lock for concurrent callers and `decorator_test.go` 128-135 tests that;
production has one worker.

A client sends one list request. Its reply is a class: not found, found, no
reply or 429 or 5xx (retryable), a body that breaks off (retryable in
`openlibrary`, final in `googlebooks`), anything else (final). `googlebooks` goes
on to the detail of the volume it chose; if that fails, the answer stands and is
marked partial, and a partial answer is not cached. What
`search.json` does not tell (language, date, description) is not in its answers.

The limiter spaces slots: a caller delayed after its slot came may call late, and
the detail request takes no slot of its own. Left out: query strings, JSON
shapes, language codes, the redirect policy; the folding of letters, name keys
and initials is equality of words and common authors.

### Server

`pc` is where `run()` is, `task` where each of its five goroutines is, `listener`
and `serveErr` the HTTP server and the channel its goroutine reports on. Each
start chooses the goroutines its configuration asks for (`offered`) and keeps the
rows the run before it left (`rows`). A signal may come at any time, also during
startup; serving may fail before it accepts or after. A failure goes straight to
`waitForBackground`; a signal first through `srv.Shutdown` and the HTTP
goroutine's report. `Order` is the order of the five waits, which share one
deadline. What a goroutine works at is the other modules' business: here it works,
returns when it likes or never, and notices the end of its context where its
loop asks. `select` takes any ready case, so the scan loop may take its ticker
after the end of its context (it asks again, `AfterWake`) and the janitor its
tick (it does not). `reported` is the directories the scan loop has warned about,
`log` (history) what the log then says of each.

Left out: flags and configuration, and the failures that end startup before any
goroutine runs (an unusable directory, a failed migration).

## 3. The runs

| Run | Instance | Shows |
|---|---|---|
| `race` | 2 paths (one in the root), 2 contents, 4 events | the tables implement `Catalog`, cheap check sound below the root, prune list overdue, edits kept, with sweep and importer interleaved |
| `volumes` | 2 paths in nested directories, 4 events, fair | volume loss prunes nothing; what stays is indexed; what stays away is pruned |
| `raced_rewrite` | as `race` | finding 3 |
| `send_safe` | 2 handlers, 2 sends, 2 books, 1 fault, 2 ends | one pending, true reasons, `SendPromise` and with it the single hand-over |
| `send_live` | 1 handler, 2 sends, 1 fault, 2 ends, fair | every send is settled, through every fault but the loss of its own settling write |
| `enrich` | 2 books, 1 handler, 2 presses, 1 provider, 1 fault, 1 end, 1 edit, fair | no job doubled, no verdict on a cut run or another's job, only empty fields filled, `EnrichPromise` and with it that no press is lost, every job ends unless its own verdict was lost |
| `stage` | 2 uploads, 2 confirms, 2 names, 2 contents, 2 events | budget, leaks, single copy, nothing replaced |
| `covers` | 2 scanners, 2 lost images, 2 faults, 1 end, fair | row whole, provider's row over provider's image, fresh cover kept, cover settles |
| `watch` | 2 directories, 3 inodes, 1 event, 2 mishaps, settle window and cap of 1, fair | heard is pending, burst bounded, no watch lost, refresh exact, deaf is swept |
| `shelf` | 3 ids, 2 paths, 3 words (2 under one sort key), limits 2 and 3, 4 writes, page size 1 | row indexed, pages exact; limits kept, one-line values come back as they were, and what the editor refuses of a stored value is an empty title or a description grown by CR LF, neither of a person |
| `lookup` | 2 callers, 2 providers, 2 volumes, interval 1, 2 attempts, cache of 1, 2 runs, time to 2 | slots apart, first answer wins and none for the ISBN, failed means silent, a search earns its merge |
| `server` | 2 runs of the process, 1 request, every configuration, signal, failure and kill at any step, fair | closed under nobody, recovered before claim, every stop ends |

Why the bounds are enough: two paths, contents, books, handlers, scanners or
callers make every race between two of them; the mutants show that each property
is violated within the bounds by the bug it is there for. `volumes` needs four
events: a file on each of two paths, a volume that goes, and its return. In
`send_safe` two ends of the process cover a recovery that itself fails and is
repeated. In `enrich` one end and two presses make a job queued beside one
running at a crash. With one provider "some failed" and "all failed" coincide;
two providers were run without the liveness property (4.0 million states) with
the same results. The bound on presses also bounds job ids. In `covers` a cover
can be lost, fetched again, and lost again, with a fault in each. In `watch` two
mishaps are a volume that goes and comes back, or a directory replaced; three
inodes are its two directories and one that takes the place of either; one event
is enough because a second finds the same states with the timers further on. In
`shelf` a page size of one puts a boundary inside a run of equal titles, and four
writes are two books, an edit before the cursor and one after it. In `lookup`
two runs in all, one after the other or at once, let the second find the first's
cache entries and evict them; the book without an ISBN and the one without a
title either take the two other routes. In `server` two runs are one that leaves a
row and one that finds it; one request is enough, since a second is waited for in
the same place. Symmetry is used where only safety is checked.

Deadlock is checked except where the bounded world really stops: `stage` ends
when no upload is left to make, `covers` when the cover is settled and no loss is
left, `watch` when the process has stopped or no mishap is left, `shelf` when the writes are used up and the reader has reached the end,
`lookup` when every caller has had its runs or time is over, `server` when the
last run of the process has ended.

Mutants are definitions named `Mutant:` in their comment, beside the definition
they stand in for; no action uses them.

### Findings

Where the code does something else than its own comments say. The name is of the
configuration that shows it; those that are not in the table above are not runs
of the project but can be replayed, `tlc -workers 4 -config
MCLibrary_findings.cfg MCLibrary` for the first. Where two share a configuration
TLC stops at the one it meets first; without that one's line it finds the other.

1. `MCLibrary_findings`, `PruneListConfirmedAbsent`: a successful `Lstat` counts as an absence on the way
   to the prune list.
2. `MCLibrary_findings`, `CheapCheckSoundInRoot`: `UpdateBookFileStat` by row id may stamp a row that now
   belongs to another book, hiding the file's content from every later sweep.
3. `MCLibrary_raced_rewrite`: a rewrite in place that loses the race to create its
   book drops the edits of the old one.
4. `MCSendQueue_findings`, `GoneMeansGone`: a book replaced between claim and lookup fails its send as
   gone.
5. `MCSendQueue_findings`, `TransportErrorIsAnswer`: a connection that breaks after acceptance is recorded as
   a refusal.
6. `MCImportStage_budget`: a stage is admitted at the cap and charged more, so
   racing uploads overshoot the staging budget together.
7. `MCWatcher_exact` (of `MCWatcher`, `Refresh` alone): a directory replaced between `Refresh`'s stat and its `Add`,
   and again on the inode of the first, is taken for watched and stays deaf.
8. `MCPager_saves_back`: a description cut at the limit comes back from the form
   with longer breaks and is refused unchanged.
9. No run, `TornBody` of `Lookup` takes the two branches: a body that breaks off is
   tried again by `openlibrary` and not by `googlebooks`.
10. `Server_findings` (of `ServerProps`), `FailedAtStartup`: a start without sending
    leaves the row of the run before it sending.
11. `Server_findings`, `StopSparesConfirm`: after the signal the janitor may still
    take its tick and delete the file that a confirm is about to open.

### Fairness

Weak fairness of what the code schedules by itself, and of nothing a person or
the outside world does. `Library`: the sweep starts and goes on (ticker and
loop), the walk, each step of `scanFile`, and the passing of time. `SendQueue`
and `EnrichQueue`: handlers run to their end, the worker runs (ticker, timeouts
on every call), a shutdown's wait is bounded, the service manager starts the
server again, recovery follows the start. `Covers`: each scanner goes on (sweeps
are repeated and each reaches the file), the worker ends its job; nobody owes a
press of Fetch, and no provider owes an image. Faults are bounded, so a fair
actor is not kept busy failing.

`Watcher` also has weak fairness of the two goroutines and of time, and strong
fairness in three places: `select` picks a ready recheck in the end among cases
that keep being ready, and `sync.Mutex` gives the lock to whoever waits, on
either side of `Refresh`. Of the scan ticker nothing is assumed, so that
`DeafIsSwept` rests on the recheck alone.

`Server`: `run()` goes on, its HTTP goroutine returns from a server that was shut
down, and ten seconds go by; nothing of what works. `EveryStopEnds` so rests on
the deadline. `PromptStop` says the same under `CalmSpec`, which assumes instead
that requests, rows and sweeps come to an end and nothing of the deadline: every
loop is told. It is no run of the project; with one run of the process it holds.

## 4. The proofs

For every value of the constants:

- `LibraryProofs.TypeCorrect`, `TablesWhole`, `NoOrphans`, `NoDuplicates`. The two
  tables are consistent by an inductive invariant of their own, `TablesInv`:
  unique ids, paths and contents, ids below their sequences, books and rows
  linked both ways. It needs nothing from the sweep: each write preserves it
  whatever arguments it gets that the guard lets through, which is what
  the first part of the module proves of the operators, one lemma per write.
- `LibraryProofs.PruneOverdue`. That a condemned row is still overdue when the
  DELETE runs needs that ids are never reused, that only the sweep clears a mark,
  and that no id is on both lists; the invariant says this of the three lists.
- `LibraryProofs.LossPrunesNothing`, for any tree of directories. Of those that have
  not changed since the sweep began the invariant says what the walk has met: above
  what was listed everything could be listed, and a directory whose ancestors could
  all be listed is still to come, was listed, or is among those nothing is held
  against. What is condemned was below none of the latter when it was looked
  for, and a row keeps its path while it keeps its id.
- `LibraryProofs.CheapCheck`. The invariant ties, for each step of `scanFile`, the
  stamp it carries to the content it will write: either the stamp is no longer
  the file's, or the content hashed is the file's content. Stat before hash
  before write is what makes it inductive; below the root only one actor scans.
- `LibraryProofs.RewriteKeeps`, an action property from the table invariant.
- `LibraryProofs.TablesKeepCatalog`, the refinement of `Catalog`. Since every row of
  `book_files` has its book and no content has two, the content at a path is a
  function of the row there, and what a write does to the rows is what it shows at
  the paths: one lemma on what a rewrite of rows shows, one on an upsert, and one
  per action. A create is the hard one: two upserts, the edits of the book that
  loses its last path, and `ON CONFLICT`. That `Prune` drops only what is overdue
  is `PruneListOverdue`; that the other steps are whole needs `TablesInv` before
  the step and after it.
- `SendQueueProofs.TypeCorrect`, `HandedAtMostOnce`, `UnsentReasons`,
  `QueueKeepsPromise`. The invariant `QueueInv` joins the worker's place with its
  row: a row not yet handed over is one whose message never left, only the
  worker's own row can be handed over, and only once. The refinement maps each
  action to one step of `SendPromise` or to a stutter; without `QueueInv` a
  second `Hand` could not be excluded.
- `SendQueueProofs.PendingOnce`: a row names a book that exists or none, and the
  book that takes over another's rows has none of its own yet, since it is created
  in the same transaction; so moving the rows cannot put two pending ones together.
- `EnrichQueueProofs.TypeCorrect`, `NoneTwice`, `NoPressLost`, `NoVerdictOnCut`,
  `VerdictIsOwn`, `OnlyEmptyFilled`. The invariant `EnrichInv`: ids are unique and
  at most `MaxPresses`, two queued rows are of two books, a running row under the
  worker's id is of the worker's book, and a call was cut only if ctx is done. Ids
  are given out again, so that a verdict is written by id is safe only because
  the row that gets an old id is queued, and only the worker makes a row running.
  The requeue's choice is by `Cardinality`, which needs the table finite: its ids
  inject it into `1 .. MaxPresses`.
- `EnrichQueueProofs.QueueKeepsPromise`, the refinement of `EnrichPromise`. A claim
  takes the book's only queued row, so it ends the book's waiting; the verdict
  settles the book because no other row of it runs, and the requeue takes all that
  runs because the worker of an earlier process is gone before it
  (`OffUntilUp`: there is no worker until the process is up).
- `ImportStageProofs.NoLeak`, `CopiedOnce`, `OneAnswer`, `NoneReplaced`. The
  invariant `ImportInv` follows one stage through its confirms: a click inside
  the critical section is alone there; until `Publish` the stage is neither done
  nor published; between `Publish` and `taken` that click is the one copy; from
  `taken` on the stage is done. What a stage has answered is its book, which
  changes only while it has answered none. A stage the restart dropped may be
  published and not done, but no click can reach it again.
- `ImportStageProofs.BudgetExact`, `BudgetButExtras`. `staged` is a running sum that
  each step corrects by one stage's share. A sum over a set is an induction the
  provers cannot take, so the proof counts: each stage that is charged is given a
  set of as many bytes, pairs of the stage and a number, the sum is the
  cardinality of their union, and what a step does to one stage changes that union
  by a disjoint part. Restricted to the bytes below each stage's cap the same union
  never grows after the reservation, which left it within the budget; what is
  beyond it is what covers and metadata add above the cap.

- `CoversProofs.TypeCorrect`, `RowWhole`, `FreshKept`. That the row is whole is
  inductive with what the writers carry: the row a scan is about to insert is
  whole, and the worker has a book. `FreshKept` is an action property; it needs
  that a scan no other has overtaken still carries the row's path, and that the
  image it found gone is gone until the row is written.
- `CoversProofs.SourceIsTrue`, by `ImageInv`: an embedded image under a provider's
  row is there because a scanner stored it and owes the row its write, or because
  of a write `torn` remembers; of a file with a good cover, the path a scanner is
  about to forget can only be a provider's; and while the worker is about to write
  the row, an embedded image has the path filled, which stops it. The run has two
  scans, the theorem any number.
- `WatcherProofs.BurstBounded`, for any settle window and cap: while an event is
  pending, the age of the burst plus what is left of the settle window stays
  below the cap plus one window; each re-arming is what has to be shown.
- `WatcherProofs.NoneLost`: the step that could lose a watch is an `Add` over a
  name something is filed under. The invariant says that a walk adds only under
  a free name: nobody else files while it holds the lock, what it released is
  free, and it meets each directory once, because it meets it through its parent.
- `WatcherProofs.HeardStays`. The invariant says which of the queued events are worth
  a sweep, since not all are: the one of a directory that was made counts only while
  the directory is there, and its going is then an event of its own or not heard.
  With that each step either keeps what is owed where it is or hands it on: queue,
  debounce, poke, woken loop, sweep.
- `WatcherProofs.ExactWhenCalm`. `Places`: no two directories share an inode, nothing
  is filed twice, what is filed and alive is under its own name or moved outside,
  and what `registered` holds agrees with it while no Add was torn. `Faithful`: a walk
  nothing disturbed has met only what is there, passed over nothing, and left
  everything behind it filed right. Only `Finish` ends a walk, and it takes away what
  the walk did not meet.
- `WatcherProofs.ClosedUnderNone`, `WarnsOnce`, `RecoversBeforeClaims`, of `Server`
  for any number of runs, requests and directories. The first needs that the waits
  run through `Order` in turn, that what they have passed is gone or the deadline
  is over, that who is gone does not come back, and that `Order` names every
  task. The second ties the log to the scan loop's memory; `WarnedOnce` was checked
  by TLC with one directory.
- `PagerProofs.Indexed`: each writer recomputes the search row last.
  `PagerProofs.PagingExact`: what is shown lies at or before the cursor in the
  order, and what stays and lies before it has been shown. It rests on the order
  of `(sort_title, id)` being total, shown for any `SortKey`.
- `PagerProofs.EditorHoldsAll`: each writer of a column, the scanner, a provider's
  answer and the form, either cuts at the limit the editor refuses at or refuses
  there itself, and has taken the breaks out of what has to be one line. The
  invariant `HeldRow` adds that a field a person saved is what a form submits and the
  editor accepts, which an inheritance moves with its provenance. So of a stored
  value the editor refuses only a title without a word and a description whose
  breaks the form makes longer, and neither of a person.
- `LookupProofs.SlotsStayApart`: every slot taken ends before the next free one,
  and a slot is handed back only if it is the last. `LookupProofs.ISBNNeverFilled`:
  an ISBN is in the missing set only of a book without one, and such a book is
  asked for by title, which takes the ISBN out of the set.
- `LookupProofs.FirstWins`, `FailureIsSilence`, `SearchIsEarned`. One invariant
  describes a run between two providers and while one is asked: the failures reach
  the number asked only if nothing has been filled, nothing is heard yet of the
  one being asked and those behind it, a field is missing still exactly if the book
  misses it and nobody has said it, and what is filled comes from the least that
  said it. What was kept of a search matched the book; that segments of a title
  which match share its words is shown from `TitleMatch`'s definitions, for
  which the cuts of a title have to be numbered without a gap.

Assumptions are the named `ASSUME`s of the modules, which TLC evaluates in the
runs: the shape of the directory tree (for the watcher at most two deep), distinct special values, bounds that are
natural numbers.

Only model-checked: the liveness properties `ShelfIsIndexed`, `AbsentIsPruned`,
`EverySendSettles`, `EveryJobEnds`, `CoverSettles`, `DeafIsSwept`, `EveryStopEnds`. Every
safety and action property of a passing run is a theorem. The type invariants of
`Watcher`, `Pager`, `Lookup` and `Server` are parts of, or implied by, the
invariants of their proofs where those need them, and are not stated as theorems.
Out of the prover's reach: liveness, `ENABLED`, induction over data
and recursive operators; those stay with TLC. No module that is proved about
declares a RECURSIVE operator.

## 5. The plan

Done: the index and the directory; the send queue implementing its promise; the
enrichment queue implementing its promise; the index tables implementing a
catalog; import staging with an exact budget; covers; the watcher with the scan goroutine;
metadata, search and paging; resolution over the two clients; the server process.

Left, in order of importance:

1. Pure algorithms against reference definitions over bounded inputs:
   `SortTitle`, `NormalizeISBN`, the FTS query, `sendDeadline`, `libraryName`.
2. A rename inside the library, for the watcher; the download of a linked book,
   for the importer.
3. An abstract watcher ("what changed is looked at") that `Watcher` implements.

Not modelled:

- format parsers: pure functions of unbounded data; what a parse may report is
  chosen freely where it matters (`Covers`, `Shelf`);
- the address guard: a predicate on addresses, without state;
- the web interface: templates and handlers over the service, whose state is in
  the components above; what a browser does to a form's value is in `Shelf`;
- database access and migrations: every module relies on `DB.Write` being one
  transaction on one connection; migrations run once before anything else, and
  `ErrNestedWrite` is a guard against a programming error;
- query strings, JSON shapes and redirects of the HTTP clients; MIME encoding.
