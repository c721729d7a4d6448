---------------------------- MODULE EnrichQueue -----------------------------
(***************************************************************************)
(* Metadata enrichment: the enrichment_jobs table, the handlers that queue *)
(* into it (service.EnrichBook), the worker that drains it (enrich.Worker) *)
(* and asks the providers (enrich.Resolve), the restart that requeues what *)
(* was interrupted, and the person, the scanner and the prune that change  *)
(* the same books meanwhile.                                               *)
(*                                                                         *)
(* One DB.Write is one step, and so is one read and one provider call.  A  *)
(* provider may answer anything the book lacks, nothing, or an error.      *)
(***************************************************************************)
EXTENDS Naturals, FiniteSets

CONSTANTS
  Books,       \* book ids
  Fields,      \* the metadata fields a search answer may fill
  Cover,       \* the one of them whose value is a file to download
  Requests,    \* HTTP requests that may be under way at once
  Providers,   \* how many providers are configured
  MaxPresses,  \* bound: presses of the Fetch button
  MaxFaults,   \* bound: failed database writes and reads, and panics
  MaxStops,    \* bound: shutdowns and crashes
  MaxEdits     \* bound: fields a person edits and covers a sweep changes

ASSUME EnrichAssumption ==
  /\ Cover \in Fields
  /\ {Providers, MaxPresses, MaxFaults, MaxStops, MaxEdits} \subseteq Nat

VARIABLES
  jobs,      \* enrichment_jobs, a set of rows
  shelved,   \* the books of the books table
  meta,      \* meta[b][f]: value and provenance of field f
  reqs,      \* reqs[q]: where request q is in EnrichBook
  clock,     \* the clock queued_at is read from; it counts presses
  notify,    \* the notify channel of capacity 1 holds a poke
  worker,    \* the worker: where it is in process, its job and its findings
  run,       \* the process
  owed,      \* books asked for since a job of theirs was last claimed (history)
  lost,      \* ids of jobs left running by a write that failed (history)
  edits,     \* fields and covers changed so far
  faults, stops  \* how often something failed; how often the process ended

vars == <<jobs, shelved, meta, edits, reqs, clock, notify, worker, run, owed, lost, faults, stops>>
library == <<shelved, meta, edits>>
web == <<reqs, clock, owed>>

(***************************************************************************)
(* A field is "empty" (no value, no manual source), "cleared" (no value,   *)
(* manual), "typed" (a value, manual), "embedded" (read from the file) or  *)
(* "found" (a provider's).                                                 *)
(***************************************************************************)
FieldStates == {"empty", "cleared", "typed", "embedded", "found"}
NoValue == {"empty", "cleared"}
Manual == {"cleared", "typed"}

Statuses == {"queued", "running", "done", "failed"}
Jobs == [id : Nat \ {0}, book : Books, status : Statuses, at : Nat]

NoRequest == [pc |-> "idle"]
RequestStates == {NoRequest, [pc |-> "poke"]} \cup [pc : {"found"}, book : Books, at : Nat]

\* The worker between two jobs.
At(pc) == [pc |-> pc]

\* The worker with job j: what it found missing, what the providers gave, the
\* providers left, asked and failed, and whether a shutdown cut a call short.
With(j, pc) ==
  [pc |-> pc, id |-> j.id, book |-> j.book, missing |-> {}, got |-> {},
   left |-> Providers, asked |-> 0, failed |-> 0, cut |-> FALSE]

Busy == {"book", "sources", "ask", "cover", "apply", "done", "fail"}
WorkerStates ==
  [pc : {"off", "wait", "claim"}] \cup
  [pc : Busy, id : Nat \ {0}, book : Books, missing : SUBSET Fields,
   got : SUBSET Fields, left : 0 .. Providers, asked : 0 .. Providers,
   failed : 0 .. Providers, cut : BOOLEAN]

Edited == edits < MaxEdits /\ edits' = edits + 1
Fault == faults < MaxFaults /\ faults' = faults + 1
Queued(b) == {j \in jobs : j.book = b /\ j.status = "queued"}
JobWithId(i) == {j \in jobs : j.id = i}
Running == {j \in jobs : j.status = "running"}

\* INTEGER PRIMARY KEY without AUTOINCREMENT: one more than the largest id,
\* so the id of a deleted row may be given out again.
IsNextId(i) ==
  (\A j \in jobs : j.id < i) /\ (i = 1 \/ \E j \in jobs : j.id = i - 1)

Insert(b, at) ==
  \E i \in 1 .. MaxPresses :
    IsNextId(i) /\ jobs' = jobs \cup {[id |-> i, book |-> b, status |-> "queued", at |-> at]}

-----------------------------------------------------------------------------
(***************************************************************************)
(* EnrichBook, in a handler.                                               *)
(***************************************************************************)

\* FindBookByID finds the book, and now is read.
Ask(q, b) ==
  /\ run \in {"starting", "up"}
  /\ reqs[q] = NoRequest /\ clock < MaxPresses /\ b \in shelved
  /\ clock' = clock + 1
  /\ reqs' = [reqs EXCEPT ![q] = [pc |-> "found", book |-> b, at |-> clock']]
  /\ UNCHANGED <<jobs, library, notify, worker, run, owed, faults, stops, lost>>

\* Mutant: a running job blocks the insert too, as EnqueueSend's guard does.
EnqueueUnlessPending(q) ==
  /\ reqs[q].pc = "found"
  /\ LET b == reqs[q].book
     IN  /\ b \in shelved
         /\ IF \E j \in jobs : j.book = b /\ j.status \in {"queued", "running"}
            THEN UNCHANGED jobs ELSE Insert(b, reqs[q].at)
         /\ owed' = owed \cup {b}
  /\ reqs' = [reqs EXCEPT ![q] = [pc |-> "poke"]]
  /\ UNCHANGED <<library, clock, notify, worker, run, faults, stops, lost>>

\* EnqueueEnrichment: one statement inserts unless a job of the book is
\* queued; a running one does not block it.
Enqueue(q) ==
  /\ reqs[q].pc = "found"
  /\ LET b == reqs[q].book
     IN  /\ b \in shelved
         /\ IF Queued(b) # {} THEN UNCHANGED jobs ELSE Insert(b, reqs[q].at)
         /\ owed' = owed \cup {b}
  /\ reqs' = [reqs EXCEPT ![q] = [pc |-> "poke"]]
  /\ UNCHANGED <<library, clock, notify, worker, run, faults, stops, lost>>

\* The foreign key refuses a book deleted since, or the write fails.
EnqueueFails(q) ==
  /\ reqs[q].pc = "found"
  /\ (reqs[q].book \notin shelved /\ UNCHANGED faults) \/ Fault
  /\ reqs' = [reqs EXCEPT ![q] = NoRequest]
  /\ UNCHANGED <<jobs, library, clock, notify, worker, run, owed, stops, lost>>

\* Notify, also after an insert that was refused as a duplicate.
Poke(q) ==
  /\ reqs[q].pc = "poke"
  /\ notify' = TRUE
  /\ reqs' = [reqs EXCEPT ![q] = NoRequest]
  /\ UNCHANGED <<jobs, library, clock, worker, run, owed, faults, stops, lost>>

-----------------------------------------------------------------------------
(***************************************************************************)
(* The worker: Run, drain and process.  ctx is done once run is            *)
(* "stopping".                                                             *)
(***************************************************************************)
OnlyWorker == UNCHANGED <<jobs, library, web, notify, run, stops, lost>>

\* A poke or the ticker; a poke may stay for the next round.
Wake ==
  /\ worker.pc = "wait" /\ run = "up"
  /\ notify' \in {FALSE, notify}
  /\ worker' = At("claim")
  /\ UNCHANGED <<jobs, library, web, run, faults, stops, lost>>

Leave ==
  /\ worker.pc \in {"wait", "claim"} /\ run = "stopping"
  /\ worker' = At("off")
  /\ OnlyWorker /\ UNCHANGED faults

\* ClaimNextEnrichment: the oldest queued job, any of those queued together.
Claim ==
  /\ worker.pc = "claim" /\ run = "up"
  /\ \E j \in jobs :
       /\ j.status = "queued"
       /\ \A k \in jobs : k.status = "queued" => j.at <= k.at
       /\ jobs' = (jobs \ {j}) \cup {[j EXCEPT !.status = "running"]}
       /\ worker' = With(j, "book")
       /\ owed' = owed \ {j.book}
  /\ UNCHANGED <<library, reqs, clock, notify, run, faults, stops, lost>>

\* The queue is empty, or the claim fails.
Drained ==
  /\ worker.pc = "claim" /\ run = "up"
  /\ ((\A j \in jobs : j.status # "queued") /\ UNCHANGED faults) \/ Fault
  /\ worker' = At("wait")
  /\ OnlyWorker

Goes(pc) == worker' = [worker EXCEPT !.pc = pc] /\ OnlyWorker

\* A read or a write that fails while ctx is done is an abandoned attempt,
\* and the row stays running; with ctx live it is a verdict.
AbandonAt == {"book", "sources", "ask", "cover", "apply"}

Abandon ==
  /\ worker.pc \in AbandonAt /\ run = "stopping"
  /\ worker.pc = "ask" => worker.left = 0 \/ worker.missing = {}
  /\ worker.pc = "cover" => worker.got = {Cover}
  /\ worker' = At("claim")
  /\ OnlyWorker /\ UNCHANGED faults

OperationFails ==
  /\ worker.pc \in {"book", "sources", "apply"} /\ run = "up" /\ Fault
  /\ Goes("fail")

\* FindBookByID and ListAuthorsForBook: the fields that have no value.
ReadBook ==
  /\ worker.pc = "book" /\ run = "up"
  /\ IF worker.book \notin shelved THEN Goes("fail")
     ELSE /\ worker' = [worker EXCEPT !.pc = "sources",
                          !.missing = {f \in Fields : meta[worker.book][f] \in NoValue}]
          /\ OnlyWorker
  /\ UNCHANGED faults

\* FieldSourcesForBook, then missingFields.  A book deleted since the last
\* read has no sources.
ReadSources ==
  /\ worker.pc = "sources" /\ run = "up"
  /\ worker' = [worker EXCEPT !.pc = "ask",
       !.missing = {f \in @ : worker.book \in shelved => meta[worker.book][f] \notin Manual}]
  /\ OnlyWorker /\ UNCHANGED faults

Asking == worker.pc = "ask" /\ worker.left > 0 /\ worker.missing # {}

\* One provider answers: the first answer wins, a field at a time.
ProviderAnswers ==
  /\ Asking
  /\ \E found \in SUBSET worker.missing :
       worker' = [worker EXCEPT !.left = @ - 1, !.asked = @ + 1,
                    !.missing = @ \ found, !.got = @ \cup found]
  /\ OnlyWorker /\ UNCHANGED faults

\* One provider fails, or its call is cut short by a shutdown: Resolve skips
\* it either way.
ProviderFails ==
  /\ Asking
  /\ worker' = [worker EXCEPT !.left = @ - 1, !.asked = @ + 1, !.failed = @ + 1,
                  !.cut = @ \/ run = "stopping"]
  /\ OnlyWorker /\ UNCHANGED faults

\* A run nobody answered fails; a cover is downloaded before anything is
\* written; nothing to write is done.
AfterResolve ==
  IF worker.asked > 0 /\ worker.failed = worker.asked THEN "fail"
  ELSE IF Cover \in worker.got THEN "cover"
  ELSE IF worker.got # {} THEN "apply"
  ELSE "done"

\* Mutant: ctx is not looked at once Resolve has returned.
ResolvedUnchecked ==
  /\ worker.pc = "ask" /\ (worker.left = 0 \/ worker.missing = {})
  /\ Goes(AfterResolve) /\ UNCHANGED faults

Resolved ==
  /\ worker.pc = "ask" /\ (worker.left = 0 \/ worker.missing = {})
  /\ run = "up"
  /\ Goes(AfterResolve) /\ UNCHANGED faults

\* storeCover: downloaded, and stored under the book's content hash.
StoreCover ==
  /\ worker.pc = "cover"
  /\ Goes("apply") /\ UNCHANGED faults

\* A cover that is lost leaves the other fields; a run with none fails,
\* unless ctx is done.
LoseCover ==
  /\ worker.pc = "cover"
  /\ LET rest == worker.got \ {Cover}
     IN  /\ rest = {} => run = "up"
         /\ worker' = [worker EXCEPT !.got = rest, !.cut = @ \/ run = "stopping",
                         !.pc = IF rest = {} THEN "fail" ELSE "apply"]
  /\ OnlyWorker /\ UNCHANGED faults

\* Mutant: the fields are written from the snapshot, without the re-check.
FilledFromSnapshot ==
  [f \in Fields |-> IF f \in worker.got THEN "found" ELSE meta[worker.book][f]]

\* fieldIsStillMissingTx on each field, then the write.
Filled ==
  [f \in Fields |-> IF f \in worker.got /\ meta[worker.book][f] = "empty"
                    THEN "found" ELSE meta[worker.book][f]]

\* ApplyEnrichedFields, one transaction.
Apply ==
  /\ worker.pc = "apply" /\ run = "up"
  /\ IF worker.book \in shelved
     THEN meta' = [meta EXCEPT ![worker.book] = Filled] /\ worker' = [worker EXCEPT !.pc = "done"]
     ELSE UNCHANGED meta /\ worker' = [worker EXCEPT !.pc = "fail"]
  /\ UNCHANGED <<jobs, shelved, edits, web, notify, run, faults, stops, lost>>

\* Mutant: the recovery of a panic gives no verdict.
PanicWithoutVerdict ==
  /\ worker.pc \in AbandonAt /\ Fault
  /\ worker' = At("claim") /\ OnlyWorker

\* A panic in process is recovered there and is a verdict of its own, which
\* rests on no answer that was cut.
Panic ==
  /\ worker.pc \in AbandonAt /\ Fault
  /\ worker' = [worker EXCEPT !.pc = "fail", !.cut = FALSE]
  /\ OnlyWorker

\* Mutant: the status of the row is not asked for.
MarkedWhatever(i, status) ==
  {IF j.id = i THEN [j EXCEPT !.status = status] ELSE j : j \in jobs}

\* MarkEnrichmentDone and MarkEnrichmentFailed, on a context of their own,
\* touch only a row that is running; a write that fails is logged.
Marked(i, status) ==
  {IF j.id = i /\ j.status = "running" THEN [j EXCEPT !.status = status] ELSE j : j \in jobs}

Mark ==
  /\ worker.pc \in {"done", "fail"}
  /\ \/ /\ jobs' = Marked(worker.id, IF worker.pc = "done" THEN "done" ELSE "failed")
        /\ UNCHANGED <<lost, faults>>
     \/ Fault /\ lost' = lost \cup {j.id : j \in Running \cap JobWithId(worker.id)} /\ UNCHANGED jobs
  /\ worker' = At("claim")
  /\ UNCHANGED <<library, web, notify, run, stops>>

-----------------------------------------------------------------------------
(***************************************************************************)
(* The process, as in SendQueue; the recovery requeues.                    *)
(***************************************************************************)
Stop ==
  /\ run \in {"starting", "up"} /\ stops < MaxStops
  /\ run' = "stopping" /\ stops' = stops + 1
  /\ UNCHANGED <<jobs, library, web, notify, worker, faults, lost>>

Exit ==
  /\ run = "stopping" \/ (run \in {"starting", "up"} /\ stops < MaxStops)
  /\ stops' = IF run = "stopping" THEN stops ELSE stops + 1
  /\ run' = "down"
  /\ worker' = At("off") /\ notify' = FALSE
  /\ reqs' = [q \in Requests |-> NoRequest]
  /\ UNCHANGED <<jobs, library, clock, owed, faults, lost>>

Start ==
  /\ run = "down"
  /\ run' = "starting"
  /\ UNCHANGED <<jobs, library, web, notify, worker, faults, stops, lost>>

\* Mutant: every running row goes back into the queue.
RequeueAll ==
  {(jobs \ Running) \cup {[j EXCEPT !.status = "queued", !.at = clock] : j \in Running}}

\* RequeueInterruptedEnrichment visits the running rows one after the other:
\* one row of a book goes back into the queue, unless a job of the book is
\* queued already, and the others are deleted.
Requeued ==
  LET back == {s \in SUBSET Running :
                 \A b \in Books : Cardinality({j \in s : j.book = b}) =
                   IF Queued(b) = {} /\ \E j \in Running : j.book = b THEN 1 ELSE 0}
  IN  {(jobs \ Running) \cup {[j EXCEPT !.status = "queued", !.at = clock] : j \in s} : s \in back}

\* The failure of the requeue is logged and the worker starts all the same.
Recover ==
  /\ run = "starting"
  /\ \/ jobs' \in Requeued /\ lost' = {} /\ UNCHANGED faults
     \/ Fault /\ lost' = {j.id : j \in Running} /\ UNCHANGED jobs
  /\ run' = "up" /\ worker' = At("claim")
  /\ UNCHANGED <<library, web, notify, stops>>

-----------------------------------------------------------------------------
(***************************************************************************)
(* The rest of the program, as far as it changes what a job reads.         *)
(***************************************************************************)

\* UpdateBookField and UpdateBookAuthors: a person types or clears a value.
EditField(b, f, s) ==
  /\ run \in {"starting", "up"} /\ b \in shelved
  /\ f # Cover /\ s \in Manual /\ meta[b][f] # s
  /\ meta' = [meta EXCEPT ![b][f] = s]
  /\ Edited
  /\ UNCHANGED <<jobs, shelved, web, notify, worker, run, faults, stops, lost>>

\* The sweep extracts the embedded cover, also over a provider's whose file
\* is gone, or forgets such a one (UpdateBookCoverPath, ClearProviderCover).
SweepCover(b, s) ==
  /\ run \in {"starting", "up"} /\ b \in shelved
  /\ \/ s = "embedded" /\ meta[b][Cover] \in {"empty", "found"}
     \/ s = "empty" /\ meta[b][Cover] = "found"
  /\ meta' = [meta EXCEPT ![b][Cover] = s]
  /\ Edited
  /\ UNCHANGED <<jobs, shelved, web, notify, worker, run, faults, stops, lost>>

\* The book is pruned or replaced; its jobs go with it (ON DELETE CASCADE).
DeleteBook(b) ==
  /\ run \in {"starting", "up"} /\ b \in shelved
  /\ shelved' = shelved \ {b}
  /\ jobs' = {j \in jobs : j.book # b} /\ owed' = owed \ {b}
  /\ lost' = lost \ {j.id : j \in jobs \ jobs'}
  /\ UNCHANGED <<meta, edits, reqs, clock, notify, worker, run, faults, stops>>

-----------------------------------------------------------------------------
Init ==
  /\ jobs = {} /\ shelved = Books
  /\ meta \in [Books -> [Fields -> {"empty", "embedded"}]]
  /\ reqs = [q \in Requests |-> NoRequest] /\ clock = 0 /\ owed = {}
  /\ notify = FALSE /\ worker = At("off") /\ run = "down"
  /\ edits = 0 /\ lost = {} /\ faults = 0 /\ stops = 0

Queueing(q) == Enqueue(q) \/ EnqueueFails(q) \/ Poke(q)

Work ==
  \/ Wake \/ Leave \/ Claim \/ Drained
  \/ ReadBook \/ ReadSources \/ OperationFails \/ Abandon
  \/ ProviderAnswers \/ ProviderFails \/ Resolved
  \/ StoreCover \/ LoseCover \/ Apply \/ Panic \/ Mark

Next ==
  \/ \E q \in Requests, b \in Books : Ask(q, b)
  \/ \E q \in Requests : Queueing(q)
  \/ Work
  \/ Stop \/ Exit \/ Start \/ Recover
  \/ \E b \in Books, f \in Fields, s \in FieldStates : EditField(b, f, s)
  \/ \E b \in Books, s \in FieldStates : SweepCover(b, s)
  \/ \E b \in Books : DeleteBook(b)

Spec == Init /\ [][Next]_vars
=============================================================================
