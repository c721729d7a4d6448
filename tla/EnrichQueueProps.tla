-------------------------- MODULE EnrichQueueProps --------------------------
(***************************************************************************)
(* What enrichment promises, over EnrichQueue.                             *)
(***************************************************************************)
EXTENDS EnrichQueue

\* Type invariant: every variable and table has its declared shape, and the
\* ids of the jobs table are unique.
TypeOK ==
  /\ jobs \subseteq Jobs
  /\ \A j, k \in jobs : j.id = k.id => j = k
  /\ shelved \subseteq Books
  /\ meta \in [Books -> [Fields -> FieldStates]]
  /\ reqs \in [Requests -> RequestStates]
  /\ clock \in 0 .. MaxPresses
  /\ notify \in BOOLEAN
  /\ worker \in WorkerStates
  /\ run \in {"down", "starting", "up", "stopping"}
  /\ owed \subseteq Books /\ lost \subseteq 1 .. MaxPresses
  /\ edits \in 0 .. MaxEdits /\ faults \in 0 .. MaxFaults /\ stops \in 0 .. MaxStops

-----------------------------------------------------------------------------
\* A book never has two queued jobs: not by two presses, and not by the
\* requeue of what a crash left running beside a job queued meanwhile
\* (EnqueueEnrichment's guard, RequeueInterruptedEnrichment's deletions).
OneQueued == \A b \in Books : Cardinality(Queued(b)) <= 1

\* A press is never answered with a run that began before it: a book asked
\* for since a job of its own was last claimed has a job still queued.
PressIsQueued == \A b \in owed : Queued(b) # {}

\* The queue keeps the promise of a press (EnrichPromise): a run that begins
\* after it, whatever is running, stops, crashes or is deleted meanwhile; no
\* run left behind without a verdict; fields filled only where empty.
Promise == INSTANCE EnrichPromise WITH
  States <- FieldStates,
  Shelf <- [Books -> [Fields -> {"empty", "embedded"}]],
  waiting <- {b \in Books : Queued(b) # {}},
  turn <- IF worker.pc \in Busy THEN {worker.book} ELSE {},
  unsettled <- {j.book : j \in Running},
  fields <- meta

KeepsPromise == Promise!Spec

\* A shutdown that cuts a provider's call or a download short never turns
\* into a verdict: what the run did not find is no answer (process's ctx.Err
\* checks).  Only a panic is recorded come what may, as such.
CutRunHasNoVerdict ==
  worker.pc \in {"done", "fail"} => ~worker.cut

\* The worker's verdict never lands on another book's job, though the id of
\* a job deleted with its book is given out again.
VerdictOnOwnJob ==
  [][\A j \in jobs, k \in jobs' :
       j.id = k.id /\ j.status # k.status /\ k.status \in {"done", "failed"}
       => worker.pc \in Busy /\ j.book = worker.book]_vars

\* However long the providers take, a value a person typed, a field a person
\* cleared and what the file itself says are never replaced by a provider's
\* (fieldIsStillMissingTx).
FillsOnlyEmpty ==
  [][\A b \in Books, f \in Fields :
       meta[b][f] # "found" /\ meta'[b][f] = "found" => meta[b][f] = "empty"]_vars

-----------------------------------------------------------------------------
(***************************************************************************)
(* Liveness.  Handlers run to their end, the worker's ticker ticks,        *)
(* provider calls and downloads have timeouts, a shutdown's wait is        *)
(* bounded, and the service manager starts the server again.               *)
(***************************************************************************)
Fairness ==
  /\ \A q \in Requests : WF_vars(Queueing(q))
  /\ WF_vars(Work)
  /\ WF_vars(run = "stopping" /\ Exit)
  /\ WF_vars(Start)
  /\ WF_vars(Recover)

FairSpec == Spec /\ Fairness

\* A queued job comes to a verdict or goes with its book in the end, through
\* lost pokes, failed claims, panics and restarts.  A row may stay running
\* only if the very write that would have ended that failed: its own mark,
\* or the requeue after a restart (worker.go's fail and done,
\* RequeueInterruptedEnrichment).
EveryJobEnds ==
  \A i \in 1 .. MaxPresses :
    (\E j \in JobWithId(i) : j.status = "queued") ~>
      \A j \in JobWithId(i) :
        j.status \in {"done", "failed"} \/ (j.status = "running" /\ i \in lost)
=============================================================================
