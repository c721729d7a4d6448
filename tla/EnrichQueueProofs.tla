-------------------------- MODULE EnrichQueueProofs --------------------------
(***************************************************************************)
(* Proofs about the enrichment queue, for every number of books, fields,   *)
(* requests, providers, presses, faults and restarts.                      *)
(*                                                                         *)
(* The invariant says of the table that ids are unique and that two queued *)
(* rows are of two books, and of the worker that a running row under its   *)
(* id is of its book and that a call can only have been cut once ctx is    *)
(* done.  The id of a deleted row may be given out again; the row that     *)
(* gets it is queued, and only the worker makes a row running.  The last   *)
(* part maps each step to a step of EnrichPromise, or to a stutter.        *)
(***************************************************************************)
EXTENDS EnrichQueueProps, FiniteSetTheorems, TLAPS

BusyStates ==
  [pc : Busy, id : Nat \ {0}, book : Books, missing : SUBSET Fields,
   got : SUBSET Fields, left : 0 .. Providers, asked : 0 .. Providers,
   failed : 0 .. Providers, cut : BOOLEAN]

\* The table of jobs js.
UniqueIds(js) == \A j, k \in js : j.id = k.id => j = k
OneEach(js) ==
  \A j, k \in js : j.status = "queued" /\ k.status = "queued" /\ j.book = k.book => j = k
JobsOK(js) ==
  /\ js \subseteq Jobs /\ \A j \in js : j.id <= MaxPresses
  /\ UniqueIds(js) /\ OneEach(js)

\* The worker w, the jobs js it may mark, and the process r.
Counted(w) == w.asked + w.left <= Providers /\ w.failed <= w.asked
OwnJob(w, js) == \A j \in js : j.id = w.id /\ j.status = "running" => j.book = w.book
WorkerOK(w, js, r) ==
  /\ w \in WorkerStates
  /\ w.pc \in Busy => Counted(w) /\ OwnJob(w, js) /\ (w.cut => r = "stopping")

\* The rest of the state.
RestOK ==
  /\ shelved \subseteq Books
  /\ meta \in [Books -> [Fields -> FieldStates]]
  /\ reqs \in [Requests -> RequestStates]
  /\ clock \in 0 .. MaxPresses
  /\ notify \in BOOLEAN
  /\ run \in {"down", "starting", "up", "stopping"}
  /\ owed \subseteq Books
  /\ edits \in 0 .. MaxEdits /\ faults \in 0 .. MaxFaults /\ stops \in 0 .. MaxStops

EnrichInv ==
  /\ JobsOK(jobs) /\ WorkerOK(worker, jobs, run) /\ RestOK
  /\ PressIsQueued /\ CutRunHasNoVerdict

-----------------------------------------------------------------------------
LEMMA WorkerShape ==
  ASSUME NEW w \in WorkerStates
  PROVE  /\ w.pc \in Busy => w \in BusyStates
         /\ w.pc \in Busy \cup {"off", "wait", "claim"}
BY DEF WorkerStates, BusyStates, Busy

LEMMA BusyChanges ==
  ASSUME NEW w \in BusyStates
  PROVE  /\ w \in WorkerStates /\ w.pc \in Busy /\ w.cut \in BOOLEAN
         /\ w.id \in Nat \ {0} /\ w.book \in Books
         /\ w.missing \in SUBSET Fields /\ w.got \in SUBSET Fields
         /\ w.left \in 0 .. Providers /\ w.asked \in 0 .. Providers /\ w.failed \in 0 .. Providers
         /\ \A pc \in Busy : [w EXCEPT !.pc = pc] \in BusyStates
         /\ \A pc \in Busy, m \in SUBSET Fields :
              [w EXCEPT !.pc = pc, !.missing = m] \in BusyStates
BY DEF WorkerStates, BusyStates, Busy

LEMMA IdleWorker ==
  ASSUME NEW pc \in {"off", "wait", "claim"}, NEW js, NEW r
  PROVE  WorkerOK(At(pc), js, r) /\ At(pc).pc = pc /\ pc \notin Busy
BY DEF WorkerOK, WorkerStates, At, Busy

LEMMA NoJobs == JobsOK({})
BY DEF JobsOK, UniqueIds, OneEach

LEMMA InitEnrich == Init => EnrichInv
<1> SUFFICES ASSUME Init PROVE EnrichInv
  OBVIOUS
<1>1. WorkerOK(worker, jobs, run) /\ worker.pc = "off"
  BY IdleWorker DEF Init
<1>2. RestOK
  <2>1. meta \in [Books -> [Fields -> FieldStates]]
    BY DEF Init, FieldStates
  <2>2. reqs \in [Requests -> RequestStates]
    BY DEF Init, RequestStates
  <2>3. /\ clock \in 0 .. MaxPresses /\ edits \in 0 .. MaxEdits
        /\ faults \in 0 .. MaxFaults /\ stops \in 0 .. MaxStops
    <3>1. MaxPresses \in Nat /\ MaxEdits \in Nat /\ MaxFaults \in Nat /\ MaxStops \in Nat
      BY EnrichAssumption
    <3>2. QED
      BY <3>1 DEF Init
  <2>4. QED
    BY <2>1, <2>2, <2>3 DEF Init, RestOK
<1>3. QED
  BY <1>1, <1>2, NoJobs DEF Init, EnrichInv, PressIsQueued, CutRunHasNoVerdict

\* A smaller table, and one whose rows change their status alone, keep what
\* the table and the worker rely on.
LEMMA FewerJobs ==
  ASSUME NEW js, JobsOK(js), NEW ks \in SUBSET js
  PROVE  JobsOK(ks)
BY DEF JobsOK, UniqueIds, OneEach

LEMMA OwnOfFewer ==
  ASSUME NEW w, NEW js, NEW r, WorkerOK(w, js, r), NEW ks,
         \A k \in ks : k.status = "running" => k \in js
  PROVE  WorkerOK(w, ks, r)
BY DEF WorkerOK, OwnJob

\* A step that moves the worker alone.
LEMMA WorkerMoves ==
  ASSUME EnrichInv, UNCHANGED <<jobs, shelved, meta, edits, reqs, clock, owed, run, stops>>,
         notify' \in BOOLEAN, faults' \in 0 .. MaxFaults,
         WorkerOK(worker', jobs, run),
         worker'.pc \in {"done", "fail"} => ~worker'.cut
  PROVE  EnrichInv'
<1>1. RestOK'
  BY DEF EnrichInv, RestOK
<1>2. PressIsQueued' /\ CutRunHasNoVerdict'
  BY DEF EnrichInv, PressIsQueued, Queued, CutRunHasNoVerdict
<1>3. JobsOK(jobs)' /\ WorkerOK(worker, jobs, run)'
  BY DEF EnrichInv
<1>4. QED
  BY <1>1, <1>2, <1>3 DEF EnrichInv

\* ... to a place between two jobs, or on with its job.
LEMMA WorkerRests ==
  ASSUME EnrichInv, UNCHANGED <<jobs, shelved, meta, edits, reqs, clock, owed, run, stops>>,
         notify' \in BOOLEAN, faults' \in 0 .. MaxFaults,
         NEW pc \in {"off", "wait", "claim"}, worker' = At(pc)
  PROVE  EnrichInv'
<1>1. WorkerOK(worker', jobs, run) /\ worker'.pc \notin {"done", "fail"}
  BY IdleWorker DEF Busy
<1>2. QED
  BY <1>1, WorkerMoves

LEMMA WorkerGoesOn ==
  ASSUME EnrichInv, OnlyWorker, faults' \in 0 .. MaxFaults,
         worker.pc \in Busy, worker' \in BusyStates, Counted(worker'),
         worker'.id = worker.id, worker'.book = worker.book,
         worker'.cut => worker.cut \/ run = "stopping",
         worker'.pc \in {"done", "fail"} => run = "up" \/ ~worker'.cut
  PROVE  EnrichInv'
<1>1. worker' \in WorkerStates /\ OwnJob(worker', jobs)
  BY BusyChanges DEF EnrichInv, WorkerOK, OwnJob
<1>2. worker.cut => run = "stopping"
  BY DEF EnrichInv, WorkerOK
<1>3. WorkerOK(worker', jobs, run)
  BY <1>1, <1>2 DEF WorkerOK
<1>4. worker'.pc \in {"done", "fail"} => ~worker'.cut
  BY <1>2
<1>5. notify' \in BOOLEAN
  BY DEF EnrichInv, RestOK, OnlyWorker
<1>6. QED
  BY <1>3, <1>4, <1>5, WorkerMoves DEF OnlyWorker, library, web

LEMMA FaultType ==
  ASSUME RestOK, Fault \/ UNCHANGED faults
  PROVE  faults' \in 0 .. MaxFaults
<1>1. MaxFaults \in Nat
  BY EnrichAssumption
<1>2. QED
  BY <1>1 DEF RestOK, Fault

\* The steps in which the worker moves between two jobs, reads, and asks.
LEMMA ReadingStep ==
  ASSUME EnrichInv,
         \/ Wake \/ Leave \/ Drained \/ ReadBook \/ ReadSources \/ OperationFails \/ Abandon
         \/ Panic
  PROVE  EnrichInv'
<1> DEFINE w == worker
<1>a. RestOK /\ notify \in BOOLEAN /\ w \in WorkerStates /\ faults \in 0 .. MaxFaults
  BY DEF EnrichInv, RestOK, WorkerOK
<1>b. w.pc \in Busy => w \in BusyStates /\ Counted(w)
  BY <1>a, WorkerShape DEF EnrichInv, WorkerOK
<1> HIDE DEF w
<1>1. CASE Wake
  <2>1. notify' \in BOOLEAN
    BY <1>1, <1>a DEF Wake
  <2>2. QED
    BY <1>1, <1>a, <2>1, WorkerRests DEF Wake, library, web
<1>2. CASE Leave
  BY <1>2, <1>a, WorkerRests DEF Leave, OnlyWorker, library, web
<1>3. CASE Drained
  BY <1>3, <1>a, FaultType, WorkerRests DEF Drained, OnlyWorker, library, web
<1>4. CASE Abandon
  BY <1>4, <1>a, WorkerRests DEF Abandon, OnlyWorker, library, web
<1>c. ASSUME NEW pc \in Busy, NEW m \in SUBSET Fields, worker.pc \in Busy,
             worker' = [worker EXCEPT !.pc = pc, !.missing = m] \/ worker' = [worker EXCEPT !.pc = pc],
             OnlyWorker, faults' \in 0 .. MaxFaults,
             pc \in {"done", "fail"} => run = "up"
      PROVE  EnrichInv'
  <2>1. worker \in BusyStates /\ Counted(worker)
    BY <1>b, <1>c DEF w
  <2>2. worker' \in BusyStates
    <3>1. [worker EXCEPT !.pc = pc] \in BusyStates
      BY <2>1, BusyChanges
    <3>2. [worker EXCEPT !.pc = pc, !.missing = m] \in BusyStates
      BY <2>1, BusyChanges
    <3>3. QED
      BY <1>c, <3>1, <3>2
  <2>3. /\ worker'.id = worker.id /\ worker'.book = worker.book /\ worker'.cut = worker.cut
        /\ worker'.asked = worker.asked /\ worker'.left = worker.left
        /\ worker'.failed = worker.failed /\ worker'.pc = pc
    BY <1>c, <2>1 DEF BusyStates
  <2>4. Counted(worker')
    BY <2>1, <2>3 DEF Counted
  <2>5. QED
    BY <1>c, <2>2, <2>3, <2>4, WorkerGoesOn
<1>5. CASE ReadBook
  <2>1. worker.pc \in Busy /\ UNCHANGED faults /\ run = "up" /\ OnlyWorker
    BY <1>5 DEF ReadBook, Busy, Goes
  <2>2. \/ worker' = [worker EXCEPT !.pc = "fail"]
        \/ worker' = [worker EXCEPT !.pc = "sources",
                          !.missing = {f \in Fields : meta[worker.book][f] \in NoValue}]
    BY <1>5 DEF ReadBook, Goes
  <2>3. {f \in Fields : meta[worker.book][f] \in NoValue} \in SUBSET Fields
    OBVIOUS
  <2>4. QED
    BY <1>a, <1>c, <2>1, <2>2, <2>3 DEF Busy
<1>6. CASE ReadSources
  <2>1. worker.pc \in Busy /\ UNCHANGED faults /\ run = "up" /\ OnlyWorker
    BY <1>6 DEF ReadSources, Busy
  <2>2. worker.missing \in SUBSET Fields
    BY <1>b, <2>1, BusyChanges DEF w
  <2>3. PICK m \in SUBSET Fields : worker' = [worker EXCEPT !.pc = "ask", !.missing = m]
    <3>1. {f \in worker.missing : worker.book \in shelved => meta[worker.book][f] \notin Manual}
            \in SUBSET Fields
      BY <2>2
    <3>2. QED
      BY <1>6, <3>1 DEF ReadSources
  <2>4. QED
    BY <1>a, <1>c, <2>1, <2>3 DEF Busy
<1>7. CASE OperationFails
  <2>1. worker.pc \in Busy /\ run = "up" /\ OnlyWorker /\ worker' = [worker EXCEPT !.pc = "fail"]
    BY <1>7 DEF OperationFails, Busy, Goes
  <2>2. QED
    BY <1>7, <1>a, <1>c, <2>1, FaultType DEF Busy, OperationFails
<1>8. CASE Panic
  <2>1. worker.pc \in Busy /\ worker' = [worker EXCEPT !.pc = "fail", !.cut = FALSE]
    BY <1>8 DEF Panic, AbandonAt, Busy
  <2>2. worker \in BusyStates /\ Counted(worker)
    BY <1>b, <2>1 DEF w
  <2>3. /\ worker' \in BusyStates /\ worker'.id = worker.id /\ worker'.book = worker.book
        /\ worker'.asked = worker.asked /\ worker'.left = worker.left
        /\ worker'.failed = worker.failed /\ ~worker'.cut
    BY <2>1, <2>2 DEF BusyStates, Busy
  <2>4. Counted(worker')
    BY <2>2, <2>3 DEF Counted
  <2>5. faults' \in 0 .. MaxFaults /\ OnlyWorker
    BY <1>8, <1>a, FaultType DEF Panic
  <2>6. QED
    BY <2>1, <2>3, <2>4, <2>5, WorkerGoesOn
<1>9. QED
  BY <1>1, <1>2, <1>3, <1>4, <1>5, <1>6, <1>7, <1>8

\* The calls of the providers and what becomes of the answers.
LEMMA ResolvingStep ==
  ASSUME EnrichInv, ProviderAnswers \/ ProviderFails \/ Resolved \/ StoreCover \/ LoseCover
  PROVE  EnrichInv'
<1>a. /\ UNCHANGED faults /\ OnlyWorker /\ worker.pc \in Busy
      /\ faults' \in 0 .. MaxFaults
  <2>1. UNCHANGED faults /\ OnlyWorker /\ worker.pc \in Busy
    BY DEF ProviderAnswers, ProviderFails, Asking, Resolved, Goes, StoreCover, LoseCover, Busy
  <2>2. faults \in 0 .. MaxFaults
    BY DEF EnrichInv, RestOK
  <2>3. QED
    BY <2>1, <2>2
<1>b. worker \in BusyStates /\ Counted(worker) /\ Providers \in Nat
  BY <1>a, WorkerShape, EnrichAssumption DEF EnrichInv, WorkerOK
<1>c. /\ worker.left \in Nat /\ worker.asked \in Nat /\ worker.failed \in Nat
      /\ worker.asked + worker.left <= Providers /\ worker.failed <= worker.asked
  <2>1. /\ worker.left \in 0 .. Providers /\ worker.asked \in 0 .. Providers
        /\ worker.failed \in 0 .. Providers
    BY <1>b, BusyChanges
  <2>2. QED
    BY <1>b, <2>1 DEF Counted
<1>d. worker.missing \in SUBSET Fields /\ worker.got \in SUBSET Fields
  BY <1>b, BusyChanges
<1>1. CASE ProviderAnswers
  <2>1. PICK found \in SUBSET worker.missing :
          worker' = [worker EXCEPT !.left = @ - 1, !.asked = @ + 1,
                       !.missing = @ \ found, !.got = @ \cup found]
    BY <1>1 DEF ProviderAnswers
  <2>2. worker.left > 0 /\ worker.pc = "ask"
    BY <1>1 DEF ProviderAnswers, Asking
  <2>3. /\ worker.left - 1 \in 0 .. Providers /\ worker.asked + 1 \in 0 .. Providers
    BY <1>b, <1>c, <2>2
  <2>8. worker.missing \ found \in SUBSET Fields /\ worker.got \cup found \in SUBSET Fields
    BY <1>d
  <2>4. worker' \in BusyStates
    BY <1>b, <2>1, <2>3, <2>8 DEF BusyStates
  <2>5. /\ worker'.id = worker.id /\ worker'.book = worker.book /\ worker'.cut = worker.cut
        /\ worker'.pc = "ask" /\ worker'.asked = worker.asked + 1
        /\ worker'.left = worker.left - 1 /\ worker'.failed = worker.failed
    BY <1>b, <2>1, <2>2 DEF BusyStates
  <2>6. Counted(worker')
    BY <1>b, <1>c, <2>5 DEF Counted
  <2>7. QED
    BY <1>a, <2>4, <2>5, <2>6, WorkerGoesOn
<1>2. CASE ProviderFails
  <2>1. worker' = [worker EXCEPT !.left = @ - 1, !.asked = @ + 1, !.failed = @ + 1,
                     !.cut = @ \/ run = "stopping"]
    BY <1>2 DEF ProviderFails
  <2>2. worker.left > 0 /\ worker.pc = "ask"
    BY <1>2 DEF ProviderFails, Asking
  <2>3. /\ worker.left - 1 \in 0 .. Providers /\ worker.asked + 1 \in 0 .. Providers
        /\ worker.failed + 1 \in 0 .. Providers
    BY <1>b, <1>c, <2>2
  <2>8. PICK c \in BOOLEAN : c = (worker.cut \/ run = "stopping")
    OBVIOUS
  <2>9. worker' = [worker EXCEPT !.left = worker.left - 1, !.asked = worker.asked + 1,
                     !.failed = worker.failed + 1, !.cut = c]
    BY <2>1, <2>8, Zenon
  <2>4. worker' \in BusyStates
    BY <1>b, <2>3, <2>9 DEF BusyStates
  <2>5. /\ worker'.id = worker.id /\ worker'.book = worker.book /\ worker'.cut = c
        /\ worker'.pc = "ask" /\ worker'.asked = worker.asked + 1
        /\ worker'.left = worker.left - 1 /\ worker'.failed = worker.failed + 1
    BY <1>b, <2>9, <2>2 DEF BusyStates
  <2>6. Counted(worker')
    BY <1>b, <1>c, <2>5 DEF Counted
  <2>7. QED
    BY <1>a, <2>4, <2>5, <2>6, <2>8, WorkerGoesOn
<1>3. CASE Resolved \/ StoreCover
  <2>1. PICK pc \in Busy : /\ worker' = [worker EXCEPT !.pc = pc]
                           /\ pc \in {"done", "fail"} => run = "up"
    BY <1>3 DEF Resolved, StoreCover, Goes, AfterResolve, Busy
  <2>2. worker' \in BusyStates
    BY <1>b, <2>1, BusyChanges
  <2>3. /\ worker'.id = worker.id /\ worker'.book = worker.book /\ worker'.cut = worker.cut
        /\ worker'.asked = worker.asked /\ worker'.left = worker.left
        /\ worker'.failed = worker.failed /\ worker'.pc = pc
    BY <1>b, <2>1 DEF BusyStates
  <2>4. Counted(worker')
    BY <1>b, <2>3 DEF Counted
  <2>5. QED
    BY <1>a, <2>1, <2>2, <2>3, <2>4, WorkerGoesOn
<1>4. CASE LoseCover
  <2>8. PICK c \in BOOLEAN : c = (worker.cut \/ run = "stopping")
    OBVIOUS
  <2>1. PICK rest \in SUBSET Fields, pc \in {"fail", "apply"} :
          /\ worker' = [worker EXCEPT !.got = rest, !.cut = c, !.pc = pc]
          /\ pc = "fail" => run = "up"
    <3>1. worker.got \ {Cover} \in SUBSET Fields
      BY <1>b, BusyChanges
    <3>2. worker' = [worker EXCEPT !.got = worker.got \ {Cover}, !.cut = c,
                       !.pc = IF worker.got \ {Cover} = {} THEN "fail" ELSE "apply"]
      BY <1>4, <2>8, Zenon DEF LoseCover
    <3>3. worker.got \ {Cover} = {} => run = "up"
      BY <1>4 DEF LoseCover
    <3>4. CASE worker.got \ {Cover} = {}
      BY <3>1, <3>2, <3>3, <3>4
    <3>5. CASE worker.got \ {Cover} # {}
      BY <3>1, <3>2, <3>5
    <3>6. QED
      BY <3>4, <3>5
  <2>2. worker' \in BusyStates
    BY <1>b, <2>1 DEF BusyStates, Busy
  <2>3. /\ worker'.id = worker.id /\ worker'.book = worker.book /\ worker'.cut = c
        /\ worker'.asked = worker.asked /\ worker'.left = worker.left
        /\ worker'.failed = worker.failed /\ worker'.pc = pc
    BY <1>b, <2>1 DEF BusyStates
  <2>4. Counted(worker')
    BY <1>b, <2>3 DEF Counted
  <2>5. QED
    BY <1>a, <2>1, <2>2, <2>3, <2>4, <2>8, WorkerGoesOn
<1>5. QED
  BY <1>1, <1>2, <1>3, <1>4

LEMMA ApplyStep ==
  ASSUME EnrichInv, Apply
  PROVE  EnrichInv'
<1>a. worker \in BusyStates /\ Counted(worker) /\ OwnJob(worker, jobs) /\ ~worker.cut
  BY WorkerShape DEF EnrichInv, WorkerOK, Apply, Busy
<1>1. meta' \in [Books -> [Fields -> FieldStates]]
  <2>1. worker.book \in Books /\ meta \in [Books -> [Fields -> FieldStates]]
    BY <1>a, BusyChanges DEF EnrichInv, RestOK
  <2>2. Filled \in [Fields -> FieldStates]
    BY <2>1 DEF Filled, FieldStates
  <2>3. QED
    BY <2>1, <2>2 DEF Apply
<1>2. PICK pc \in {"done", "fail"} : worker' = [worker EXCEPT !.pc = pc]
  BY DEF Apply
<1>3. worker' \in BusyStates /\ worker' \in WorkerStates
  <2>1. worker' \in BusyStates
    BY <1>a, <1>2, BusyChanges DEF Busy
  <2>2. QED
    BY <2>1, BusyChanges
<1>4. /\ worker'.id = worker.id /\ worker'.book = worker.book /\ worker'.cut = worker.cut
      /\ worker'.asked = worker.asked /\ worker'.left = worker.left
      /\ worker'.failed = worker.failed
  BY <1>a, <1>2 DEF BusyStates
<1>5. WorkerOK(worker', jobs, run) /\ ~worker'.cut
  BY <1>a, <1>3, <1>4 DEF WorkerOK, Counted, OwnJob
<1>6. RestOK'
  BY <1>1 DEF Apply, RestOK, EnrichInv, web
<1>7. PressIsQueued' /\ CutRunHasNoVerdict'
  BY <1>5 DEF Apply, EnrichInv, PressIsQueued, CutRunHasNoVerdict, Queued, web
<1>8. JobsOK(jobs)' /\ WorkerOK(worker, jobs, run)'
  BY <1>5 DEF Apply, EnrichInv
<1>9. QED
  BY <1>6, <1>7, <1>8 DEF EnrichInv

-----------------------------------------------------------------------------
\* Rows that are rewritten in place keep their ids apart, and if none is made
\* queued that was not, their books as well.
LEMMA Rewritten ==
  ASSUME NEW js, JobsOK(js), NEW g \in [js -> Jobs], \A j \in js : g[j].id = j.id,
         NEW ks, \A k \in ks : \E j \in js : k = g[j]
  PROVE  /\ ks \subseteq Jobs /\ \A k \in ks : k.id <= MaxPresses
         /\ UniqueIds(ks)
         /\ (\A j \in js : g[j].status = "queued" => g[j] = j) => JobsOK(ks)
<1>1. ks \subseteq Jobs /\ \A k \in ks : k.id <= MaxPresses
  BY DEF JobsOK
<1>2. UniqueIds(ks)
  BY DEF JobsOK, UniqueIds
<1>3. (\A j \in js : g[j].status = "queued" => g[j] = j) => OneEach(ks)
  BY DEF JobsOK, OneEach
<1>4. QED
  BY <1>1, <1>2, <1>3 DEF JobsOK

LEMMA JobShape ==
  ASSUME NEW j \in Jobs
  PROVE  /\ j.id \in Nat \ {0} /\ j.book \in Books /\ j.status \in Statuses /\ j.at \in Nat
         /\ \A st \in Statuses : /\ [j EXCEPT !.status = st] \in Jobs
                                 /\ [j EXCEPT !.status = st].id = j.id
                                 /\ [j EXCEPT !.status = st].book = j.book
                                 /\ [j EXCEPT !.status = st].status = st
BY DEF Jobs

LEMMA ClaimStep ==
  ASSUME EnrichInv, Claim
  PROVE  EnrichInv'
<1>1. PICK j \in jobs :
        /\ j.status = "queued"
        /\ jobs' = (jobs \ {j}) \cup {[j EXCEPT !.status = "running"]}
        /\ worker' = With(j, "book") /\ owed' = owed \ {j.book}
  BY DEF Claim
<1>2. /\ JobsOK(jobs) /\ j \in Jobs /\ jobs \subseteq Jobs /\ "running" \in Statuses
      /\ UniqueIds(jobs) /\ OneEach(jobs)
  BY DEF EnrichInv, JobsOK, Statuses
<1> DEFINE r == [j EXCEPT !.status = "running"]
           g == [k \in jobs |-> IF k = j THEN r ELSE k]
<1>3. r \in Jobs /\ r.id = j.id /\ r.book = j.book /\ r.status = "running"
  BY <1>2, JobShape
<1> HIDE DEF r
<1>4. JobsOK(jobs')
  <2>1. g \in [jobs -> Jobs] /\ \A k \in jobs : g[k].id = k.id
    BY <1>2, <1>3
  <2>2. \A k \in jobs' : \E i \in jobs : k = g[i]
    BY <1>1 DEF r
  <2>3. \A k \in jobs : g[k].status = "queued" => g[k] = k
    BY <1>3
  <2> HIDE DEF g
  <2>4. QED
    BY <1>2, <2>1, <2>2, <2>3, Rewritten
<1>5. PressIsQueued'
  <2>1. \A b \in owed' : b \in owed /\ b # j.book
    BY <1>1
  <2>2. \A b \in owed' : \E k \in jobs : k.book = b /\ k.status = "queued"
    BY <2>1 DEF EnrichInv, PressIsQueued, Queued
  <2>3. \A b \in owed' : \E k \in jobs' : k.book = b /\ k.status = "queued"
    BY <1>1, <2>1, <2>2
  <2>4. QED
    BY <2>3 DEF PressIsQueued, Queued
<1>6. WorkerOK(worker', jobs', run)
  <2>1. j.id \in Nat \ {0} /\ j.book \in Books /\ Providers \in Nat
    BY <1>2, JobShape, EnrichAssumption
  <2>2. worker' \in BusyStates
    BY <1>1, <2>1 DEF With, BusyStates, Busy
  <2>3. Counted(worker') /\ ~worker'.cut /\ worker'.id = j.id /\ worker'.book = j.book
    BY <1>1, <2>1 DEF With, Counted
  <2>4. \A k \in jobs' : k.id = j.id => k.book = j.book
    BY <1>1, <1>2, <1>3 DEF UniqueIds, r
  <2>5. QED
    BY <2>2, <2>3, <2>4, BusyChanges DEF WorkerOK, OwnJob
<1>7. CutRunHasNoVerdict'
  BY <1>1 DEF With, CutRunHasNoVerdict
<1>8. RestOK'
  BY <1>1 DEF Claim, EnrichInv, RestOK, library
<1>9. JobsOK(jobs)' /\ WorkerOK(worker, jobs, run)'
  BY <1>4, <1>6 DEF Claim
<1>10. QED
  BY <1>5, <1>7, <1>8, <1>9 DEF EnrichInv

LEMMA MarkStep ==
  ASSUME EnrichInv, Mark
  PROVE  EnrichInv'
<1>1. PICK st \in {"done", "failed"} : jobs' = jobs \/ jobs' = Marked(worker.id, st)
  BY DEF Mark
<1>2. JobsOK(jobs) /\ jobs \subseteq Jobs /\ st \in Statuses
  BY DEF EnrichInv, JobsOK, Statuses
<1> DEFINE g == [j \in jobs |-> IF j.id = worker.id /\ j.status = "running"
                                THEN [j EXCEPT !.status = st] ELSE j]
<1>3. g \in [jobs -> Jobs] /\ \A j \in jobs : /\ g[j].id = j.id
                                              /\ g[j].status = "queued" => g[j] = j
                                              /\ j.status = "queued" => g[j] = j
  BY <1>2, JobShape
<1>4. jobs' # jobs => jobs' = {g[j] : j \in jobs}
  BY <1>1 DEF Marked
<1>5. JobsOK(jobs')
  <2>1. CASE jobs' = jobs
    BY <1>2, <2>1
  <2>2. CASE jobs' # jobs
    <3>1. \A k \in jobs' : \E j \in jobs : k = g[j]
      BY <1>4, <2>2
    <3> HIDE DEF g
    <3>2. QED
      BY <1>2, <1>3, <3>1, Rewritten
  <2>3. QED
    BY <2>1, <2>2
<1>6. \A j \in jobs : j.status = "queued" => j \in jobs'
  <2> HIDE DEF g
  <2>1. QED
    BY <1>3, <1>4
<1>7. PressIsQueued'
  BY <1>6 DEF Mark, web, EnrichInv, PressIsQueued, Queued
<1>8. WorkerOK(worker', jobs', run) /\ worker'.pc = "claim"
  BY IdleWorker DEF Mark
<1>9. CutRunHasNoVerdict'
  BY <1>8 DEF CutRunHasNoVerdict
<1>10. RestOK'
  BY FaultType DEF Mark, EnrichInv, RestOK, library, web
<1>11. JobsOK(jobs)' /\ WorkerOK(worker, jobs, run)'
  BY <1>5, <1>8 DEF Mark
<1>12. QED
  BY <1>7, <1>9, <1>10, <1>11 DEF EnrichInv

-----------------------------------------------------------------------------
\* A job is added for a book that has none queued, under a free id.
LEMMA InsertKeeps ==
  ASSUME NEW js, JobsOK(js), NEW i \in 1 .. MaxPresses, \A j \in js : j.id < i,
         NEW b \in Books, NEW t \in Nat, \A j \in js : ~(j.book = b /\ j.status = "queued"),
         NEW r, r = [id |-> i, book |-> b, status |-> "queued", at |-> t]
  PROVE  JobsOK(js \cup {r})
<1>1. MaxPresses \in Nat
  BY EnrichAssumption
<1>2. r \in Jobs /\ r.id = i /\ r.id <= MaxPresses /\ r.book = b
  BY <1>1 DEF Jobs, Statuses
<1>3. \A j \in js : j.id # i
  BY <1>1 DEF JobsOK, Jobs
<1>4. UniqueIds(js \cup {r}) /\ OneEach(js \cup {r})
  BY <1>2, <1>3 DEF JobsOK, UniqueIds, OneEach
<1>5. QED
  BY <1>2, <1>4 DEF JobsOK

LEMMA QueueingStep ==
  ASSUME EnrichInv, NEW q \in Requests, Queueing(q) \/ \E b \in Books : Ask(q, b)
  PROVE  EnrichInv'
<1>a. /\ reqs \in [Requests -> RequestStates] /\ clock \in 0 .. MaxPresses /\ MaxPresses \in Nat
      /\ owed \subseteq Books /\ faults \in 0 .. MaxFaults /\ notify \in BOOLEAN
  BY EnrichAssumption DEF EnrichInv, RestOK
<1>b. NoRequest \in RequestStates /\ [pc |-> "poke"] \in RequestStates
  BY DEF RequestStates
<1>c. ASSUME UNCHANGED <<jobs, worker, run, owed, shelved, meta, edits, stops>>,
             reqs' \in [Requests -> RequestStates], clock' \in 0 .. MaxPresses,
             notify' \in BOOLEAN, faults' \in 0 .. MaxFaults
      PROVE  EnrichInv'
  <2>1. RestOK'
    BY <1>c DEF EnrichInv, RestOK
  <2>2. PressIsQueued' /\ CutRunHasNoVerdict' /\ JobsOK(jobs)' /\ WorkerOK(worker, jobs, run)'
    BY <1>c DEF EnrichInv, PressIsQueued, Queued, CutRunHasNoVerdict
  <2>3. QED
    BY <2>1, <2>2 DEF EnrichInv
<1>1. ASSUME NEW b \in Books, Ask(q, b) PROVE EnrichInv'
  <2>1. clock' \in 0 .. MaxPresses /\ clock' \in Nat
    BY <1>1, <1>a DEF Ask
  <2>2. [pc |-> "found", book |-> b, at |-> clock'] \in RequestStates
    BY <2>1 DEF RequestStates
  <2>3. reqs' \in [Requests -> RequestStates]
    BY <1>1, <1>a, <2>2 DEF Ask
  <2>4. QED
    BY <1>1, <1>a, <1>c, <2>1, <2>3 DEF Ask, library
<1>2. CASE EnqueueFails(q)
  <2>1. reqs' \in [Requests -> RequestStates]
    BY <1>2, <1>a, <1>b DEF EnqueueFails
  <2>2. faults' \in 0 .. MaxFaults
    BY <1>2, FaultType DEF EnqueueFails, EnrichInv
  <2>3. QED
    BY <1>2, <1>a, <1>c, <2>1, <2>2 DEF EnqueueFails, library
<1>3. CASE Poke(q)
  <2>1. reqs' \in [Requests -> RequestStates]
    BY <1>3, <1>a, <1>b DEF Poke
  <2>2. QED
    BY <1>3, <1>a, <1>c, <2>1 DEF Poke, library
<1>4. CASE Enqueue(q)
  <2>1. reqs[q].book \in Books /\ reqs[q].at \in Nat
    BY <1>4, <1>a DEF Enqueue, RequestStates, NoRequest
  <2> DEFINE b == reqs[q].book
  <2>2. \/ Queued(b) # {} /\ jobs' = jobs
        \/ Queued(b) = {} /\ Insert(b, reqs[q].at)
    BY <1>4 DEF Enqueue
  <2>3. owed' = owed \cup {b}
    BY <1>4 DEF Enqueue
  <2>4. /\ JobsOK(jobs') /\ jobs \subseteq jobs'
        /\ \A j \in jobs' : j.status = "running" => j \in jobs
        /\ \E j \in jobs' : j.book = b /\ j.status = "queued"
    <3>1. CASE jobs' = jobs /\ Queued(b) # {}
      BY <3>1 DEF EnrichInv, Queued
    <3>2. CASE Queued(b) = {} /\ Insert(b, reqs[q].at)
      <4>1. PICK i \in 1 .. MaxPresses :
              /\ IsNextId(i)
              /\ jobs' = jobs \cup {[id |-> i, book |-> b, status |-> "queued", at |-> reqs[q].at]}
        BY <3>2 DEF Insert
      <4>2. PICK r : r = [id |-> i, book |-> b, status |-> "queued", at |-> reqs[q].at]
        OBVIOUS
      <4>3. \A j \in jobs : j.id < i /\ ~(j.book = b /\ j.status = "queued")
        BY <3>2, <4>1 DEF IsNextId, Queued
      <4>4. JobsOK(jobs)
        BY DEF EnrichInv
      <4> HIDE DEF b
      <4>5. b \in Books
        BY <2>1 DEF b
      <4>6. JobsOK(jobs \cup {r})
        BY <2>1, <4>2, <4>3, <4>4, <4>5, InsertKeeps
      <4>7. r.book = b /\ r.status = "queued"
        BY <4>2
      <4>8. QED
        BY <4>1, <4>2, <4>6, <4>7
    <3>3. QED
      BY <2>2, <3>1, <3>2
  <2> HIDE DEF b
  <2>5. PressIsQueued'
    <3>1. \A c \in owed : \E j \in jobs : j.book = c /\ j.status = "queued"
      BY DEF EnrichInv, PressIsQueued, Queued
    <3>2. \A c \in owed' : \E j \in jobs' : j.book = c /\ j.status = "queued"
      BY <2>3, <2>4, <3>1
    <3>3. QED
      BY <3>2 DEF PressIsQueued, Queued
  <2>6. WorkerOK(worker, jobs', run)
    BY <2>4, OwnOfFewer DEF EnrichInv
  <2>7. reqs' \in [Requests -> RequestStates]
    BY <1>4, <1>a, <1>b DEF Enqueue
  <2>8. owed' \subseteq Books
    BY <1>a, <2>1, <2>3 DEF b
  <2>9. RestOK' /\ CutRunHasNoVerdict'
    BY <1>4, <2>7, <2>8 DEF Enqueue, EnrichInv, RestOK, CutRunHasNoVerdict, library
  <2>10. JobsOK(jobs)' /\ WorkerOK(worker, jobs, run)'
    BY <1>4, <2>4, <2>6 DEF Enqueue
  <2>11. QED
    BY <2>5, <2>9, <2>10 DEF EnrichInv
<1>5. QED
  BY <1>1, <1>2, <1>3, <1>4 DEF Queueing

-----------------------------------------------------------------------------
\* Ids are numbers up to MaxPresses, so a table is finite.
LEMMA FiniteJobs ==
  ASSUME NEW js, JobsOK(js)
  PROVE  IsFiniteSet(js)
<1> DEFINE f == [j \in js |-> j.id]
<1>1. MaxPresses \in Int /\ 1 \in Int
  BY EnrichAssumption
<1>2. IsFiniteSet(1 .. MaxPresses)
  BY <1>1, FS_Interval
<1>3. \A j \in js : j.id \in 1 .. MaxPresses
  BY <1>1 DEF JobsOK, Jobs
<1>4. f \in Injection(js, 1 .. MaxPresses)
  BY <1>3 DEF JobsOK, UniqueIds, Injection, IsInjective
<1> HIDE DEF f
<1>5. QED
  BY <1>2, <1>4, FS_Injection

\* What is put back: one row of a book at most, and none of a book that has
\* a queued row.
LEMMA PutBack ==
  ASSUME JobsOK(jobs), jobs' \in Requeued
  PROVE  \E s \in SUBSET Running :
           /\ jobs' = (jobs \ Running) \cup {[j EXCEPT !.status = "queued", !.at = clock] : j \in s}
           /\ \A j, k \in s : j.book = k.book => j = k
           /\ \A j \in s : Queued(j.book) = {}
<1>1. PICK s \in SUBSET Running :
        /\ \A b \in Books : Cardinality({j \in s : j.book = b}) =
             IF Queued(b) = {} /\ \E j \in Running : j.book = b THEN 1 ELSE 0
        /\ jobs' = (jobs \ Running) \cup {[j EXCEPT !.status = "queued", !.at = clock] : j \in s}
  BY DEF Requeued
<1>2. IsFiniteSet(jobs) /\ s \in SUBSET jobs /\ \A j \in s : j.book \in Books
  BY <1>1, FiniteJobs DEF Running, JobsOK, Jobs
<1>3. ASSUME NEW j \in s
      PROVE  Queued(j.book) = {} /\ \A k \in s : k.book = j.book => k = j
  <2> DEFINE mine == {k \in s : k.book = j.book}
  <2>1. IsFiniteSet(mine) /\ mine # {}
    BY <1>2, <1>3, FS_Subset
  <2>2. Cardinality(mine) \in {0, 1} /\ (Queued(j.book) # {} => Cardinality(mine) = 0)
    BY <1>1, <1>2
  <2>3. Cardinality(mine) = 1
    BY <2>1, <2>2, FS_EmptySet
  <2>4. \E x : mine = {x}
    BY <2>1, <2>3, FS_Singleton
  <2>5. Queued(j.book) = {}
    BY <2>2, <2>3
  <2>6. QED
    BY <1>3, <2>4, <2>5
<1>4. QED
  BY <1>1, <1>3

LEMMA RequeuedKeeps ==
  ASSUME JobsOK(jobs), clock \in Nat, jobs' \in Requeued
  PROVE  JobsOK(jobs') /\ \A j \in jobs : j.status = "queued" => j \in jobs'
<1>1. PICK s \in SUBSET Running :
        /\ jobs' = (jobs \ Running) \cup {[j EXCEPT !.status = "queued", !.at = clock] : j \in s}
        /\ \A j, k \in s : j.book = k.book => j = k
        /\ \A j \in s : Queued(j.book) = {}
  BY PutBack
<1> DEFINE Back(j) == [j EXCEPT !.status = "queued", !.at = clock]
           g == [j \in jobs |-> IF j \in s THEN Back(j) ELSE j]
<1>2. \A j \in jobs : j \in Jobs
  BY DEF JobsOK
<1>3. \A j \in jobs : Back(j) \in Jobs /\ Back(j).id = j.id /\ Back(j).book = j.book
  BY <1>2 DEF Jobs, Statuses
<1>4. \A k \in jobs' : (k \in jobs /\ k \notin Running /\ k \notin s) \/ \E j \in s : k = Back(j)
  BY <1>1
<1>5. s \subseteq jobs
  BY <1>1 DEF Running
<1> HIDE DEF Back
<1>6. g \in [jobs -> Jobs] /\ \A j \in jobs : g[j].id = j.id
  BY <1>2, <1>3
<1>7. \A k \in jobs' : \E j \in jobs : k = g[j]
  BY <1>4, <1>5
<1> HIDE DEF g
<1>8. jobs' \subseteq Jobs /\ (\A k \in jobs' : k.id <= MaxPresses) /\ UniqueIds(jobs')
  <2>1. \A j \in jobs : g[j] \in Jobs /\ g[j].id = j.id /\ j.id <= MaxPresses
    BY <1>6 DEF JobsOK
  <2>2. jobs' \subseteq Jobs /\ \A k \in jobs' : k.id <= MaxPresses
    BY <1>7, <2>1
  <2>3. \A i, j \in jobs : g[i].id = g[j].id => i = j
    BY <2>1 DEF JobsOK, UniqueIds
  <2>4. UniqueIds(jobs')
    BY <1>7, <2>3 DEF UniqueIds
  <2>5. QED
    BY <2>2, <2>4
<1>9. OneEach(jobs')
  <2> SUFFICES ASSUME NEW k \in jobs', NEW l \in jobs', k.status = "queued", l.status = "queued",
                      k.book = l.book
               PROVE  k = l
    BY DEF OneEach
  <2>1. CASE k \in jobs /\ l \in jobs
    BY <2>1 DEF JobsOK, OneEach
  <2>2. CASE \E j \in s : k = Back(j)
    <3>1. PICK j \in s : k = Back(j)
      BY <2>2
    <3>2. k.book = j.book
      BY <1>3, <1>5, <3>1
    <3>3. ~(l \in jobs)
      BY <1>1, <3>2 DEF Queued
    <3>4. PICK i \in s : l = Back(i)
      BY <1>4, <3>3
    <3>5. l.book = i.book
      BY <1>3, <1>5, <3>4
    <3>6. QED
      BY <1>1, <3>1, <3>2, <3>4, <3>5
  <2>3. CASE \E j \in s : l = Back(j)
    <3>1. PICK j \in s : l = Back(j)
      BY <2>3
    <3>2. l.book = j.book
      BY <1>3, <1>5, <3>1
    <3>3. ~(k \in jobs)
      BY <1>1, <3>2 DEF Queued
    <3>4. QED
      BY <1>4, <2>2, <3>3
  <2>4. QED
    BY <1>4, <2>1, <2>2, <2>3
<1>10. \A j \in jobs : j.status = "queued" => j \in jobs'
  BY <1>1 DEF Running
<1>11. QED
  BY <1>8, <1>9, <1>10 DEF JobsOK

-----------------------------------------------------------------------------
\* The process, the person, the sweep and the prune.
LEMMA OutsideStep ==
  ASSUME EnrichInv,
         \/ Stop \/ Exit \/ Start \/ Recover
         \/ \E b \in Books, f \in Fields, s \in FieldStates : EditField(b, f, s)
         \/ \E b \in Books, s \in FieldStates : SweepCover(b, s)
         \/ \E b \in Books : DeleteBook(b)
  PROVE  EnrichInv'
<1>a. /\ JobsOK(jobs) /\ RestOK /\ PressIsQueued /\ CutRunHasNoVerdict
      /\ WorkerOK(worker, jobs, run) /\ MaxStops \in Nat /\ MaxEdits \in Nat
  BY EnrichAssumption DEF EnrichInv
<1>1. CASE Stop
  <2>1. stops' \in 0 .. MaxStops /\ run' = "stopping"
    BY <1>1, <1>a DEF Stop, RestOK
  <2>2. RestOK'
    BY <1>1, <1>a, <2>1 DEF Stop, RestOK, library, web
  <2>3. WorkerOK(worker, jobs, run)'
    BY <1>1, <1>a, <2>1 DEF Stop, WorkerOK
  <2>4. PressIsQueued' /\ CutRunHasNoVerdict' /\ JobsOK(jobs)'
    BY <1>1, <1>a DEF Stop, PressIsQueued, Queued, CutRunHasNoVerdict, web
  <2>5. QED
    BY <2>2, <2>3, <2>4 DEF EnrichInv
<1>2. CASE Exit
  <2>1. stops' \in 0 .. MaxStops /\ run' = "down"
    BY <1>2, <1>a DEF Exit, RestOK
  <2>2. reqs' \in [Requests -> RequestStates]
    BY <1>2 DEF Exit, RequestStates
  <2>3. RestOK'
    BY <1>2, <1>a, <2>1, <2>2 DEF Exit, RestOK, library
  <2>4. WorkerOK(worker', jobs, run') /\ worker'.pc = "off"
    BY <1>2, IdleWorker DEF Exit
  <2>5. PressIsQueued' /\ CutRunHasNoVerdict' /\ JobsOK(jobs)' /\ WorkerOK(worker, jobs, run)'
    BY <1>2, <1>a, <2>4 DEF Exit, PressIsQueued, Queued, CutRunHasNoVerdict
  <2>6. QED
    BY <2>3, <2>5 DEF EnrichInv
<1>3. CASE Start
  <2>1. worker.pc \in Busy => ~worker.cut
    BY <1>3, <1>a DEF Start, WorkerOK
  <2>2. RestOK' /\ PressIsQueued' /\ CutRunHasNoVerdict' /\ JobsOK(jobs)'
    BY <1>3, <1>a DEF Start, RestOK, PressIsQueued, Queued, CutRunHasNoVerdict, library, web
  <2>3. WorkerOK(worker, jobs, run)'
    BY <1>3, <1>a, <2>1 DEF Start, WorkerOK
  <2>4. QED
    BY <2>2, <2>3 DEF EnrichInv
<1>4. CASE Recover
  <2>1. JobsOK(jobs') /\ \A j \in jobs : j.status = "queued" => j \in jobs'
    BY <1>4, <1>a, RequeuedKeeps DEF Recover, RestOK
  <2>2. WorkerOK(worker', jobs', run') /\ worker'.pc = "claim"
    BY <1>4, IdleWorker DEF Recover
  <2>3. RestOK'
    BY <1>4, <1>a, FaultType DEF Recover, RestOK, library, web
  <2>4. PressIsQueued' /\ CutRunHasNoVerdict'
    BY <1>4, <1>a, <2>1, <2>2 DEF Recover, PressIsQueued, Queued, CutRunHasNoVerdict, web
  <2>5. JobsOK(jobs)' /\ WorkerOK(worker, jobs, run)'
    BY <2>1, <2>2
  <2>6. QED
    BY <2>3, <2>4, <2>5 DEF EnrichInv
<1>5. ASSUME NEW b \in Books, NEW f \in Fields, NEW s \in FieldStates,
             meta' = [meta EXCEPT ![b][f] = s], Edited,
             UNCHANGED <<jobs, shelved, web, notify, worker, run, faults, stops>>
      PROVE  EnrichInv'
  <2>1. meta' \in [Books -> [Fields -> FieldStates]]
    BY <1>5, <1>a DEF RestOK
  <2>2. edits' \in 0 .. MaxEdits
    BY <1>5, <1>a DEF Edited, RestOK
  <2>3. RestOK'
    BY <1>5, <1>a, <2>1, <2>2 DEF RestOK, web
  <2>4. PressIsQueued' /\ CutRunHasNoVerdict' /\ JobsOK(jobs)' /\ WorkerOK(worker, jobs, run)'
    BY <1>5, <1>a DEF PressIsQueued, Queued, CutRunHasNoVerdict, web
  <2>5. QED
    BY <2>3, <2>4 DEF EnrichInv
<1>6. ASSUME NEW b \in Books, DeleteBook(b) PROVE EnrichInv'
  <2>1. jobs' = {j \in jobs : j.book # b} /\ owed' = owed \ {b}
    BY <1>6 DEF DeleteBook
  <2>2. JobsOK(jobs') /\ WorkerOK(worker, jobs', run)
    <3>1. jobs' \in SUBSET jobs
      BY <2>1
    <3>2. QED
      BY <1>a, <3>1, FewerJobs, OwnOfFewer
  <2>3. PressIsQueued'
    BY <1>a, <2>1 DEF PressIsQueued, Queued
  <2>4. RestOK' /\ CutRunHasNoVerdict'
    BY <1>6, <1>a DEF DeleteBook, RestOK, CutRunHasNoVerdict
  <2>5. JobsOK(jobs)' /\ WorkerOK(worker, jobs, run)'
    BY <1>6, <2>2 DEF DeleteBook
  <2>6. QED
    BY <2>3, <2>4, <2>5 DEF EnrichInv
<1>7. QED
  BY <1>1, <1>2, <1>3, <1>4, <1>5, <1>6, EnrichAssumption DEF EditField, SweepCover

LEMMA EnrichStep == EnrichInv /\ [Next]_vars => EnrichInv'
<1> SUFFICES ASSUME EnrichInv, [Next]_vars PROVE EnrichInv'
  OBVIOUS
<1>1. CASE UNCHANGED vars
  BY <1>1 DEF vars, EnrichInv, RestOK, PressIsQueued, Queued, CutRunHasNoVerdict
<1>2. CASE Next
  BY <1>2, QueueingStep, ReadingStep, ResolvingStep, ApplyStep, ClaimStep, MarkStep, OutsideStep
  DEF Next, Work
<1>3. QED
  BY <1>1, <1>2

LEMMA EnrichAlways == Spec => []EnrichInv
<1>1. Init => EnrichInv
  BY InitEnrich
<1>2. EnrichInv /\ [Next]_vars => EnrichInv'
  BY EnrichStep
<1>3. QED
  BY <1>1, <1>2, PTL DEF Spec

\* What is noted of failed writes are ids of the table.
Noted == lost \subseteq 1 .. MaxPresses

LEMMA NotedStep == EnrichInv /\ Noted /\ [Next]_vars => Noted'
<1> SUFFICES ASSUME EnrichInv, Noted, [Next]_vars PROVE Noted'
  OBVIOUS
<1>1. {j.id : j \in Running} \subseteq 1 .. MaxPresses
  BY EnrichAssumption DEF EnrichInv, JobsOK, Jobs, Running
<1>2. CASE Mark
  BY <1>1, <1>2 DEF Mark, Noted
<1>3. CASE Recover
  BY <1>1, <1>3 DEF Recover, Noted
<1>4. CASE \E b \in Books : DeleteBook(b)
  BY <1>4 DEF DeleteBook, Noted
<1>5. CASE UNCHANGED lost
  BY <1>5 DEF Noted
<1>6. QED
  BY <1>2, <1>3, <1>4, <1>5
  DEF Next, Work, vars, Ask, Queueing, Enqueue, EnqueueFails, Poke, Wake, Leave, Claim, Drained,
      ReadBook, ReadSources, OperationFails, Abandon, ProviderAnswers, ProviderFails, Resolved,
      StoreCover, LoseCover, Apply, Panic, Goes, OnlyWorker, Stop, Exit, Start, EditField, SweepCover

\* Every table, request, field and place of the worker keeps its declared
\* shape, and the ids of enrichment_jobs stay unique.
THEOREM TypeCorrect == Spec => []TypeOK
<1>1. EnrichInv /\ Noted => TypeOK
  BY DEF EnrichInv, JobsOK, UniqueIds, WorkerOK, RestOK, Noted, TypeOK
<1>2. Init => Noted
  BY DEF Init, Noted
<1>3. QED
  BY <1>1, <1>2, NotedStep, EnrichAlways, PTL DEF Spec

\* No press, requeue or restart leaves a book with two queued jobs.
THEOREM NoneTwice == Spec => []OneQueued
<1>1. ASSUME EnrichInv, NEW b \in Books PROVE Cardinality(Queued(b)) <= 1
  <2>1. \A j, k \in Queued(b) : j = k
    BY <1>1 DEF EnrichInv, JobsOK, OneEach, Queued
  <2>2. CASE Queued(b) = {}
    BY <2>2, FS_EmptySet
  <2>3. CASE Queued(b) # {}
    <3>1. \E j : Queued(b) = {j}
      BY <2>1, <2>3
    <3>2. QED
      BY <3>1, FS_Singleton
  <2>4. QED
    BY <2>2, <2>3
<1>2. EnrichInv => OneQueued
  BY <1>1 DEF OneQueued
<1>3. QED
  BY <1>2, EnrichAlways, PTL

\* No press is answered with a run that began before it.
THEOREM NoPressLost == Spec => []PressIsQueued
<1>1. EnrichInv => PressIsQueued
  BY DEF EnrichInv
<1>2. QED
  BY <1>1, EnrichAlways, PTL

\* A call that a shutdown cut short gives no verdict.
THEOREM NoVerdictOnCut == Spec => []CutRunHasNoVerdict
<1>1. EnrichInv => CutRunHasNoVerdict
  BY DEF EnrichInv
<1>2. QED
  BY <1>1, EnrichAlways, PTL
-----------------------------------------------------------------------------
\* The steps.  Only Apply gives a field a provider's value, and only Mark a
\* row a verdict.
LEMMA FillingStep ==
  ASSUME EnrichInv, [Next]_vars, NEW b \in Books, NEW f \in Fields,
         meta[b][f] # "found", meta'[b][f] = "found"
  PROVE  meta[b][f] = "empty"
<1>1. meta' # meta /\ meta \in [Books -> [Fields -> FieldStates]]
  BY DEF EnrichInv, RestOK
<1>2. \/ Apply
      \/ \E c \in Books, h \in Fields, s \in FieldStates : EditField(c, h, s)
      \/ \E c \in Books, s \in FieldStates : SweepCover(c, s)
  BY <1>1 DEF Next, vars, Work, Ask, Queueing, Enqueue, EnqueueFails, Poke, OnlyWorker, Goes,
     Wake, Leave, Claim, Drained, ReadBook, ReadSources, OperationFails, Abandon, ProviderAnswers,
     ProviderFails, Resolved, StoreCover, LoseCover, Panic, Mark, Stop, Exit, Start, Recover,
     DeleteBook, library
<1>3. CASE Apply
  <2>1. meta' = [meta EXCEPT ![worker.book] = Filled]
    BY <1>1, <1>3 DEF Apply
  <2>2. meta'[b][f] = meta[b][f] \/ (b = worker.book /\ meta'[b][f] = Filled[f])
    BY <1>1, <2>1
  <2>3. Filled[f] = "found" => meta[worker.book][f] \in {"empty", "found"}
    BY DEF Filled
  <2>4. QED
    BY <2>2, <2>3
<1>4. CASE \E c \in Books, h \in Fields, s \in FieldStates : EditField(c, h, s)
  BY <1>1, <1>4 DEF EditField, Manual
<1>5. CASE \E c \in Books, s \in FieldStates : SweepCover(c, s)
  BY <1>1, <1>5, EnrichAssumption DEF SweepCover
<1>6. QED
  BY <1>2, <1>3, <1>4, <1>5

LEMMA VerdictStep ==
  ASSUME EnrichInv, [Next]_vars, NEW j \in jobs, NEW k \in jobs',
         j.id = k.id, j.status # k.status, k.status \in {"done", "failed"}
  PROVE  worker.pc \in Busy /\ j.book = worker.book
<1>1. k \notin jobs /\ jobs \subseteq Jobs
  BY DEF EnrichInv, JobsOK, UniqueIds
<1>2. \/ Mark \/ Claim \/ Recover
      \/ \E q \in Requests : Enqueue(q)
      \/ \E b \in Books : DeleteBook(b)
  BY <1>1 DEF Next, vars, Work, Ask, Queueing, EnqueueFails, Poke, OnlyWorker, Goes,
     Wake, Leave, Drained, ReadBook, ReadSources, OperationFails, Abandon, ProviderAnswers,
     ProviderFails, Resolved, StoreCover, LoseCover, Apply, Panic, Stop, Exit, Start,
     EditField, SweepCover, library
<1>3. CASE Mark
  <2>1. PICK st \in {"done", "failed"} : jobs' = Marked(worker.id, st)
    BY <1>1, <1>3 DEF Mark
  <2>2. PICK i \in jobs : k = IF i.id = worker.id /\ i.status = "running"
                              THEN [i EXCEPT !.status = st] ELSE i
    BY <2>1 DEF Marked
  <2>3. i.id = worker.id /\ i.status = "running"
    BY <1>1, <2>2
  <2>4. k.id = i.id
    BY <1>1, <2>2, <2>3, JobShape DEF Statuses
  <2>5. i = j
    BY <2>4 DEF EnrichInv, JobsOK, UniqueIds
  <2>6. worker.pc \in Busy
    BY <1>3 DEF Mark, Busy
  <2>7. QED
    BY <2>3, <2>5, <2>6 DEF EnrichInv, WorkerOK, OwnJob
<1>4. CASE Claim
  <2>1. PICK i \in jobs : jobs' = (jobs \ {i}) \cup {[i EXCEPT !.status = "running"]}
    BY <1>4 DEF Claim
  <2>2. k = [i EXCEPT !.status = "running"]
    BY <1>1, <2>1
  <2>3. k.status = "running"
    BY <1>1, <2>2, JobShape DEF Statuses
  <2>4. QED
    BY <2>3
<1>5. CASE Recover
  <2>1. jobs' \in Requeued /\ JobsOK(jobs)
    BY <1>1, <1>5 DEF Recover, EnrichInv
  <2>2. PICK s \in SUBSET Running :
          jobs' = (jobs \ Running) \cup {[i EXCEPT !.status = "queued", !.at = clock] : i \in s}
    BY <2>1, PutBack
  <2>3. PICK i \in s : k = [i EXCEPT !.status = "queued", !.at = clock]
    BY <1>1, <2>2
  <2>4. i \in Jobs
    BY <1>1, <2>2 DEF Running
  <2>5. k.status = "queued"
    BY <2>3, <2>4 DEF Jobs
  <2>6. QED
    BY <2>5
<1>6. CASE \E q \in Requests : Enqueue(q)
  <2>1. PICK q \in Requests : jobs' = jobs \/ Insert(reqs[q].book, reqs[q].at)
    BY <1>6 DEF Enqueue
  <2>2. k.status = "queued"
    BY <1>1, <2>1 DEF Insert
  <2>3. QED
    BY <2>2
<1>7. CASE \E b \in Books : DeleteBook(b)
  BY <1>1, <1>7 DEF DeleteBook
<1>8. QED
  BY <1>2, <1>3, <1>4, <1>5, <1>6, <1>7

\* A provider's answer never replaces what a person or the file has said.
THEOREM OnlyEmptyFilled == Spec => FillsOnlyEmpty
<1>1. EnrichInv /\ [Next]_vars =>
        [\A b \in Books, f \in Fields :
           meta[b][f] # "found" /\ meta'[b][f] = "found" => meta[b][f] = "empty"]_vars
  BY FillingStep
<1>2. QED
  BY <1>1, EnrichAlways, PTL DEF Spec, FillsOnlyEmpty

\* A verdict lands on a job of the book the worker ran for.
THEOREM VerdictIsOwn == Spec => VerdictOnOwnJob
<1>1. EnrichInv /\ [Next]_vars =>
        [\A j \in jobs, k \in jobs' :
           j.id = k.id /\ j.status # k.status /\ k.status \in {"done", "failed"}
           => worker.pc \in Busy /\ j.book = worker.book]_vars
  BY VerdictStep
<1>2. QED
  BY <1>1, EnrichAlways, PTL DEF Spec, VerdictOnOwnJob

-----------------------------------------------------------------------------
(***************************************************************************)
(* The refinement.  A book waits while a row of its is queued, and is      *)
(* unsettled while one is running; the worker's book has its turn.         *)
(***************************************************************************)
Waiting == {b \in Books : Queued(b) # {}}
Turn == IF worker.pc \in Busy THEN {worker.book} ELSE {}
Unsettled == {j.book : j \in Running}

\* The steps of the promise, by what they do to these.
LEMMA PromiseStutter ==
  ASSUME Waiting' = Waiting, Unsettled' = Unsettled, Turn' = Turn, UNCHANGED <<owed, meta>>
  PROVE  UNCHANGED Promise!vars
BY DEF Promise!vars, Waiting, Turn, Unsettled

LEMMA PromisePress ==
  ASSUME NEW b \in Books, Waiting' = Waiting \cup {b}, owed' = owed \cup {b},
         Unsettled' = Unsettled, Turn' = Turn, UNCHANGED meta
  PROVE  Promise!Next
<1>1. Promise!Press(b)
  BY DEF Promise!Press, Waiting, Turn, Unsettled
<1>2. QED
  BY <1>1 DEF Promise!Next

LEMMA PromiseBegin ==
  ASSUME NEW b \in Books, Turn = {}, Turn' = {b}, b \in Waiting,
         Waiting' = Waiting \ {b}, owed' = owed \ {b}, Unsettled' = Unsettled \cup {b},
         UNCHANGED meta
  PROVE  Promise!Next
<1>1. Promise!Begin(b)
  BY DEF Promise!Begin, Waiting, Turn, Unsettled
<1>2. QED
  BY <1>1 DEF Promise!Next

LEMMA PromiseEnd ==
  ASSUME Turn # {}, Turn' = {}, Unsettled' \in {Unsettled, Unsettled \ Turn},
         Waiting' = Waiting, UNCHANGED <<owed, meta>>
  PROVE  Promise!Next
<1>1. Promise!End
  BY DEF Promise!End, Waiting, Turn, Unsettled
<1>2. QED
  BY <1>1 DEF Promise!Next

LEMMA PromiseRequeue ==
  ASSUME Turn = {}, Turn' = {}, Waiting' = Waiting \cup Unsettled, Unsettled' = {},
         UNCHANGED <<owed, meta>>
  PROVE  Promise!Next
<1>1. Promise!Requeue
  BY DEF Promise!Requeue, Waiting, Turn, Unsettled
<1>2. QED
  BY <1>1 DEF Promise!Next

LEMMA PromiseDrop ==
  ASSUME NEW b \in Books, Waiting' = Waiting \ {b}, Unsettled' = Unsettled \ {b},
         owed' = owed \ {b}, Turn' = Turn, UNCHANGED meta
  PROVE  Promise!Next
<1>1. Promise!Drop(b)
  BY DEF Promise!Drop, Waiting, Turn, Unsettled
<1>2. QED
  BY <1>1 DEF Promise!Next

\* A step that leaves the table alone.
LEMMA SameTable ==
  ASSUME jobs' = jobs
  PROVE  Waiting' = Waiting /\ Unsettled' = Unsettled
BY DEF Waiting, Unsettled, Queued, Running

\* What the table says of a book depends on its rows alone.
LEMMA TableOf ==
  ASSUME JobsOK(jobs)
  PROVE  /\ \A b : b \in Waiting <=> \E j \in jobs : j.book = b /\ j.status = "queued"
         /\ \A b : b \in Unsettled <=> \E j \in jobs : j.book = b /\ j.status = "running"
<1>1. \A j \in jobs : j.book \in Books
  BY DEF JobsOK, Jobs
<1>2. \A b \in Books : b \in Waiting <=> \E j \in jobs : j.book = b /\ j.status = "queued"
  BY DEF Waiting, Queued
<1>3. \A b : b \in Unsettled <=> \E j \in jobs : j.book = b /\ j.status = "running"
  BY DEF Unsettled, Running
<1>4. QED
  BY <1>1, <1>2, <1>3 DEF Waiting

LEMMA TableOfNext ==
  ASSUME JobsOK(jobs)'
  PROVE  /\ \A b : b \in Waiting' <=> \E j \in jobs' : j.book = b /\ j.status = "queued"
         /\ \A b : b \in Unsettled' <=> \E j \in jobs' : j.book = b /\ j.status = "running"
<1>1. \A j \in jobs' : j.book \in Books
  BY DEF JobsOK, Jobs
<1>2. \A b \in Books : b \in Waiting' <=> \E j \in jobs' : j.book = b /\ j.status = "queued"
  BY DEF Waiting, Queued
<1>3. \A b : b \in Unsettled' <=> \E j \in jobs' : j.book = b /\ j.status = "running"
  BY DEF Unsettled, Running
<1>4. QED
  BY <1>1, <1>2, <1>3 DEF Waiting

-----------------------------------------------------------------------------
\* The worker's and the process's steps, and those of the handlers.
LEMMA PromiseEnqueue ==
  ASSUME EnrichInv, EnrichInv', NEW q \in Requests, Enqueue(q)
  PROVE  Promise!Next
<1>1. PICK b : b = reqs[q].book
  OBVIOUS
<1>2. b \in Books /\ reqs[q].pc = "found"
  <2>1. reqs[q] \in RequestStates /\ reqs[q].pc = "found"
    BY DEF Enqueue, EnrichInv, RestOK
  <2>2. QED
    BY <1>1, <2>1 DEF RequestStates, NoRequest
<1>3. owed' = owed \cup {b} /\ UNCHANGED <<meta, worker>>
  BY <1>1 DEF Enqueue, library
<1>4. Turn' = Turn
  BY <1>3 DEF Turn
<1>5. CASE Queued(b) # {}
  <2>1. jobs' = jobs /\ b \in Waiting
    BY <1>1, <1>2, <1>5 DEF Enqueue, Waiting
  <2>2. Waiting' = Waiting \cup {b} /\ Unsettled' = Unsettled
    BY <2>1, SameTable
  <2>3. QED
    BY <1>2, <1>3, <1>4, <2>2, PromisePress
<1>6. CASE Queued(b) = {}
  <2>1. PICK r : r.book = b /\ r.status = "queued" /\ jobs' = jobs \cup {r}
    BY <1>1, <1>6 DEF Enqueue, Insert
  <2>2. Waiting' = Waiting \cup {b}
    BY <2>1, TableOf, TableOfNext DEF EnrichInv
  <2>3. Unsettled' = Unsettled
    <3>1. \A c : (\E k \in jobs' : k.book = c /\ k.status = "running")
                  <=> \E k \in jobs : k.book = c /\ k.status = "running"
      BY <2>1
    <3>2. \A c : c \in Unsettled' <=> c \in Unsettled
      BY <3>1, TableOf, TableOfNext DEF EnrichInv
    <3>3. QED
      BY <3>2
  <2>4. QED
    BY <1>2, <1>3, <1>4, <2>2, <2>3, PromisePress
<1>7. QED
  BY <1>5, <1>6

LEMMA PromiseClaim ==
  ASSUME EnrichInv, EnrichInv', Claim
  PROVE  Promise!Next
<1>1. PICK j \in jobs :
        /\ j.status = "queued"
        /\ jobs' = (jobs \ {j}) \cup {[j EXCEPT !.status = "running"]}
        /\ worker' = With(j, "book") /\ owed' = owed \ {j.book}
  BY DEF Claim
<1>2. j \in Jobs /\ OneEach(jobs)
  BY DEF EnrichInv, JobsOK
<1>3. PICK r : r = [j EXCEPT !.status = "running"]
  OBVIOUS
<1>4. r.book = j.book /\ r.status = "running" /\ j.book \in Books
  BY <1>2, <1>3, JobShape DEF Statuses
<1>5. jobs' = (jobs \ {j}) \cup {r}
  BY <1>1, <1>3
<1>6. Turn = {} /\ Turn' = {j.book} /\ meta' = meta
  BY <1>1 DEF Claim, Turn, Busy, With, library
<1>7. \A k \in jobs : k.book = j.book /\ k.status = "queued" => k = j
  BY <1>1, <1>2 DEF OneEach
<1>8. j.book \in Waiting /\ Waiting' = Waiting \ {j.book}
  BY <1>1, <1>4, <1>5, <1>7, TableOf, TableOfNext DEF EnrichInv
<1>9. Unsettled' = Unsettled \cup {j.book}
  BY <1>1, <1>4, <1>5, TableOf, TableOfNext DEF EnrichInv
<1>10. QED
  BY <1>1, <1>4, <1>6, <1>8, <1>9, PromiseBegin

LEMMA PromiseMark ==
  ASSUME EnrichInv, EnrichInv', Mark
  PROVE  Promise!Next
<1>1. worker.pc \in Busy /\ Turn = {worker.book} /\ Turn' = {} /\ UNCHANGED <<owed, meta>>
  BY DEF Mark, Busy, Turn, At, library, web
<1>2. PICK st \in {"done", "failed"} : jobs' = jobs \/ jobs' = Marked(worker.id, st)
  BY DEF Mark
<1>3. CASE jobs' = jobs
  BY <1>1, <1>3, SameTable, PromiseEnd
<1>4. CASE jobs' = Marked(worker.id, st)
  <2> DEFINE Own(j) == j.id = worker.id /\ j.status = "running"
             M(j) == [j EXCEPT !.status = st]
  <2>1. \A j \in jobs : Own(j) => j.book = worker.book
    BY <1>1 DEF EnrichInv, WorkerOK, OwnJob
  <2>2. \A j \in jobs : M(j).book = j.book /\ M(j).status = st
    BY JobShape DEF EnrichInv, JobsOK, Statuses
  <2>3. jobs' = {IF Own(j) THEN M(j) ELSE j : j \in jobs}
    BY <1>4 DEF Marked
  <2> HIDE DEF M
  <2>4. \A k \in jobs' : k \in jobs \/ \E j \in jobs : Own(j) /\ k = M(j)
    BY <2>3
  <2>5. \A j \in jobs : ~Own(j) => j \in jobs'
    BY <2>3
  <2>6. \A b : /\ (\E j \in jobs' : j.book = b /\ j.status = "queued")
                    <=> \E j \in jobs : j.book = b /\ j.status = "queued"
               /\ (\E j \in jobs' : j.book = b /\ j.status = "running")
                    => \E j \in jobs : j.book = b /\ j.status = "running"
               /\ b # worker.book /\ (\E j \in jobs : j.book = b /\ j.status = "running")
                    => \E j \in jobs' : j.book = b /\ j.status = "running"
    BY <2>1, <2>2, <2>4, <2>5
  <2>7. \A b : /\ b \in Waiting' <=> b \in Waiting
               /\ b \in Unsettled' => b \in Unsettled
               /\ b # worker.book /\ b \in Unsettled => b \in Unsettled'
    BY <2>6, TableOf, TableOfNext DEF EnrichInv
  <2>8. Unsettled' \in {Unsettled, Unsettled \ {worker.book}}
    BY <2>7
  <2>9. Waiting' = Waiting
    BY <2>7
  <2>10. QED
    BY <1>1, <2>8, <2>9, PromiseEnd
<1>5. QED
  BY <1>2, <1>3, <1>4

\* A worker is there only once the recovery has run.
OffUntilUp == run \in {"down", "starting"} => worker.pc = "off"

LEMMA OffStep == EnrichInv /\ OffUntilUp /\ [Next]_vars => OffUntilUp'
<1> SUFFICES ASSUME EnrichInv, OffUntilUp, [Next]_vars PROVE OffUntilUp'
  OBVIOUS
<1>1. CASE UNCHANGED <<run, worker>>
  BY <1>1 DEF OffUntilUp
<1>2. CASE Exit \/ Start \/ Recover \/ Stop
  BY <1>2 DEF Exit, Start, Recover, Stop, At, OffUntilUp
<1>3. CASE Work
  <2>1. run' = run /\ worker.pc # "off"
    BY <1>3 DEF Work, Wake, Leave, Claim, Drained, ReadBook, ReadSources, OperationFails, Abandon,
       AbandonAt, ProviderAnswers, ProviderFails, Resolved, StoreCover, LoseCover, Apply, Panic,
       Mark, OnlyWorker, Goes, Asking
  <2>2. QED
    BY <2>1 DEF OffUntilUp
<1>4. QED
  BY <1>1, <1>2, <1>3 DEF Next, vars, Queueing, Ask, Enqueue, EnqueueFails, Poke, EditField,
     SweepCover, DeleteBook

LEMMA OffAlways == Spec => []OffUntilUp
<1>1. Init => OffUntilUp
  BY DEF Init, OffUntilUp, At
<1>2. QED
  BY <1>1, OffStep, EnrichAlways, PTL DEF Spec

LEMMA PromiseRecover ==
  ASSUME EnrichInv, EnrichInv', OffUntilUp, Recover
  PROVE  [Promise!Next]_(Promise!vars)
<1>1. Turn = {} /\ Turn' = {} /\ UNCHANGED <<owed, meta>>
  BY DEF Recover, OffUntilUp, Turn, Busy, At, library, web
<1>2. CASE jobs' = jobs
  BY <1>1, <1>2, SameTable, PromiseStutter
<1>3. CASE jobs' \in Requeued
  <2>1. PICK s \in SUBSET Running :
          /\ \A b \in Books : Cardinality({j \in s : j.book = b}) =
               IF Queued(b) = {} /\ \E j \in Running : j.book = b THEN 1 ELSE 0
          /\ jobs' = (jobs \ Running) \cup {[j EXCEPT !.status = "queued", !.at = clock] : j \in s}
    BY <1>3 DEF Requeued
  <2> DEFINE Back(j) == [j EXCEPT !.status = "queued", !.at = clock]
  <2>2. \A j \in jobs : /\ Back(j).book = j.book /\ Back(j).status = "queued"
                        /\ j.book \in Books
    BY DEF EnrichInv, JobsOK, Jobs
  <2> HIDE DEF Back
  <2>3. s \subseteq jobs /\ \A j \in jobs : j \in Running <=> j.status = "running"
    BY <2>1 DEF Running
  <2>4. /\ \A k \in jobs' : (k \in jobs /\ k.status # "running") \/ \E j \in s : k = Back(j)
        /\ \A k \in jobs : k.status # "running" => k \in jobs'
        /\ \A j \in s : Back(j) \in jobs'
    BY <2>1, <2>3 DEF Back
  <2>5. \A b \in Unsettled : b \in Waiting \/ \E j \in s : j.book = b
    <3> SUFFICES ASSUME NEW b \in Unsettled, b \notin Waiting PROVE \E j \in s : j.book = b
      OBVIOUS
    <3>1. b \in Books /\ (\E j \in Running : j.book = b) /\ Queued(b) = {}
      BY <2>2 DEF Unsettled, Waiting, Running
    <3>2. Cardinality({j \in s : j.book = b}) = 1
      BY <2>1, <3>1
    <3>3. {j \in s : j.book = b} # {}
      BY <3>2, FS_EmptySet
    <3>4. QED
      BY <3>3
  <2>6. \A b : /\ b \in Waiting => \E k \in jobs' : k.book = b /\ k.status = "queued"
               /\ (\E j \in s : j.book = b) => \E k \in jobs' : k.book = b /\ k.status = "queued"
    BY <2>2, <2>3, <2>4, TableOf DEF EnrichInv
  <2>7. \A k \in jobs' : /\ k.status # "running"
                         /\ k.status = "queued" => k.book \in Waiting \/ \E j \in s : j.book = k.book
    BY <2>2, <2>3, <2>4, TableOf DEF EnrichInv
  <2>8. \A j \in s : j.book \in Unsettled
    BY DEF Unsettled
  <2>9. Waiting' = Waiting \cup Unsettled
    BY <2>5, <2>6, <2>7, <2>8, TableOfNext DEF EnrichInv
  <2>10. Unsettled' = {}
    BY <2>7, TableOfNext DEF EnrichInv
  <2>11. QED
    BY <1>1, <2>9, <2>10, PromiseRequeue
<1>4. QED
  BY <1>2, <1>3 DEF Recover

LEMMA PromiseApply ==
  ASSUME EnrichInv, Apply
  PROVE  [Promise!Next]_(Promise!vars)
<1>1. worker.pc \in Busy /\ worker \in WorkerStates /\ worker.book \in Books
  <2>1. worker.pc \in Busy /\ worker \in WorkerStates
    BY DEF Apply, Busy, EnrichInv, WorkerOK
  <2>2. QED
    BY <2>1, WorkerShape, BusyChanges
<1>2. worker' \in {[worker EXCEPT !.pc = "done"], [worker EXCEPT !.pc = "fail"]}
  BY DEF Apply
<1>3. worker'.pc \in Busy /\ worker'.book = worker.book
  BY <1>1, <1>2, WorkerShape DEF BusyStates, Busy
<1>4. Turn = {worker.book} /\ Turn' = Turn
  BY <1>1, <1>3 DEF Turn
<1>5. UNCHANGED <<jobs, owed>>
  BY DEF Apply, web
<1>6. Waiting' = Waiting /\ Unsettled' = Unsettled
  BY <1>5, SameTable
<1>7. CASE meta' = meta
  BY <1>4, <1>5, <1>6, <1>7, PromiseStutter
<1>8. CASE meta' = [meta EXCEPT ![worker.book] = Filled]
  <2>1. PICK b \in Books, fs \in SUBSET Fields :
          b = worker.book /\ fs = {f \in Fields : f \in worker.got /\ meta[b][f] = "empty"}
    BY <1>1
  <2>2. Filled = [f \in Fields |-> IF f \in fs THEN "found" ELSE meta[b][f]]
    BY <2>1 DEF Filled
  <2>3. meta' = [meta EXCEPT ![b] = [f \in Fields |-> IF f \in fs THEN "found" ELSE @[f]]]
    BY <1>8, <2>1, <2>2
  <2>4. Promise!Fill(b, fs)
    BY <1>4, <1>5, <1>6, <2>1, <2>3 DEF Promise!Fill, Waiting, Turn, Unsettled
  <2>5. QED
    BY <2>4 DEF Promise!Next
<1>9. QED
  BY <1>7, <1>8 DEF Apply

\* The steps that only move the worker: on with its job, or to its end.
LEMMA PromiseWork ==
  ASSUME EnrichInv, Work, ~Claim, ~Mark, ~Apply
  PROVE  [Promise!Next]_(Promise!vars)
<1>1. UNCHANGED <<jobs, owed, meta>>
  BY DEF Work, Wake, Leave, Drained, ReadBook, ReadSources, OperationFails, Abandon,
     ProviderAnswers, ProviderFails, Resolved, StoreCover, LoseCover, Panic, OnlyWorker, Goes,
     library, web
<1>2. Waiting' = Waiting /\ Unsettled' = Unsettled
  BY <1>1, SameTable
<1>3. CASE Wake \/ Leave \/ Drained
  <2>1. /\ worker.pc \in {"wait", "claim"}
        /\ \E pc \in {"off", "wait", "claim"} : worker' = At(pc)
    BY <1>3 DEF Wake, Leave, Drained
  <2>2. worker.pc \notin Busy /\ worker'.pc \notin Busy
    BY <2>1 DEF At, Busy
  <2>3. QED
    BY <1>1, <1>2, <2>2, PromiseStutter DEF Turn
<1>4. CASE Abandon
  <2>1. Turn # {} /\ Turn' = {}
    BY <1>4 DEF Abandon, AbandonAt, At, Busy, Turn
  <2>2. QED
    BY <1>1, <1>2, <2>1, PromiseEnd
<1>5. CASE \/ ReadBook \/ ReadSources \/ OperationFails \/ ProviderAnswers \/ ProviderFails
           \/ Resolved \/ StoreCover \/ LoseCover \/ Panic
  <2>1. worker.pc \in Busy /\ worker \in BusyStates
    <3>1. worker.pc \in Busy
      BY <1>5 DEF ReadBook, ReadSources, OperationFails, ProviderAnswers, ProviderFails, Resolved,
         StoreCover, LoseCover, Panic, Asking, AbandonAt, Busy
    <3>2. QED
      BY <3>1, WorkerShape DEF EnrichInv, WorkerOK
  <2>2. worker'.pc \in Busy /\ worker'.book = worker.book
    <3>1. CASE \/ ReadBook \/ OperationFails \/ Resolved \/ StoreCover \/ Panic
      BY <2>1, <3>1 DEF ReadBook, OperationFails, Resolved, StoreCover, Panic, Goes, AfterResolve,
         BusyStates, Busy
    <3>2. CASE ReadSources \/ ProviderAnswers \/ ProviderFails \/ LoseCover
      BY <2>1, <3>2 DEF ReadSources, ProviderAnswers, ProviderFails, LoseCover, Asking,
         BusyStates, Busy
    <3>3. QED
      BY <1>5, <3>1, <3>2
  <2>3. QED
    BY <1>1, <1>2, <2>1, <2>2, PromiseStutter DEF Turn
<1>6. QED
  BY <1>3, <1>4, <1>5 DEF Work

LEMMA PromiseDelete ==
  ASSUME EnrichInv, EnrichInv', NEW b \in Books, DeleteBook(b)
  PROVE  Promise!Next
<1>1. /\ jobs' = {j \in jobs : j.book # b} /\ owed' = owed \ {b}
      /\ Turn' = Turn /\ meta' = meta
  BY DEF DeleteBook, Turn
<1>2. \A c : /\ c \in Waiting' <=> c \in Waiting /\ c # b
             /\ c \in Unsettled' <=> c \in Unsettled /\ c # b
  BY <1>1, TableOf, TableOfNext DEF EnrichInv
<1>3. Waiting' = Waiting \ {b} /\ Unsettled' = Unsettled \ {b}
  BY <1>2
<1>4. QED
  BY <1>1, <1>3, PromiseDrop

LEMMA PromiseOutside ==
  ASSUME EnrichInv, EnrichInv', OffUntilUp,
         \/ Stop \/ Exit \/ Start \/ Recover
         \/ \E b \in Books, f \in Fields, s \in FieldStates : EditField(b, f, s)
         \/ \E b \in Books, s \in FieldStates : SweepCover(b, s)
         \/ \E b \in Books : DeleteBook(b)
  PROVE  [Promise!Next]_(Promise!vars)
<1>1. CASE Stop \/ Start
  <2>1. UNCHANGED <<jobs, owed, meta, worker>>
    BY <1>1 DEF Stop, Start, library, web
  <2>2. QED
    BY <2>1, SameTable, PromiseStutter DEF Turn
<1>2. CASE Exit
  <2>1. UNCHANGED <<jobs, owed, meta>> /\ Turn' = {}
    BY <1>2 DEF Exit, library, Turn, At, Busy
  <2>2. CASE Turn = {}
    BY <2>1, <2>2, SameTable, PromiseStutter
  <2>3. CASE Turn # {}
    BY <2>1, <2>3, SameTable, PromiseEnd
  <2>4. QED
    BY <2>2, <2>3
<1>3. ASSUME NEW b \in Books, NEW f \in Fields, NEW s \in FieldStates, s # "found",
             meta' = [meta EXCEPT ![b][f] = s], UNCHANGED <<jobs, owed, worker>>
      PROVE  Promise!Next
  <2>1. Waiting' = Waiting /\ Unsettled' = Unsettled /\ Turn' = Turn
    BY <1>3, SameTable DEF Turn
  <2>2. Promise!Edit(b, f, s)
    BY <1>3, <2>1 DEF Promise!Edit, Waiting, Turn, Unsettled
  <2>3. QED
    BY <2>2 DEF Promise!Next
<1>4. CASE \E b \in Books, f \in Fields, s \in FieldStates : EditField(b, f, s)
  BY <1>3, <1>4 DEF EditField, Manual, web
<1>5. CASE \E b \in Books, s \in FieldStates : SweepCover(b, s)
  BY <1>3, <1>5, EnrichAssumption DEF SweepCover, web
<1>6. QED
  BY <1>1, <1>2, <1>4, <1>5, PromiseRecover, PromiseDelete

LEMMA PromiseStep ==
  EnrichInv /\ EnrichInv' /\ OffUntilUp /\ [Next]_vars => [Promise!Next]_(Promise!vars)
<1> SUFFICES ASSUME EnrichInv, EnrichInv', OffUntilUp, [Next]_vars
             PROVE  [Promise!Next]_(Promise!vars)
  OBVIOUS
<1>1. CASE UNCHANGED <<jobs, owed, meta, worker>>
  BY <1>1, SameTable, PromiseStutter DEF Turn
<1>2. UNCHANGED vars => UNCHANGED <<jobs, owed, meta, worker>>
  BY DEF vars
<1>3. ASSUME NEW q \in Requests, NEW b \in Books, Ask(q, b)
      PROVE  UNCHANGED <<jobs, owed, meta, worker>>
  BY <1>3 DEF Ask, library
<1>4. ASSUME NEW q \in Requests, EnqueueFails(q) \/ Poke(q)
      PROVE  UNCHANGED <<jobs, owed, meta, worker>>
  BY <1>4 DEF EnqueueFails, Poke, library
<1>5. ASSUME NEW q \in Requests, Queueing(q) PROVE [Promise!Next]_(Promise!vars)
  BY <1>1, <1>4, <1>5, PromiseEnqueue DEF Queueing
<1>6. CASE Work
  BY <1>6, PromiseClaim, PromiseMark, PromiseApply, PromiseWork
<1>7. QED
  BY <1>1, <1>2, <1>3, <1>5, <1>6, PromiseOutside DEF Next

LEMMA PromiseInit == Init => Promise!Init
<1> SUFFICES ASSUME Init PROVE Promise!Init
  OBVIOUS
<1>1. Waiting = {} /\ Turn = {} /\ Unsettled = {}
  BY DEF Init, Waiting, Turn, Unsettled, Queued, Running, At, Busy
<1>2. QED
  BY <1>1 DEF Init, Promise!Init, Waiting, Turn, Unsettled

\* The queue implements what a press of Fetch promises: of two queued jobs of
\* a book one would outlast the run that begins with the other, and a requeue
\* beside a working worker would put a run back that is under way.
THEOREM QueueKeepsPromise == Spec => KeepsPromise
<1>1. Init => Promise!Init
  BY PromiseInit
<1>2. EnrichInv /\ EnrichInv' /\ OffUntilUp /\ [Next]_vars => [Promise!Next]_(Promise!vars)
  BY PromiseStep
<1>3. QED
  BY <1>1, <1>2, EnrichAlways, OffAlways, PTL DEF Spec, KeepsPromise, Promise!Spec
=============================================================================
