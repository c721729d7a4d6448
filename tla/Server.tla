------------------------------- MODULE Server -------------------------------
(* The server process: run() of cmd/server/main.go with the goroutines it    *)
(* starts, the two ways it ends them, and the scan loop's memory of what it  *)
(* has warned about.  What a goroutine does when it works is the business of *)
(* the other modules; here it works, and does or does not notice the end of  *)
(* its context.  Several runs of the process follow each other, each with    *)
(* its own configuration, and any of them may be killed.                     *)
EXTENDS Integers, Sequences

CONSTANTS TopDirs,     \* top-level directories of the library
          Requests,    \* HTTP requests that may be under way at once
          MaxRuns      \* bound: runs of the process

ASSUME RunsAssumption == MaxRuns \in Nat

Workers == {"sender", "enrichment"}     \* the tasks that claim rows of a queue
Tasks == {"scan", "watcher", "janitor"} \cup Workers

VARIABLES
  pc,          \* where run() is; "down" while no process is running
  offered,     \* the goroutines this run's configuration asks for
  signalled,   \* ctx is over
  cancelled,   \* cancelScan was called
  cause,       \* which case of run()'s select was taken
  next,        \* the goroutine being waited for, as its place in Order
  deadline,    \* of the shutdown
  listener,    \* the HTTP server
  serveErr,    \* the channel its goroutine reports on
  task,        \* where each goroutine is
  requests,    \* where each HTTP request is
  stage,       \* a staged import
  open,        \* the database is open
  reported,    \* the directories the last sweep that looked had reported
  log,         \* what the log has said of each directory (history)
  rows,        \* the row an earlier run left in progress in a worker's queue
  runs

mainVars == <<pc, cause, next>>
ctxVars == <<offered, signalled, cancelled>>
httpVars == <<listener, serveErr>>
importVars == <<requests, stage>>
scanVars == <<reported, log>>
rowVars == <<rows, runs>>
serverVars == <<mainVars, ctxVars, deadline, httpVars, task, importVars, open, scanVars, rowVars>>

TaskStates == {"absent", "ready", "working", "woken", "refreshing", "done"}
RequestStates == {"idle", "busy", "checked"}
RowStates == {"none", "left", "unrecovered"}   \* the last: its recovery failed
LogStates == {"quiet", "warned", "repeated", "missed"}

Stopping == signalled \/ cancelled      \* scanCtx, derived from ctx, is over

Is(t, s) == task[t] = s
Goes(t, s) == task' = [task EXCEPT ![t] = s]

\* Mutant: a goroutine added later is not waited for
OrderForgetting == <<"scan", "watcher", "sender", "sender", "janitor">>

Order == <<"scan", "watcher", "sender", "enrichment", "janitor">>

-----------------------------------------------------------------------------
(* Startup                                                                   *)

\* The optional goroutines: WATCH_ENABLED and a working fsnotify, both Resend
\* settings, a writable library and staging directory
Start ==
  /\ pc = "down" /\ runs < MaxRuns /\ runs' = runs + 1
  /\ offered' \in SUBSET {"watcher", "sender", "janitor"}
  /\ task' = [t \in Tasks |-> IF t = "scan" THEN "working"
                              ELSE IF t = "watcher" /\ t \in offered' THEN "ready" ELSE "absent"]
  /\ pc' = "sends" /\ listener' = "unbound" /\ open' = TRUE
  /\ UNCHANGED <<cause, next, signalled, cancelled, deadline, serveErr, importVars, scanVars, rows>>

\* A write of ctx: it may fail, and does once ctx is over
Recovered(t) ==
  \/ ~signalled /\ rows' = [rows EXCEPT ![t] = "none"]
  \/ rows' = [rows EXCEPT ![t] = IF @ = "left" THEN "unrecovered" ELSE @]

\* Mutant: the worker is started on the queue as it was found
StartSenderAtOnce ==
  /\ pc = "sends" /\ pc' = "jobs"
  /\ IF "sender" \in offered THEN Goes("sender", "ready") ELSE UNCHANGED task
  /\ UNCHANGED <<cause, next, ctxVars, deadline, httpVars, importVars, open, scanVars, rowVars>>

\* FailInterruptedSends, then the worker; neither when sending is disabled
StartSender ==
  /\ pc = "sends" /\ pc' = "jobs"
  /\ IF "sender" \in offered THEN Recovered("sender") /\ Goes("sender", "ready")
     ELSE UNCHANGED <<rows, task>>
  /\ UNCHANGED <<cause, next, ctxVars, deadline, httpVars, importVars, open, scanVars, runs>>

\* RequeueInterruptedEnrichment and its worker, always; then the janitor
StartEnrichment ==
  /\ pc = "jobs" /\ pc' = "serve"
  /\ Recovered("enrichment")
  /\ task' = [task EXCEPT !["enrichment"] = "ready",
                          !["janitor"] = IF "janitor" \in offered THEN "ready" ELSE @]
  /\ UNCHANGED <<cause, next, ctxVars, deadline, httpVars, importVars, open, scanVars, runs>>

-----------------------------------------------------------------------------
(* The end                                                                   *)

Signal ==
  /\ pc # "down" /\ ~signalled
  /\ signalled' = TRUE
  /\ UNCHANGED <<mainVars, offered, cancelled, deadline, httpVars, task, importVars, open, scanVars, rowVars>>

\* Serving failed: scanCtx is still live, waitForBackground cancels it
TakeFailure ==
  /\ pc = "serve" /\ serveErr = "error"
  /\ pc' = "wait" /\ cause' = "failure" /\ next' = 1 /\ deadline' = "running"
  /\ serveErr' = "taken" /\ cancelled' = TRUE
  /\ UNCHANGED <<offered, signalled, listener, task, importVars, open, scanVars, rowVars>>

\* srv.Shutdown: no connection and no request from here on
TakeSignal ==
  /\ pc = "serve" /\ signalled
  /\ pc' = "shutdown" /\ cause' = "signal" /\ deadline' = "running"
  /\ listener' = "shut"
  /\ UNCHANGED <<next, ctxVars, serveErr, task, importVars, open, scanVars, rowVars>>

\* ... which returns when every request has been answered, or in time
ShutdownReturns ==
  /\ pc = "shutdown" /\ pc' = "drain"
  /\ deadline = "passed" \/ \A r \in Requests : requests[r] = "idle"
  /\ UNCHANGED <<cause, next, ctxVars, deadline, httpVars, task, importVars, open, scanVars, rowVars>>

Drain ==
  /\ pc = "drain" /\ serveErr \in {"nil", "error"}
  /\ serveErr' = "taken"
  /\ pc' = "wait" /\ next' = 1 /\ cancelled' = TRUE
  /\ UNCHANGED <<cause, offered, signalled, deadline, listener, task, importVars, open, scanVars, rowVars>>

IsGone(t) == task[t] \in {"absent", "done"}

Pass ==
  /\ IF next < Len(Order) THEN next' = next + 1 /\ UNCHANGED pc
     ELSE pc' = "close" /\ UNCHANGED next
  /\ UNCHANGED <<cause, ctxVars, deadline, httpVars, task, importVars, open, scanVars, rowVars>>

\* Mutant: a goroutine is waited for however long it takes
WaitedForEver == pc = "wait" /\ IsGone(Order[next]) /\ Pass

\* waitForBackground, on each goroutine there is: done, or the one deadline
Waited ==
  /\ pc = "wait"
  /\ IsGone(Order[next]) \/ deadline = "passed"
  /\ Pass

CloseDB ==
  /\ pc = "close" /\ pc' = "exit"
  /\ open' = FALSE
  /\ UNCHANGED <<cause, next, ctxVars, deadline, httpVars, task, importVars, scanVars, rowVars>>

DeadlinePasses ==
  /\ pc \in {"shutdown", "drain", "wait"} /\ deadline = "running"
  /\ deadline' = "passed"
  /\ UNCHANGED <<mainVars, ctxVars, httpVars, task, importVars, open, scanVars, rowVars>>

\* What is left of a process that is gone: the row a worker was at, and one
\* whose outcome it could not write
Down ==
  /\ pc' = "down" /\ cause' = "none" /\ next' = 1
  /\ offered' = {} /\ signalled' = FALSE /\ cancelled' = FALSE
  /\ deadline' = "unset" /\ listener' = "unbound" /\ serveErr' = "empty"
  /\ task' = [t \in Tasks |-> "absent"]
  /\ requests' = [r \in Requests |-> "idle"] /\ stage' = "none"
  /\ open' = FALSE
  /\ reported' = {} /\ log' = [d \in TopDirs |-> "quiet"]
  /\ \E held \in SUBSET {t \in Workers : ~Is(t, "absent")} :
       /\ {t \in Workers : Is(t, "working")} \subseteq held
       /\ rows' = [t \in Workers |-> IF t \in held \/ rows[t] # "none" THEN "left" ELSE "none"]
  /\ UNCHANGED runs

Exit == pc = "exit" /\ Down

Kill == pc \notin {"down", "exit"} /\ Down

-----------------------------------------------------------------------------
(* The HTTP server                                                           *)
OnlyHTTP == UNCHANGED <<mainVars, ctxVars, deadline, task, importVars, open, scanVars, rowVars>>
OnlyRequests == UNCHANGED <<mainVars, ctxVars, deadline, httpVars, task, open, scanVars, rowVars>>

Up == pc # "down"

Bind ==
  /\ Up /\ listener = "unbound"
  /\ listener' = "open" /\ UNCHANGED serveErr
  /\ OnlyHTTP

\* The address is in use; or accepting fails later, and the connections that
\* were accepted stay
ServeFails ==
  /\ Up
  /\ \/ listener = "unbound" /\ listener' = "failed"
     \/ listener = "open" /\ listener' = "broken"
  /\ serveErr' = "error"
  /\ OnlyHTTP

ServeReturns ==
  /\ listener = "shut" /\ serveErr = "empty"
  /\ serveErr' = "nil" /\ UNCHANGED listener
  /\ OnlyHTTP

Request(r, from, to) == requests[r] = from /\ requests' = [requests EXCEPT ![r] = to]

Arrive(r) ==
  /\ listener \in {"open", "broken"}
  /\ Request(r, "idle", "busy") /\ UNCHANGED stage
  /\ OnlyRequests

\* Confirm looks the stage up, and removes one that is past its time
Confirm(r) ==
  /\ listener \in {"open", "broken"}
  /\ \/ stage = "fresh" /\ Request(r, "idle", "checked") /\ UNCHANGED stage
     \/ stage = "overdue" /\ requests[r] = "idle" /\ stage' = "none" /\ UNCHANGED requests
  /\ OnlyRequests

\* ... then opens its file, which is gone, or is the library's now
OpenStaged(r) ==
  /\ Request(r, "checked", IF stage = "none" THEN "idle" ELSE "busy")
  /\ stage' = "none"
  /\ OnlyRequests

\* A request that stages an import is one that leaves a stage
Answer(r) ==
  /\ Request(r, "busy", "idle")
  /\ \/ UNCHANGED stage
     \/ "janitor" \in offered /\ stage = "none" /\ stage' = "fresh"
  /\ OnlyRequests

\* StageTTL goes by
Expire ==
  /\ stage = "fresh" /\ stage' = "overdue" /\ UNCHANGED requests
  /\ OnlyRequests

-----------------------------------------------------------------------------
(* The goroutines                                                            *)
OnlyTask == UNCHANGED <<mainVars, ctxVars, deadline, httpVars, importVars, open>>

\* Each loop's select: the end of the context
TaskStops(t) ==
  /\ Is(t, "ready") /\ Stopping
  /\ Goes(t, "done")
  /\ OnlyTask /\ UNCHANGED <<scanVars, rowVars>>

\* RunJanitor's select may take the tick though the context is over too
JanitorSweeps ==
  /\ Is("janitor", "ready")
  /\ stage = "overdue" /\ stage' = "none"
  /\ UNCHANGED <<mainVars, ctxVars, deadline, httpVars, task, requests, open, scanVars, rowVars>>

\* drain asks ctx before it claims, and the claim runs under it
Claim(t) ==
  /\ t \in Workers /\ Is(t, "ready") /\ ~Stopping
  /\ Goes(t, "working")
  /\ OnlyTask /\ UNCHANGED <<scanVars, rowVars>>

FinishRow(t) ==
  /\ t \in Workers /\ Is(t, "working")
  /\ Goes(t, "ready")
  /\ OnlyTask /\ UNCHANGED <<scanVars, rowVars>>

-----------------------------------------------------------------------------
(* The scan goroutine                                                        *)
SweepReturns ==
  /\ Is("scan", "working")
  /\ Goes("scan", IF "watcher" \in offered THEN "refreshing" ELSE "ready")
  /\ OnlyTask /\ UNCHANGED rowVars

\* The sweep failed, or it found no file at all and reconciled nothing:
\* either way it has said nothing about any directory
FindNothing == SweepReturns /\ UNCHANGED scanVars

\* A directory is named whenever it is unconfirmed, as a warning when the
\* last sweep that looked had not
Logged(dirs) ==
  [d \in TopDirs |->
     CASE d \notin dirs -> "quiet"
       [] d \in dirs \ reported -> IF log[d] = "quiet" THEN "warned" ELSE "repeated"
       [] d \in dirs \cap reported -> IF log[d] = "quiet" THEN "missed" ELSE log[d]]

Look(dirs) == SweepReturns /\ log' = Logged(dirs) /\ reported' = dirs

Refresh ==
  /\ Is("scan", "refreshing")
  /\ Goes("scan", "ready")
  /\ OnlyTask /\ UNCHANGED <<scanVars, rowVars>>

\* The ticker or the trigger, taken though the context may be over too
Wake ==
  /\ Is("scan", "ready")
  /\ Goes("scan", "woken")
  /\ OnlyTask /\ UNCHANGED <<scanVars, rowVars>>

AfterWake ==
  /\ Is("scan", "woken")
  /\ Goes("scan", IF Stopping THEN "done" ELSE "working")
  /\ OnlyTask /\ UNCHANGED <<scanVars, rowVars>>

-----------------------------------------------------------------------------
ServerInit ==
  /\ pc = "down" /\ cause = "none" /\ next = 1
  /\ offered = {} /\ signalled = FALSE /\ cancelled = FALSE
  /\ deadline = "unset" /\ listener = "unbound" /\ serveErr = "empty"
  /\ task = [t \in Tasks |-> "absent"]
  /\ requests = [r \in Requests |-> "idle"] /\ stage = "none"
  /\ open = FALSE
  /\ reported = {} /\ log = [d \in TopDirs |-> "quiet"]
  /\ rows = [t \in Workers |-> "none"] /\ runs = 0

Ending == TakeFailure \/ TakeSignal \/ ShutdownReturns \/ Drain \/ Waited \/ CloseDB \/ Exit

Main == StartSender \/ StartEnrichment \/ Ending

Serving(r) == Arrive(r) \/ Confirm(r) \/ OpenStaged(r) \/ Answer(r)

Scanning == FindNothing \/ (\E dirs \in SUBSET TopDirs : Look(dirs)) \/ Refresh \/ Wake \/ AfterWake

ServerNext ==
  \/ Start \/ Main \/ Signal \/ Kill \/ DeadlinePasses
  \/ Bind \/ ServeFails \/ ServeReturns
  \/ \E r \in Requests : Serving(r)
  \/ Expire \/ JanitorSweeps
  \/ \E t \in Tasks : TaskStops(t) \/ Claim(t) \/ FinishRow(t)
  \/ Scanning

ServerSpec == ServerInit /\ [][ServerNext]_serverVars

\* run() goes on, its HTTP goroutine returns from a server that was shut, and
\* ten seconds go by.  Nothing is assumed of what works.
ServerFairSpec ==
  /\ ServerSpec
  /\ WF_serverVars(Main) /\ WF_serverVars(ServeReturns) /\ WF_serverVars(DeadlinePasses)

\* Instead of the deadline: what works comes to an end, a request, a row or a
\* sweep, and a loop takes the end of its context
CalmSpec ==
  /\ ServerSpec /\ WF_serverVars(Main) /\ WF_serverVars(ServeReturns)
  /\ \A t \in Tasks : WF_serverVars(TaskStops(t)) /\ WF_serverVars(FinishRow(t))
  /\ WF_serverVars(Is("scan", "working") /\ Scanning)
  /\ WF_serverVars(Refresh) /\ WF_serverVars(AfterWake)
  /\ \A r \in Requests : WF_serverVars(OpenStaged(r) \/ Answer(r))
=============================================================================
