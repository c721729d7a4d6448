---------------------------- MODULE ServerProps -----------------------------
(* What the server process promises of its start and its end.                *)
EXTENDS Server

ServerTypeOK ==
  /\ pc \in {"down", "sends", "jobs", "serve", "shutdown", "drain", "wait", "close", "exit"}
  /\ cause \in {"none", "signal", "failure"} /\ next \in 1..Len(Order)
  /\ offered \subseteq Tasks /\ signalled \in BOOLEAN /\ cancelled \in BOOLEAN
  /\ deadline \in {"unset", "running", "passed"}
  /\ listener \in {"unbound", "open", "failed", "broken", "shut"}
  /\ serveErr \in {"empty", "nil", "error", "taken"}
  /\ task \in [Tasks -> TaskStates] /\ requests \in [Requests -> RequestStates]
  /\ stage \in {"none", "fresh", "overdue"} /\ open \in BOOLEAN
  /\ reported \subseteq TopDirs /\ log \in [TopDirs -> LogStates]
  /\ rows \in [Workers -> RowStates] /\ runs \in 0..MaxRuns

(* The database is closed under nobody unless the deadline has passed: every *)
(* goroutine of the run has returned by then, whichever of them the          *)
(* configuration asked for, and after a signal no request is under way.  A   *)
(* serving failure waits for no request.                                     *)
ClosedUnderNobody ==
  (pc = "exit" /\ deadline # "passed") =>
    /\ \A t \in Tasks : IsGone(t)
    /\ cause = "signal" => \A r \in Requests : requests[r] = "idle"

(* A signal or a serving failure ends the process, whatever the goroutines   *)
(* and the requests are stuck in, at any moment of startup or shutdown, and  *)
(* both at once.                                                             *)
Asked == Up /\ (signalled \/ serveErr = "error")

EveryStopEnds == Asked ~> pc = "down"

(* The same without the help of the deadline, if only what works ends: every *)
(* loop learns of the end, on both paths (checked under CalmSpec).           *)
PromptStop == Asked ~> pc = "down"

(* A directory whose rows a sweep refuses to prune is warned about once, and *)
(* again only after a sweep that looked has found files in it, through       *)
(* sweeps that fail, sweeps that find the library empty, and the handover    *)
(* from the first sweep to the periodic ones.                                *)
WarnedOnce == \A d \in TopDirs : log[d] \notin {"repeated", "missed"}

(* A worker never works beside a row that an earlier run left in progress,   *)
(* but after a recovery whose write failed: over runs that are killed, that  *)
(* miss their deadline, and that run with another configuration.             *)
RecoveredBeforeClaim ==
  \A t \in Workers : Is(t, "working") => rows[t] # "left"

(* docs/notes/storage.md:83: "FailInterruptedSends fails every row still     *)
(* sending at startup"                                                       *)
FailedAtStartup == pc = "serve" => rows["sender"] # "left"

(* main.go:318: "On scanCtx like every other background loop, so a staged    *)
(* file is never deleted out from under a confirm that is running while the  *)
(* process shuts down."                                                      *)
Deleted == stage # "none" /\ stage' = "none" /\ pc' # "down"

StopSparesConfirm ==
  [][\A r \in Requests : (Stopping /\ requests[r] = "checked" /\ requests'[r] = "checked")
                           => ~Deleted]_serverVars
=============================================================================
