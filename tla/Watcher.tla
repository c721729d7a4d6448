------------------------------- MODULE Watcher -------------------------------
(* The watcher and the scan loop it pokes: Watcher.Run with its debounce and *)
(* its recheck (internal/scanner/watcher.go), and the scan goroutine of      *)
(* cmd/server/main.go with periodicScan.  Both call Refresh (WatchSet).      *)
(*                                                                           *)
(* unswept says of each directory whether something in it has changed since  *)
(* a sweep looked: "heard" when an event was queued for it, "unheard" when   *)
(* none was, "left" when the sweep that was to look at it failed and only a  *)
(* later wake-up can.                                                        *)
EXTENDS WatchSet

CONSTANTS Settle,       \* WATCH_SETTLE in ticks of the clock
          MaxDelay,     \* watchMaxDelay in ticks
          Off           \* a timer that is not set

ASSUME DebounceAssumption == {Settle, MaxDelay} \subseteq Nat \ {0} /\ Off \notin Nat

VARIABLES unswept, run, scan, trigger, stopped

vars == <<watchVars, unswept, run, scan, trigger, stopped>>

States == {"clean", "unheard", "heard", "left"}
Runs == [pc : {"probe", "loop", "lock", "recheck", "done"}, pending : BOOLEAN,
         settle : 0..Settle \cup {Off}, age : 0..(MaxDelay + Settle) \cup {Off}]
ScanStates == [pc : {"sweep", "lock", "refresh", "idle", "woken", "done"},
               todo : SUBSET Dirs]

-----------------------------------------------------------------------------
(* Changes of the library, as the sweep will have to find them               *)

Changed(ds) ==
  unswept' = [d \in Dirs |-> IF d \notin ds THEN unswept[d]
                             ELSE IF Reported THEN "heard" ELSE "unheard"]

(* An unheard touch of a directory whose earlier change was heard is covered *)
(* by the sweep that one will bring                                          *)
TouchBook(d) ==
  /\ Touch(d)
  /\ IF Reported \/ unswept[d] # "heard" THEN Changed({d}) ELSE UNCHANGED unswept
  /\ UNCHANGED <<run, scan, trigger, stopped>>

TouchAway(i) == TouchOutside(i) /\ UNCHANGED <<unswept, run, scan, trigger, stopped>>

MakeDir(d, i) == Make(d, i) /\ Changed({d}) /\ UNCHANGED <<run, scan, trigger, stopped>>

LoseDir(d) ==
  /\ Delete(d) \/ Leave(d)
  /\ Changed({c \in Under(d) : Present(c)})
  /\ UNCHANGED <<run, scan, trigger, stopped>>

LoseMount ==
  /\ Unmount
  /\ Changed({d \in Dirs : Present(d)} \cup {d \in Dirs : unswept[d] = "heard"})
  /\ UNCHANGED <<run, scan, trigger, stopped>>

-----------------------------------------------------------------------------
(* Run                                                                       *)

(* A removal is always worth a sweep; a new directory only if the name still *)
(* is one when the event is received                                         *)
Qualifies(e) == e.kind \in {"book", "left"} \/ (e.kind = "made" /\ Present(e.dir))

Armed(r) == r.settle # Off

Arm(r) == [r EXCEPT !.settle = Settle, !.age = IF @ = Off THEN 0 ELSE @]

Poke == trigger' = TRUE         \* a poke that finds the buffer full is dropped

Fired(r) == [r EXCEPT !.settle = Off, !.age = Off]

Fire == run' = Fired(run) /\ Poke

(* The probe consumes events until its own arrives or its time is over       *)
ProbeReceives ==
  /\ run.pc = "probe" /\ events # <<>>
  /\ run' = [run EXCEPT !.pending = @ \/ Qualifies(Head(events))]
  /\ events' = Tail(events)
  /\ UNCHANGED <<treeVars, setVars, mishaps, unswept, scan, trigger, stopped>>

(* Mutant: what the probe consumed is lost to the debounce                   *)
ProbeForgets ==
  /\ run.pc = "probe"
  /\ run' = [run EXCEPT !.pc = "loop", !.pending = FALSE]
  /\ UNCHANGED <<watchVars, unswept, scan, trigger, stopped>>

ProbeEnds ==
  /\ run.pc = "probe"
  /\ run' = LET r == [run EXCEPT !.pc = "loop", !.pending = FALSE]
            IN IF run.pending THEN Arm(r) ELSE r
  /\ UNCHANGED <<watchVars, unswept, scan, trigger, stopped>>

(* Mutant: no event is ever past the cap                                     *)
ReceiveNoCap ==
  /\ run.pc = "loop" /\ events # <<>>
  /\ events' = Tail(events)
  /\ run' = IF Qualifies(Head(events)) THEN Arm(run) ELSE run
  /\ UNCHANGED <<treeVars, setVars, mishaps, unswept, scan, trigger, stopped>>

Receive ==
  /\ run.pc = "loop" /\ events # <<>>
  /\ events' = Tail(events)
  /\ IF ~Qualifies(Head(events)) THEN UNCHANGED <<run, trigger>>
     ELSE IF run.age # Off /\ run.age >= MaxDelay THEN Fire
     ELSE run' = Arm(run) /\ UNCHANGED trigger
  /\ UNCHANGED <<treeVars, setVars, mishaps, unswept, scan, stopped>>

Settled ==
  /\ run.pc = "loop" /\ run.settle = 0
  /\ Fire
  /\ UNCHANGED <<watchVars, unswept, scan, stopped>>

(* recheck.C: nothing to do while any watch is left; the Refresh waits for   *)
(* the lock                                                                  *)
Recheck ==
  /\ run.pc = "loop" /\ WatchList = {}
  /\ run' = [run EXCEPT !.pc = "lock"]
  /\ UNCHANGED <<watchVars, unswept, scan, trigger, stopped>>

RecheckLocks ==
  /\ run.pc = "lock" /\ Begin("run")
  /\ run' = [run EXCEPT !.pc = "recheck"]
  /\ UNCHANGED <<unswept, scan, trigger, stopped>>

RecheckWalks ==
  /\ run.pc = "recheck" /\ WalkStep("run")
  /\ UNCHANGED <<unswept, run, scan, trigger, stopped>>

(* Mutant: the set is rebuilt and the loop waits for the next event          *)
RecheckEndsQuietly ==
  /\ run.pc = "recheck" /\ Finish("run")
  /\ run' = [run EXCEPT !.pc = "loop"]
  /\ UNCHANGED <<unswept, scan, trigger, stopped>>

(* Refresh returns; with a watch again, whatever changed meanwhile is swept  *)
RecheckEnds ==
  /\ run.pc = "recheck" /\ Finish("run")
  /\ IF filed' # [d \in Dirs |-> NoInode]
     THEN run' = Fired([run EXCEPT !.pc = "loop"]) /\ Poke
     ELSE run' = [run EXCEPT !.pc = "loop"] /\ UNCHANGED trigger
  /\ UNCHANGED <<unswept, scan, stopped>>

RunStops ==
  /\ stopped /\ run.pc \in {"probe", "loop"}
  /\ run' = [Fired(run) EXCEPT !.pc = "done", !.pending = FALSE]
  /\ Close
  /\ UNCHANGED <<treeVars, registered, walk, torn, events, mishaps, unswept, scan,
                 trigger, stopped>>

(* Time passes only when Run has nothing ready: it keeps up with its timers  *)
(* and its events                                                            *)
Tick ==
  /\ run.pc = "loop" /\ Armed(run) /\ run.settle > 0 /\ events = <<>>
  /\ run' = [run EXCEPT !.settle = @ - 1, !.age = @ + 1]
  /\ UNCHANGED <<watchVars, unswept, scan, trigger, stopped>>

-----------------------------------------------------------------------------
(* The scan goroutine                                                        *)

Sweep(s) == [s EXCEPT !.pc = "sweep", !.todo = {Root}]

(* The ticker or the trigger ends the wait, or the context does              *)
TickerWakes ==
  /\ scan.pc = "idle"
  /\ scan' = [scan EXCEPT !.pc = "woken"]
  /\ UNCHANGED <<watchVars, unswept, run, trigger, stopped>>

TriggerWakes ==
  /\ scan.pc = "idle" /\ trigger
  /\ trigger' = FALSE
  /\ scan' = [scan EXCEPT !.pc = "woken"]
  /\ UNCHANGED <<watchVars, unswept, run, stopped>>

ScanStops ==
  /\ scan.pc = "idle" /\ stopped
  /\ scan' = [scan EXCEPT !.pc = "done"]
  /\ UNCHANGED <<watchVars, unswept, run, trigger, stopped>>

(* ctx.Err() is asked again: the wake-up may have been taken after the stop  *)
Woken ==
  /\ scan.pc = "woken"
  /\ scan' = IF stopped THEN [scan EXCEPT !.pc = "done"] ELSE Sweep(scan)
  /\ UNCHANGED <<watchVars, unswept, run, trigger, stopped>>

(* A sweep lists a directory: what is in it, and what is no longer           *)
Lists(d) == {d} \cup UNION {Under(c) : c \in {x \in Children(d) : ~Present(x)}}

SweepDir(d) ==
  /\ scan.pc = "sweep" /\ d \in scan.todo
  /\ unswept' = [c \in Dirs |-> IF c \in Lists(d) THEN "clean" ELSE unswept[c]]
  /\ scan' = [scan EXCEPT !.todo = (@ \ {d}) \cup {c \in Children(d) : Present(c)}]
  /\ UNCHANGED <<watchVars, run, trigger, stopped>>

(* The sweep fails, on a failed query or because the context ended: what it  *)
(* had not looked at stays, and its wake-up is spent                         *)
Ahead == UNION {Under(d) : d \in scan.todo}

SweepFails ==
  /\ scan.pc = "sweep"
  /\ \/ stopped /\ UNCHANGED mishaps
     \/ Mishap
  /\ unswept' = [d \in Dirs |-> IF d \in Ahead /\ unswept[d] # "clean"
                                THEN "left" ELSE unswept[d]]
  /\ scan' = [scan EXCEPT !.pc = "lock", !.todo = {}]
  /\ UNCHANGED <<treeVars, setVars, events, run, trigger, stopped>>

SweepEnds ==
  /\ scan.pc = "sweep" /\ scan.todo = {}
  /\ scan' = [scan EXCEPT !.pc = "lock"]
  /\ UNCHANGED <<watchVars, unswept, run, trigger, stopped>>

ScanLocks ==
  /\ scan.pc = "lock" /\ Begin("scan")
  /\ scan' = [scan EXCEPT !.pc = "refresh"]
  /\ UNCHANGED <<unswept, run, trigger, stopped>>

ScanWalks ==
  /\ scan.pc = "refresh" /\ WalkStep("scan")
  /\ UNCHANGED <<unswept, run, scan, trigger, stopped>>

ScanRefreshed ==
  /\ scan.pc = "refresh" /\ Finish("scan")
  /\ scan' = [scan EXCEPT !.pc = "idle"]
  /\ UNCHANGED <<unswept, run, trigger, stopped>>

Stop ==
  /\ ~stopped /\ stopped' = TRUE
  /\ Mishap
  /\ UNCHANGED <<treeVars, setVars, events, unswept, run, scan, trigger>>

-----------------------------------------------------------------------------
(* The startup sweep has not looked at anything yet, and what is in the      *)
(* library when the watcher starts was heard by nobody                       *)
Init ==
  /\ InitWatch
  /\ unswept = [d \in Dirs |-> IF Present(d) THEN "unheard" ELSE "clean"]
  /\ run = [pc |-> "probe", pending |-> FALSE, settle |-> Off, age |-> Off]
  /\ scan = [pc |-> "sweep", todo |-> {Root}]
  /\ trigger = FALSE /\ stopped = FALSE

RunStep == \/ Receive \/ Settled \/ RecheckWalks \/ RecheckEnds \/ ProbeEnds
           \/ RunStops
ScanStep == \/ TriggerWakes \/ ScanStops \/ Woken \/ SweepEnds
            \/ (\E d \in Dirs : SweepDir(d)) \/ ScanWalks \/ ScanRefreshed

Next ==
  \/ \E d \in Dirs : TouchBook(d) \/ LoseDir(d)
  \/ \E i \in Inodes : TouchAway(i) \/ \E d \in Dirs : MakeDir(d, i)
  \/ LoseMount \/ Stop
  \/ ProbeReceives \/ Recheck \/ RecheckLocks \/ RunStep \/ Tick
  \/ TickerWakes \/ ScanLocks \/ SweepFails \/ ScanStep

Spec == Init /\ [][Next]_vars

(* The two goroutines run, a ready recheck is not passed over for ever by    *)
(* select, and sync.Mutex gives the lock to whoever waits long enough.       *)
(* Nothing is assumed of the scan ticker: no property may rest on it.        *)
FairSpec ==
  /\ Spec
  /\ WF_vars(RunStep) /\ WF_vars(ScanStep) /\ WF_vars(Tick)
  /\ SF_vars(Recheck) /\ SF_vars(RecheckLocks) /\ SF_vars(ScanLocks)
=============================================================================
