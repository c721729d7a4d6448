---------------------------- MODULE WatcherProps ----------------------------
(* What the watcher and the scan loop owe each other.                        *)
EXTENDS Watcher

TypeOK ==
  /\ WatchTypeOK
  /\ unswept \in [Dirs -> States]
  /\ run \in Runs /\ scan \in ScanStates
  /\ trigger \in BOOLEAN /\ stopped \in BOOLEAN

(* A change that was heard is never forgotten: until a sweep has looked at   *)
(* the directory an event is queued, the debounce is armed, the poke is in   *)
(* the channel or taken, or a sweep has yet to come to it -- through the     *)
(* startup probe, a full trigger, an event that has stopped qualifying, and  *)
(* a recheck that fires in between.                                          *)
HeardIsPending ==
  ~stopped => \A d \in Dirs : unswept[d] = "heard" =>
    \/ events # <<>> \/ run.pending \/ Armed(run) \/ trigger
    \/ scan.pc = "woken" \/ (scan.pc = "sweep" /\ d \in Ahead)

(* However long the events go on without a gap, what was heard first is      *)
(* poked for within watchMaxDelay and one settle window.                     *)
BurstIsBounded == run.age # Off => run.age < MaxDelay + Settle

(* A Refresh during which the directories stayed as they were, and every Add *)
(* was accepted, leaves exactly one watch per directory: each filed under    *)
(* its name, none on a directory that left, and no kernel watch that         *)
(* fsnotify can no longer find.                                              *)
Exact ==
  /\ filed' = tree
  /\ kernel' = Range(tree) \ {NoInode}

Calm == walk.by # "none" /\ walk'.by = "none" /\ walk.calm /\ ~closed

(* ... provided no earlier Add attached to another directory than the one    *)
(* whose identity was read just before                                       *)
RefreshIsExact == [][Calm /\ ~torn => Exact]_vars

(* watcher.go:172: "Together they are exact, because an inode number is only *)
(* reusable once its inode is freed, and freeing it drops the watch filed    *)
(* under that name: a live watch plus a matching identity cannot be a        *)
(* coincidence."                                                             *)
RefreshAlwaysExact == [][Calm => Exact]_vars

(* No kernel watch is held that fsnotify has no name for, so that no Remove  *)
(* could release it                                                          *)
NoLostWatch == kernel \subseteq Range(filed)

(* A watcher that has lost every watch finds its own way back: whatever is   *)
(* unswept then is swept though the ticker never fires, unless the library   *)
(* directory is still away, a sweep failed, or the process stops ...         *)
Deaf == WatchList = {} /\ run.pc # "done"

Abandoned(d) == unswept[d] = "left" \/ ~Present(Root) \/ stopped

(* ... or the Refresh of a sweep already under way restored a watch first:   *)
(* then the recheck finds nothing amiss and pokes nobody.                    *)
OvertakenBySweep == walk.by = "scan" /\ WatchList # {}

DeafIsSwept ==
  \A d \in Dirs :
    (Deaf /\ Present(Root) /\ unswept[d] \in {"unheard", "heard"})
      ~> unswept[d] = "clean" \/ Abandoned(d) \/ OvertakenBySweep
=============================================================================
