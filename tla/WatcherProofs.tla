---------------------------- MODULE WatcherProofs ----------------------------
(* For every tree, every number of inodes and any number of mishaps: no      *)
(* burst outlasts the cap, no kernel watch is ever lost from sight, what was *)
(* heard stays owed to a sweep, and a calm Refresh leaves the set exact.     *)
(* And of the server process whose goroutines the watcher and the scan loop  *)
(* are (Server): what holds of its start, its warnings and its end.          *)
EXTENDS WatcherProps, ServerProps, TLAPS

USE WatchAssumption, DebounceAssumption

-----------------------------------------------------------------------------
(* The burst.  Between two ticks the age of the burst and what is left of    *)
(* the settle window trade one for one, and only an event younger than the   *)
(* cap renews the window.                                                    *)

Timers ==
  /\ run.settle \in 0..Settle \cup {Off} /\ run.age \in Nat \cup {Off}
  /\ run.settle = Off <=> run.age = Off
  /\ run.age # Off => run.age + run.settle < MaxDelay + Settle
  /\ run.pc = "probe" => run.age = Off
  /\ DOMAIN run = {"pc", "pending", "settle", "age"}

(* Arming keeps the timers in step while the burst is younger than the cap   *)
LEMMA ArmKeeps ==
  ASSUME NEW r, DOMAIN r = {"pc", "pending", "settle", "age"},
         r.age \in Nat \cup {Off}, r.age # Off => r.age < MaxDelay
  PROVE  /\ Arm(r).settle = Settle
         /\ Arm(r).age \in Nat
         /\ Arm(r).age + Settle < MaxDelay + Settle
         /\ DOMAIN Arm(r) = DOMAIN r
         /\ Arm(r).pc = r.pc
  BY DEF Arm

LEMMA TimersHold == Spec => []Timers
<1>1. Init => Timers
  BY DEF Init, Timers
<1>2. Timers /\ [Next]_vars => Timers'
  <2> SUFFICES ASSUME Timers, [Next]_vars PROVE Timers'
    OBVIOUS
  <2>0. CASE UNCHANGED run
    BY <2>0 DEF Timers
  <2>1. ASSUME run' = Fired(run) \/ run' = Fired([run EXCEPT !.pc = "loop"])
               \/ run' = [Fired(run) EXCEPT !.pc = "done", !.pending = FALSE]
        PROVE  Timers'
    BY <2>1 DEF Timers, Fired
  <2>2. ASSUME NEW s, s # "probe", run' = [run EXCEPT !.pc = s] PROVE Timers'
    BY <2>2 DEF Timers
  <2>3. CASE Receive
    <3>1. CASE run' = Arm(run) /\ ~(run.age # Off /\ run.age >= MaxDelay)
      <4>1. run.age # Off => run.age < MaxDelay
        BY <3>1 DEF Timers
      <4>2. run.pc = "loop" /\ DOMAIN run = {"pc", "pending", "settle", "age"}
            /\ run.age \in Nat \cup {Off}
        BY <2>3 DEF Receive, Timers
      <4>3. /\ run'.settle = Settle /\ run'.age \in Nat /\ run'.pc = "loop"
            /\ run'.age + Settle < MaxDelay + Settle
            /\ DOMAIN run' = {"pc", "pending", "settle", "age"}
        BY <3>1, <4>1, <4>2, ArmKeeps
      <4> QED BY <4>3 DEF Timers
    <3> QED BY <2>0, <2>1, <2>3, <3>1 DEF Receive, Fire
  <2>4. CASE ProbeEnds
    <3> DEFINE r == [run EXCEPT !.pc = "loop", !.pending = FALSE]
    <3>1. r.age = Off /\ r.settle = Off /\ r.pc = "loop" /\ DOMAIN r = DOMAIN run
      BY <2>4 DEF Timers, ProbeEnds
    <3>2. CASE run' = r
      BY <3>1, <3>2 DEF Timers
    <3>3. CASE run' = Arm(r)
      <4> HIDE DEF r
      <4> QED BY <3>1, <3>3, ArmKeeps DEF Timers
    <3> QED BY <2>4, <3>2, <3>3 DEF ProbeEnds
  <2>5. CASE ProbeReceives
    BY <2>5 DEF ProbeReceives, Timers
  <2>6. CASE Tick
    BY <2>6 DEF Tick, Timers, Armed
  <2>7. CASE Settled \/ RunStops
    BY <2>1, <2>7 DEF Settled, RunStops, Fire
  <2>8. CASE Recheck \/ RecheckLocks \/ RecheckEnds
    BY <2>1, <2>2, <2>8 DEF Recheck, RecheckLocks, RecheckEnds
  <2>9. CASE RecheckWalks
    BY <2>0, <2>9 DEF RecheckWalks
  <2>10. CASE \E d \in Dirs : TouchBook(d) \/ LoseDir(d)
    BY <2>0, <2>10 DEF TouchBook, LoseDir
  <2>11. CASE \E i \in Inodes : TouchAway(i) \/ \E d \in Dirs : MakeDir(d, i)
    BY <2>0, <2>11 DEF TouchAway, MakeDir
  <2>12. CASE LoseMount \/ Stop \/ TickerWakes \/ ScanLocks \/ SweepFails \/ ScanStep
    BY <2>0, <2>12 DEF LoseMount, Stop, TickerWakes, ScanLocks, SweepFails, ScanStep,
       TriggerWakes, ScanStops, Woken, SweepEnds, SweepDir, ScanWalks, ScanRefreshed
  <2>13. CASE UNCHANGED vars
    BY <2>0, <2>13 DEF vars
  <2> QED
    BY <2>3, <2>4, <2>5, <2>6, <2>7, <2>8, <2>9, <2>10, <2>11, <2>12, <2>13
    DEF Next, RunStep
<1> QED BY <1>1, <1>2, PTL DEF Spec

(* However the events go on, a burst is poked for within the cap and one     *)
(* settle window of its first event (Run, watchMaxDelay).                    *)
THEOREM BurstBounded == Spec => []BurstIsBounded
<1>1. Timers => BurstIsBounded
  BY DEF Timers, BurstIsBounded
<1> QED BY <1>1, TimersHold, PTL

-----------------------------------------------------------------------------
(* The watches.  A walk adds a watch only under a name nothing is filed      *)
(* under: the name was free when the walk began and nobody else files, or    *)
(* the walk has just released it.  It meets each directory once, because it  *)
(* meets it through its parent.                                              *)

Sets ==
  /\ tree \in [Dirs -> Keys] /\ filed \in [Dirs -> Keys]
  /\ kernel \subseteq Inodes
  /\ kernel \subseteq {filed[d] : d \in Dirs}

Met == walk.seen \cup walk.todo

Ordered ==
  /\ walk.todo \cap walk.seen = {}
  /\ \A c \in Met \ {Root} : Parent[c] \in walk.seen
  /\ walk.phase # "walk" => /\ walk.at \in walk.seen
                            /\ \A c \in Children(walk.at) : c \notin Met

Free ==
  /\ walk.by # "none" => \A d \in Dirs : filed[d] = NoInode \/ d \in walk.watched \cup walk.seen
  /\ walk.phase = "add" => filed[walk.at] = NoInode

Sound == Sets /\ walk \in Walks /\ Ordered /\ Free

(* Range is what Functions defines it to be                                  *)
LEMMA RangeFiled ==
  ASSUME NEW f \in [Dirs -> Keys]
  PROVE  Range(f) = {f[d] : d \in Dirs}
  BY DEF Range

(* The filesystem and the closing of the handle only take watches away       *)
LEMMA TakingAway ==
  ASSUME Sound, Sets',
         \A d \in Dirs : filed'[d] = filed[d] \/ filed'[d] = NoInode,
         walk' = walk \/ Stir
  PROVE  Sound'
<1>1. /\ walk' \in Walks /\ walk'.by = walk.by /\ walk'.phase = walk.phase
      /\ walk'.watched = walk.watched /\ walk'.seen = walk.seen
      /\ walk'.todo = walk.todo /\ walk'.at = walk.at
  BY DEF Sound, Walks, Stir
<1>2. Ordered'
  BY <1>1 DEF Sound, Ordered, Met
<1>3. walk.phase = "add" => walk.at \in Dirs
  BY DEF Sound, Ordered, Met, Walks
<1>4. Free'
  BY <1>1, <1>3 DEF Sound, Free
<1> QED BY <1>1, <1>2, <1>4 DEF Sound

(* Removing the watch of some names leaves every other one findable          *)
LEMMA ReleaseKeeps ==
  ASSUME Sets, NEW ds \in SUBSET Dirs, Release(ds), tree' \in [Dirs -> Keys]
  PROVE  Sets' /\ \A d \in Dirs : filed'[d] = IF d \in ds THEN NoInode ELSE filed[d]
<1>1. \A d \in Dirs : filed'[d] = IF d \in ds THEN NoInode ELSE filed[d]
  BY DEF Release
<1>2. filed' \in [Dirs -> Keys]
  BY DEF Release, Sets, Keys
<1>3. \A i \in kernel' : \E d \in Dirs : filed'[d] = i
  BY <1>1 DEF Release, Sets
<1>4. kernel' \subseteq {filed'[d] : d \in Dirs} /\ kernel' \subseteq Inodes
  BY <1>3 DEF Release, Sets
<1> QED BY <1>1, <1>2, <1>4 DEF Sets

LEMMA StatKeeps ==
  ASSUME Sound, walk.by # "none", NEW d \in Dirs, Stat(d) PROVE Sound'
<1>1. d \in walk.todo /\ d \notin walk.seen /\ walk.phase = "walk" /\ UNCHANGED tree
  BY DEF Stat, Sound, Ordered, treeVars
<1>2. \A c \in Children(d) : c \notin Met
  BY <1>1 DEF Sound, Ordered, Children, Met
<1>3. CASE ~Present(d) /\ UNCHANGED <<kernel, filed, registered>>
           /\ walk' = [walk EXCEPT !.seen = @ \cup {d}, !.todo = @ \ {d}]
  <2>1. /\ walk' \in Walks /\ walk'.by = walk.by /\ walk'.phase = "walk"
        /\ walk'.watched = walk.watched /\ walk'.at = walk.at
        /\ walk'.seen = walk.seen \cup {d} /\ walk'.todo = walk.todo \ {d}
    BY <1>1, <1>3 DEF Sound, Walks
  <2>2. Ordered'
    BY <1>1, <2>1 DEF Sound, Ordered, Met
  <2>3. Free' /\ Sets'
    BY <1>1, <1>3, <2>1 DEF Sound, Free, Sets
  <2> QED BY <2>1, <2>2, <2>3 DEF Sound
<1>4. ASSUME NEW phase \in {"add", "list"}, Seen(d, phase), Sets',
             phase = "add" => filed'[d] = NoInode,
             \A c \in Dirs : filed'[c] = filed[c] \/ filed'[c] = NoInode
      PROVE  Sound'
  <2>1. /\ walk' \in Walks /\ walk'.by = walk.by /\ walk'.phase = phase
        /\ walk'.watched = walk.watched /\ walk'.at = d
        /\ walk'.seen = walk.seen \cup {d} /\ walk'.todo = walk.todo \ {d}
    BY <1>1, <1>4 DEF Sound, Walks, Seen, Sets
  <2>2. Ordered'
    BY <1>1, <1>2, <2>1 DEF Sound, Ordered, Met, Children
  <2>3. Free'
    BY <1>4, <2>1 DEF Sound, Free
  <2> QED BY <1>4, <2>1, <2>2, <2>3 DEF Sound
<1>5. CASE Present(d) /\ d \notin walk.watched /\ Seen(d, "add")
           /\ UNCHANGED <<kernel, filed, registered>>
  <2>1. filed[d] = NoInode
    BY <1>1, <1>5 DEF Sound, Free
  <2>2. Sets'
    BY <1>1, <1>5 DEF Sound, Sets
  <2> QED BY <1>4, <1>5, <2>1, <2>2
<1>6. CASE Seen(d, "list") /\ UNCHANGED <<kernel, filed, registered>>
  <2>1. Sets'
    BY <1>1, <1>6 DEF Sound, Sets
  <2> QED BY <1>4, <1>6, <2>1
<1>7. CASE Seen(d, "add") /\ Release({d})
  <2>1. Sets' /\ filed'[d] = NoInode
        /\ \A c \in Dirs : filed'[c] = filed[c] \/ filed'[c] = NoInode
    BY <1>1, <1>7, ReleaseKeeps DEF Sound, Sets
  <2> QED BY <1>4, <1>7, <2>1
<1> QED BY <1>3, <1>5, <1>6, <1>7 DEF Stat

(* Adding under a free name files one watch more and hides none              *)
LEMMA AddKeeps == ASSUME Sound, AddWatch PROVE Sound'
<1>1. /\ walk.at \in Dirs /\ walk.at \in walk.seen /\ filed[walk.at] = NoInode
      /\ tree[walk.at] \in Inodes /\ UNCHANGED tree
  BY DEF AddWatch, Sound, Ordered, Free, Walks, Sets, Keys, Present, treeVars
<1>2. /\ walk' \in Walks /\ walk'.by = walk.by /\ walk'.phase = "list"
      /\ walk'.watched = walk.watched /\ walk'.seen = walk.seen
      /\ walk'.todo = walk.todo /\ walk'.at = walk.at
  BY DEF AddWatch, Sound, Walks
<1>3. Ordered'
  BY <1>2 DEF Sound, Ordered, Met, AddWatch
<1>4. \A d \in Dirs : filed'[d] = IF d = walk.at THEN tree[d] ELSE filed[d]
  BY <1>1 DEF AddWatch, Sound, Sets
<1>5. Free'
  BY <1>1, <1>2, <1>4 DEF Sound, Free
<1>6. filed' \in [Dirs -> Keys] /\ kernel' \subseteq Inodes
  BY <1>1 DEF AddWatch, Sound, Sets, Keys
<1>7. \A i \in kernel' : \E d \in Dirs : filed'[d] = i
  <2> TAKE i \in kernel'
  <2>1. CASE i = tree[walk.at]
    BY <1>1, <1>4, <2>1
  <2>2. CASE i \in kernel
    <3>1. PICK d \in Dirs : filed[d] = i
      BY <2>2 DEF Sound, Sets
    <3>2. i # NoInode
      BY <2>2 DEF Sound, Sets
    <3>3. d # walk.at
      BY <1>1, <3>1, <3>2
    <3> QED BY <1>4, <3>1, <3>3
  <2> QED BY <2>1, <2>2 DEF AddWatch
<1> QED BY <1>1, <1>2, <1>3, <1>5, <1>6, <1>7 DEF Sound, Sets

LEMMA ListKeeps == ASSUME Sound, List PROVE Sound'
<1> DEFINE new == {c \in Children(walk.at) : Present(c)}
<1>1. walk.phase = "list" /\ walk.at \in walk.seen /\ new \cap Met = {}
      /\ \A c \in new : c \in Dirs \ {Root} /\ Parent[c] = walk.at
  BY DEF List, Sound, Ordered, Children
<1>2. /\ walk' \in Walks /\ walk'.by = walk.by /\ walk'.phase = "walk"
      /\ walk'.watched = walk.watched /\ walk'.seen = walk.seen
      /\ walk'.todo = walk.todo \cup new
  BY <1>1 DEF List, Sound, Walks, Keys
<1>3. Ordered'
  BY <1>1, <1>2 DEF Sound, Ordered, Met
<1>4. Sets' /\ Free'
  BY <1>2 DEF Sound, Sets, Free, List, treeVars
<1> QED BY <1>2, <1>3, <1>4 DEF Sound

LEMMA WalkKeeps ==
  ASSUME Sound, NEW who \in {"scan", "run"}, WalkStep(who) PROVE Sound'
<1>0. walk.by = who /\ walk.by # "none"
  BY DEF WalkStep
<1>1. CASE \E d \in Dirs : Stat(d)
  BY <1>0, <1>1, StatKeeps
<1>2. CASE AddWatch
  BY <1>2, AddKeeps
<1>3. CASE List
  BY <1>3, ListKeeps
<1>4. CASE AddFails \/ AddClosed
  <2>1. UNCHANGED <<tree, kernel, filed>>
    BY <1>4 DEF AddFails, AddClosed, treeVars
  <2>2. /\ walk' \in Walks /\ walk'.by = walk.by /\ walk'.phase \in {"walk", "list"}
        /\ walk'.watched = walk.watched /\ walk'.seen = walk.seen
        /\ walk'.todo \in {walk.todo, {}} /\ walk'.at = walk.at
        /\ walk.phase = "add"
    BY <1>4 DEF AddFails, AddClosed, Sound, Walks
  <2>3. Ordered'
    BY <2>2 DEF Sound, Ordered, Met
  <2>4. Sets' /\ Free'
    BY <2>1, <2>2 DEF Sound, Sets, Free
  <2> QED BY <2>2, <2>3, <2>4 DEF Sound
<1> QED BY <1>1, <1>2, <1>3, <1>4 DEF WalkStep

(* A walk begins with what is filed and ends by dropping the names that left *)
LEMMA BeginEndKeep ==
  ASSUME Sound, NEW who \in {"scan", "run"}, Begin(who) \/ Finish(who) PROVE Sound'
<1>1. CASE Begin(who)
  <2>1. UNCHANGED <<tree, kernel, filed>>
    BY <1>1 DEF Begin, treeVars
  <2>2. /\ walk' \in Walks /\ walk'.phase = "walk" /\ walk'.watched = WatchList
        /\ walk'.seen = {} /\ walk'.todo \subseteq {Root}
    BY <1>1 DEF Begin, NoWalk, Walks, WatchList, Keys
  <2>3. Ordered' /\ Sets' /\ Free'
    BY <2>1, <2>2 DEF Sound, Ordered, Met, Sets, Free, WatchList
  <2> QED BY <2>2, <2>3 DEF Sound
<1>2. CASE Finish(who)
  <2>1. walk' = NoWalk /\ NoWalk \in Walks /\ UNCHANGED tree
    BY <1>2 DEF Finish, NoWalk, Walks, Keys, treeVars
  <2>2. Sets'
    BY <1>2, <2>1, ReleaseKeeps DEF Finish, Gone, Sound, Sets
  <2>3. Ordered' /\ Free'
    BY <2>1 DEF NoWalk, Ordered, Met, Free
  <2> QED BY <2>1, <2>2, <2>3 DEF Sound
<1> QED BY <1>1, <1>2

(* The filesystem, whatever it does to the directories                       *)
LEMMA FilesystemKeeps ==
  ASSUME Sound,
         \/ \E d \in Dirs : Touch(d) \/ Delete(d) \/ Leave(d)
         \/ \E i \in Inodes : TouchOutside(i) \/ \E d \in Dirs : Make(d, i)
         \/ Unmount
  PROVE  Sound'
<1>1. CASE (\E d \in Dirs : Touch(d)) \/ \E i \in Inodes : TouchOutside(i)
  <2>1. UNCHANGED <<tree, filed, kernel, walk>>
    BY <1>1 DEF Touch, TouchOutside, treeVars, setVars
  <2> QED BY <2>1, TakingAway DEF Sound, Sets
<1>2. ASSUME NEW d \in Dirs, Leave(d) \/ \E i \in Inodes : Make(d, i) PROVE Sound'
  <2>1. UNCHANGED <<filed, kernel>> /\ Stir
    BY <1>2 DEF Leave, Make
  <2>2. tree' \in [Dirs -> Keys]
    BY <1>2 DEF Leave, Make, Sound, Sets, Keys
  <2> QED BY <2>1, <2>2, TakingAway DEF Sound, Sets
<1>3. ASSUME NEW d \in Dirs, Delete(d) PROVE Sound'
  <2> DEFINE freed == {tree[c] : c \in Under(d)}
  <2>1. /\ kernel' = kernel \ freed /\ Stir
        /\ filed' = [c \in Dirs |-> IF filed[c] \in freed THEN NoInode ELSE filed[c]]
        /\ tree' = [c \in Dirs |-> IF c \in Under(d) THEN NoInode ELSE tree[c]]
    BY <1>3 DEF Delete
  <2> HIDE DEF freed
  <2>2. tree' \in [Dirs -> Keys] /\ filed' \in [Dirs -> Keys]
    BY <2>1 DEF Sound, Sets, Keys
  <2>3. \A i \in kernel' : \E c \in Dirs : filed'[c] = i
    BY <2>1 DEF Sound, Sets
  <2>4. Sets'
    BY <2>1, <2>2, <2>3 DEF Sound, Sets
  <2> QED BY <2>1, <2>4, TakingAway
<1>4. CASE Unmount
  BY <1>4, TakingAway DEF Unmount, Sound, Sets, Keys
<1> QED BY <1>1, <1>2, <1>3, <1>4

LEMMA SoundHolds == Spec => []Sound
<1>1. Init => Sound
  <2> SUFFICES ASSUME Init PROVE Sound
    OBVIOUS
  <2>1. /\ filed = tree /\ kernel = Range(tree) \ {NoInode} /\ walk = NoWalk
    BY DEF Init, InitWatch
  <2>2. tree \in [Dirs -> Keys]
    <3>1. Numbering \in [Dirs -> Inodes]
      BY DEF Numbering, Numberings
    <3> QED BY <3>1 DEF Init, InitWatch, Keys
  <2>3. Sets
    BY <2>1, <2>2, RangeFiled DEF Sets, Keys
  <2>4. walk \in Walks /\ Ordered /\ Free
    BY <2>1 DEF NoWalk, Walks, Ordered, Met, Free, Keys
  <2> QED BY <2>3, <2>4 DEF Sound
<1>2. Sound /\ [Next]_vars => Sound'
  <2> SUFFICES ASSUME Sound, [Next]_vars PROVE Sound'
    OBVIOUS
  <2>0. CASE UNCHANGED watchVars
    <3>1. UNCHANGED <<tree, filed, kernel, walk>>
      BY <2>0 DEF watchVars, treeVars, setVars
    <3> QED BY <3>1, TakingAway DEF Sound, Sets
  <2>1. ASSUME UNCHANGED <<treeVars, setVars>> PROVE Sound'
    <3>1. UNCHANGED <<tree, filed, kernel, walk>>
      BY <2>1 DEF treeVars, setVars
    <3> QED BY <3>1, TakingAway DEF Sound, Sets
  <2>2. CASE \E d \in Dirs : TouchBook(d) \/ LoseDir(d)
    BY <2>2, FilesystemKeeps DEF TouchBook, LoseDir
  <2>3. CASE \E i \in Inodes : TouchAway(i) \/ \E d \in Dirs : MakeDir(d, i)
    BY <2>3, FilesystemKeeps DEF TouchAway, MakeDir
  <2>4. CASE LoseMount
    BY <2>4, FilesystemKeeps DEF LoseMount
  <2>5. CASE Stop \/ ProbeReceives \/ Receive \/ SweepFails
    BY <2>1, <2>5 DEF Stop, ProbeReceives, Receive, SweepFails
  <2>6. CASE Recheck \/ Settled \/ ProbeEnds \/ Tick \/ TickerWakes
    BY <2>0, <2>6 DEF Recheck, Settled, ProbeEnds, Tick, TickerWakes
  <2>7. CASE RunStops
    <3>1. Sets' /\ UNCHANGED walk /\ \A d \in Dirs : filed'[d] = NoInode
      BY <2>7 DEF RunStops, Close, Sound, Sets, Keys, treeVars
    <3> QED BY <3>1, TakingAway
  <2>8. CASE RecheckLocks \/ RecheckWalks \/ RecheckEnds
    BY <2>8, BeginEndKeep, WalkKeeps DEF RecheckLocks, RecheckWalks, RecheckEnds
  <2>9. CASE ScanLocks \/ ScanWalks \/ ScanRefreshed
    BY <2>9, BeginEndKeep, WalkKeeps DEF ScanLocks, ScanWalks, ScanRefreshed
  <2>10. CASE \/ TriggerWakes \/ ScanStops \/ Woken \/ SweepEnds
              \/ \E d \in Dirs : SweepDir(d)
    BY <2>0, <2>10 DEF TriggerWakes, ScanStops, Woken, SweepEnds, SweepDir
  <2>11. CASE UNCHANGED vars
    BY <2>0, <2>11 DEF vars
  <2> QED
    BY <2>2, <2>3, <2>4, <2>5, <2>6, <2>7, <2>8, <2>9, <2>10, <2>11
    DEF Next, RunStep, ScanStep
<1> QED BY <1>1, <1>2, PTL DEF Spec

(* Every kernel watch keeps a name it can be released by, whichever          *)
(* directories come, go and move while two goroutines refresh (Refresh).     *)
THEOREM NoneLost == Spec => []NoLostWatch
<1>1. Sound => NoLostWatch
  BY RangeFiled DEF Sound, Sets, NoLostWatch
<1> QED BY <1>1, SoundHolds, PTL

-----------------------------------------------------------------------------
(* What was heard.  Of the events that wait for Run, one that says a book    *)
(* was touched or a directory left is always worth a sweep, and one that     *)
(* says a directory was made for as long as it is there: when it goes, its   *)
(* going is heard or is not.                                                 *)

Worth(e, d) == e.kind \in {"book", "left"} \/ (e.kind = "made" /\ e.dir = d /\ Present(d))

Queued(d) == \E k \in 1..Len(events) : Worth(events[k], d)

Owed(d) ==
  \/ Queued(d) \/ run.pending \/ Armed(run) \/ trigger
  \/ scan.pc = "woken" \/ (scan.pc = "sweep" /\ d \in Ahead)

Shapes ==
  /\ events \in Seq(Events) /\ unswept \in [Dirs -> States] /\ scan \in ScanStates
  /\ tree \in [Dirs -> Keys]

HeardInv == ~stopped => \A d \in Dirs : unswept[d] = "heard" => Owed(d)

LEMMA ReportCases ==
  ASSUME events \in Seq(Events), NEW e \in Events, NEW hears, Report(e, hears)
  PROVE  /\ events' \in Seq(Events)
         /\ Reported => events' = Append(events, e)
         /\ ~Reported => events' = events
  BY DEF Report, Reported

(* An event in the queue stays there while others join it                    *)
LEMMA QueuedStays ==
  ASSUME events \in Seq(Events), NEW d \in Dirs, Queued(d), Present(d) => Present(d)',
         events' = events \/ \E e \in Events : events' = Append(events, e)
  PROVE  Queued(d)'
<1>1. PICK k \in 1..Len(events) : Worth(events[k], d)
  BY DEF Queued
<1>2. k \in 1..Len(events') /\ events'[k] = events[k]
  OBVIOUS
<1> QED BY <1>1, <1>2 DEF Queued, Worth

LEMMA Joins ==
  ASSUME events \in Seq(Events), NEW e \in Events, events' = Append(events, e),
         NEW d \in Dirs, Worth(e, d)'
  PROVE  Queued(d)'
<1>1. Len(events') = Len(events) + 1 /\ events'[Len(events) + 1] = e /\ Len(events) \in Nat
  OBVIOUS
<1> QED BY <1>1 DEF Queued

(* The filesystem: what changes is heard, by an event that is worth it, or   *)
(* is not                                                                    *)
LEMMA FilesystemOwes ==
  ASSUME Shapes, HeardInv, NEW e \in Events, NEW hears, Report(e, hears), NEW ds \in SUBSET Dirs,
         Changed(ds), tree' \in [Dirs -> Keys], UNCHANGED <<run, scan, trigger, stopped>>,
         \A d \in ds : Worth(e, d)',
         \A d \in Dirs \ ds : Present(d) => Present(d)'
  PROVE  Shapes' /\ HeardInv'
<1>1. /\ events' \in Seq(Events)
      /\ Reported => events' = Append(events, e)
      /\ ~Reported => events' = events
  BY ReportCases DEF Shapes
<1>2. unswept' \in [Dirs -> States]
  BY DEF Changed, Shapes, States
<1>3. ASSUME ~stopped, NEW d \in Dirs, unswept'[d] = "heard" PROVE Owed(d)'
  <2>1. CASE d \in ds
    <3>1. Reported
      BY <1>3, <2>1 DEF Changed
    <3>2. Queued(d)'
      BY <1>1, <2>1, <3>1, Joins DEF Shapes
    <3> QED BY <3>2 DEF Owed
  <2>2. CASE d \notin ds
    <3>1. unswept[d] = "heard"
      BY <1>3, <2>2 DEF Changed
    <3>2. Owed(d)
      BY <1>3, <3>1 DEF HeardInv
    <3>3. Queued(d) => Queued(d)'
      BY <1>1, <2>2, QueuedStays DEF Shapes
    <3> QED BY <3>2, <3>3 DEF Owed, Ahead
  <2> QED BY <2>1, <2>2
<1> QED BY <1>1, <1>2, <1>3 DEF Shapes, HeardInv

(* Whatever leaves the queue alone, and what waits for it                    *)
LEMMA OthersOwe ==
  ASSUME Shapes, HeardInv, UNCHANGED <<tree, events, unswept, stopped>>, scan' \in ScanStates,
         \A d \in Dirs : Owed(d) /\ ~Queued(d) /\ ~stopped /\ unswept[d] = "heard" => Owed(d)'
  PROVE  Shapes' /\ HeardInv'
<1>1. \A d \in Dirs : Queued(d) => Owed(d)'
  BY DEF Owed, Queued, Worth, Present
<1> QED BY <1>1 DEF Shapes, HeardInv

LEMMA TouchOwes == ASSUME Shapes, HeardInv, NEW c \in Dirs, TouchBook(c) PROVE Shapes' /\ HeardInv'
<1> DEFINE e == [kind |-> "book", dir |-> c]
<1>1. /\ e \in Events /\ Report(e, Hear(c)) /\ UNCHANGED <<tree, run, scan, trigger, stopped>>
      /\ Worth(e, c)' /\ e.kind = "book"
  BY DEF TouchBook, Touch, treeVars, Events, Worth
<1>2. CASE Changed({c})
  <2> HIDE DEF e
  <2>1. \A d \in Dirs : Present(d) => Present(d)'
    BY <1>1 DEF Present
  <2> QED BY <1>1, <1>2, <2>1, FilesystemOwes DEF Shapes
<1>3. CASE ~Reported /\ UNCHANGED unswept
  <2>1. events' = events
    BY <1>1, <1>3, ReportCases DEF Shapes
  <2>2. \A d : Owed(d)' <=> Owed(d)
    BY <1>1, <2>1 DEF Owed, Queued, Worth, Present, Ahead
  <2> QED BY <1>1, <1>3, <2>1, <2>2, OthersOwe DEF Shapes
<1> QED BY <1>2, <1>3 DEF TouchBook

LEMMA AwayOwes ==
  ASSUME Shapes, Sound, HeardInv, NEW i \in Inodes, TouchAway(i) PROVE Shapes' /\ HeardInv'
<1> DEFINE e == [kind |-> "book", dir |-> CHOOSE d \in Dirs : filed[d] = i]
<1>1. /\ Report(e, TRUE) /\ UNCHANGED <<tree, unswept, run, scan, trigger, stopped>>
      /\ e.kind = "book"
  BY DEF TouchAway, TouchOutside, treeVars
<1>2. \E d \in Dirs : filed[d] = i
  BY RangeFiled DEF TouchAway, TouchOutside, Delivers, Sound, Sets
<1>3. e \in Events
  BY <1>2 DEF Events
<1>4. events' \in Seq(Events) /\ (events' = events \/ events' = Append(events, e))
  BY <1>1, <1>3, ReportCases DEF Shapes
<1>5. \A d \in Dirs : Queued(d) => Queued(d)'
  BY <1>1, <1>3, <1>4, QueuedStays DEF Shapes, Present
<1>6. \A d \in Dirs : Owed(d) => Owed(d)'
  BY <1>1, <1>5 DEF Owed, Ahead
<1> QED BY <1>1, <1>4, <1>6 DEF Shapes, HeardInv

LEMMA DirsOwe ==
  ASSUME Shapes, HeardInv, NEW c \in Dirs, LoseDir(c) \/ \E i \in Inodes : MakeDir(c, i)
  PROVE  Shapes' /\ HeardInv'
<1>1. CASE LoseDir(c)
  <2> DEFINE e == [kind |-> "left", dir |-> c]
             ds == {d \in Under(c) : Present(d)}
  <2>1. /\ e \in Events /\ Report(e, Hear(c) \/ ParentHears(c)) /\ Changed(ds)
        /\ UNCHANGED <<run, scan, trigger, stopped>>
        /\ tree' = [d \in Dirs |-> IF d \in Under(c) THEN NoInode ELSE tree[d]]
        /\ \A d : Worth(e, d)'
    BY <1>1 DEF LoseDir, Delete, Leave, Events, Worth
  <2>2. ds \in SUBSET Dirs
    BY DEF Under, Children
  <2>3. tree' \in [Dirs -> Keys]
    BY <2>1 DEF Shapes, Keys
  <2>4. \A d \in Dirs \ ds : Present(d) => Present(d)'
    BY <2>1 DEF Present
  <2> HIDE DEF e, ds
  <2> QED BY <2>1, <2>2, <2>3, <2>4, FilesystemOwes
<1>2. ASSUME NEW i \in Inodes, MakeDir(c, i) PROVE Shapes' /\ HeardInv'
  <2> DEFINE e == [kind |-> "made", dir |-> c]
  <2>1. /\ e \in Events /\ Report(e, ParentHears(c)) /\ Changed({c})
        /\ UNCHANGED <<run, scan, trigger, stopped>> /\ tree' = [tree EXCEPT ![c] = i]
        /\ e.kind = "made" /\ e.dir = c
    BY <1>2 DEF MakeDir, Make, Events
  <2> HIDE DEF e
  <2>2. tree' \in [Dirs -> Keys] /\ Present(c)' /\ \A d \in Dirs \ {c} : Present(d) => Present(d)'
    BY <2>1 DEF Shapes, Keys, Present
  <2>3. Worth(e, c)'
    BY <2>1, <2>2 DEF Worth
  <2> QED BY <2>1, <2>2, <2>3, FilesystemOwes
<1> QED BY <1>1, <1>2

(* An unmount is heard by nobody, and what was heard of it before is moot    *)
LEMMA MountOwes == ASSUME Shapes, HeardInv, LoseMount PROVE Shapes' /\ HeardInv'
<1>1. /\ events' = events /\ tree' = [d \in Dirs |-> NoInode]
      /\ UNCHANGED <<run, scan, trigger, stopped>>
  BY DEF LoseMount, Unmount
<1>2. ~Reported
  BY <1>1 DEF Reported, Shapes
<1>3. \A d \in Dirs : unswept'[d] # "heard"
  BY <1>2 DEF LoseMount, Changed
<1>4. unswept' \in [Dirs -> States]
  BY DEF LoseMount, Changed, Shapes, States
<1> QED BY <1>1, <1>3, <1>4 DEF Shapes, HeardInv, Keys

(* Run takes an event out of the queue, and remembers one that was worth it  *)
LEMMA ReceiveOwes ==
  ASSUME Shapes, HeardInv, Timers, ProbeReceives \/ Receive
  PROVE  Shapes' /\ HeardInv'
<1>1. /\ events # <<>> /\ events' = Tail(events) /\ UNCHANGED <<tree, unswept, scan, stopped>>
  BY DEF ProbeReceives, Receive, treeVars
<1>2. /\ run.pending => run'.pending
      /\ Armed(run) => Armed(run)' \/ trigger'
      /\ trigger => trigger'
      /\ Qualifies(Head(events)) => run'.pending \/ Armed(run)' \/ trigger'
  <2>1. CASE ProbeReceives
    BY <2>1 DEF ProbeReceives, Timers, Armed
  <2>2. CASE Receive
    BY <2>2 DEF Receive, Timers, Armed, Arm, Fire, Fired, Poke
  <2> QED BY <2>1, <2>2
<1>3. events' \in Seq(Events) /\ Len(events') = Len(events) - 1
      /\ \A k \in 1..Len(events) : k # 1 => k - 1 \in 1..Len(events') /\ events'[k - 1] = events[k]
  BY <1>1 DEF Shapes
<1>4. ASSUME NEW d \in Dirs, Queued(d) PROVE Queued(d)' \/ Qualifies(Head(events))
  <2>1. PICK k \in 1..Len(events) : Worth(events[k], d)
    BY <1>4 DEF Queued
  <2>2. CASE k = 1
    BY <1>1, <2>1, <2>2 DEF Shapes, Worth, Qualifies
  <2>3. CASE k # 1
    <3>1. k - 1 \in 1..Len(events') /\ events'[k - 1] = events[k]
      BY <1>3, <2>3
    <3>2. Present(d)' <=> Present(d)
      BY <1>1 DEF Present
    <3> QED BY <2>1, <3>1, <3>2 DEF Queued, Worth
  <2> QED BY <2>2, <2>3
<1>5. ASSUME NEW d \in Dirs, Owed(d) PROVE Owed(d)'
  BY <1>1, <1>2, <1>4, <1>5 DEF Owed, Ahead
<1> QED BY <1>1, <1>3, <1>5 DEF Shapes, HeardInv

(* The rest of Run hands on what it was armed for                            *)
LEMMA RunOwes ==
  ASSUME Shapes, HeardInv, Timers,
         \/ ProbeEnds \/ Settled \/ Recheck \/ RecheckLocks \/ RecheckWalks \/ RecheckEnds
         \/ RunStops \/ Tick
  PROVE  Shapes' /\ HeardInv'
<1>1. UNCHANGED <<tree, events, unswept, scan, stopped>>
  BY DEF ProbeEnds, Settled, Recheck, RecheckLocks, RecheckWalks, RecheckEnds, RunStops, Tick,
     Begin, WalkStep, Stat, AddWatch, AddFails, AddClosed, List, Finish, watchVars, treeVars
<1>2. ~stopped => /\ run.pending => run'.pending \/ Armed(run)' \/ trigger'
                  /\ Armed(run) => Armed(run)' \/ trigger'
                  /\ trigger => trigger'
  <2>1. CASE ProbeEnds
    BY <2>1 DEF ProbeEnds, Timers, Armed, Arm
  <2>2. CASE Settled
    BY <2>2 DEF Settled, Fire, Fired, Poke, Timers, Armed
  <2>3. CASE Recheck \/ RecheckLocks
    BY <2>3 DEF Recheck, RecheckLocks, Timers, Armed
  <2>4. CASE RecheckWalks
    BY <2>4 DEF RecheckWalks
  <2>5. CASE RecheckEnds
    BY <2>5 DEF RecheckEnds, Fired, Poke, Timers, Armed
  <2>6. CASE RunStops
    BY <2>6 DEF RunStops
  <2>7. CASE Tick
    <3>1. run.settle - 1 \in Nat
      BY <2>7 DEF Tick, Timers, Armed
    <3> QED BY <2>7, <3>1 DEF Tick, Timers, Armed
  <2> QED BY <2>1, <2>2, <2>3, <2>4, <2>5, <2>6, <2>7
<1>3. \A d \in Dirs : Owed(d) /\ ~Queued(d) /\ ~stopped => Owed(d)'
  BY <1>1, <1>2 DEF Owed, Ahead
<1> QED BY <1>1, <1>3, OthersOwe DEF Shapes

(* The whole library lies under its root                                     *)
LEMMA AllUnderRoot == Dirs \subseteq Under(Root)
  BY DEF Under, Children

LEMMA ScanOwes ==
  ASSUME Shapes, HeardInv,
         TriggerWakes \/ TickerWakes \/ ScanStops \/ Woken \/ SweepEnds \/ ScanLocks
           \/ ScanWalks \/ ScanRefreshed
  PROVE  Shapes' /\ HeardInv'
<1>1. UNCHANGED <<tree, events, unswept, run, stopped>>
  BY DEF TriggerWakes, TickerWakes, ScanStops, Woken, SweepEnds, ScanLocks, ScanWalks,
     ScanRefreshed, Begin, WalkStep, Stat, AddWatch, AddFails, AddClosed, List, Finish,
     watchVars, treeVars
<1>2. ASSUME NEW d \in Dirs, ~stopped
      PROVE  /\ trigger => trigger' \/ scan'.pc = "woken"
             /\ scan.pc = "woken" => scan'.pc = "woken" \/ (scan'.pc = "sweep" /\ d \in Ahead')
             /\ scan.pc = "sweep" /\ d \in Ahead => scan'.pc = "sweep" /\ d \in Ahead'
  <2>1. CASE Woken
    <3>1. scan'.pc = "sweep" /\ scan'.todo = {Root} /\ trigger' = trigger /\ scan.pc = "woken"
      BY <1>2, <2>1 DEF Woken, Sweep, Shapes, ScanStates
    <3>2. d \in Ahead'
      BY <3>1, AllUnderRoot DEF Ahead
    <3> QED BY <3>1, <3>2
  <2>2. CASE TriggerWakes \/ TickerWakes \/ ScanStops
    BY <1>2, <2>2 DEF TriggerWakes, TickerWakes, ScanStops, Shapes, ScanStates
  <2>3. CASE SweepEnds
    BY <2>3 DEF SweepEnds, Ahead, Shapes, ScanStates
  <2>4. CASE ScanLocks \/ ScanWalks \/ ScanRefreshed
    BY <2>4 DEF ScanLocks, ScanWalks, ScanRefreshed, Shapes, ScanStates
  <2> QED BY <2>1, <2>2, <2>3, <2>4
<1>3. scan' \in ScanStates
  <2>1. CASE Woken
    BY <2>1 DEF Woken, Sweep, Shapes, ScanStates
  <2>2. CASE TriggerWakes \/ TickerWakes \/ ScanStops
    BY <2>2 DEF TriggerWakes, TickerWakes, ScanStops, Shapes, ScanStates
  <2>3. CASE SweepEnds
    BY <2>3 DEF SweepEnds, Shapes, ScanStates
  <2>4. CASE ScanLocks \/ ScanWalks \/ ScanRefreshed
    BY <2>4 DEF ScanLocks, ScanWalks, ScanRefreshed, Shapes, ScanStates
  <2> QED BY <2>1, <2>2, <2>3, <2>4
<1>4. \A d \in Dirs : Owed(d) /\ ~Queued(d) /\ ~stopped => Owed(d)'
  BY <1>1, <1>2 DEF Owed
<1> QED BY <1>1, <1>3, <1>4, OthersOwe

(* A sweep looks at a directory, or leaves the rest to a later one           *)
LEMMA SweepOwes ==
  ASSUME Shapes, HeardInv, SweepFails \/ \E c \in Dirs : SweepDir(c)
  PROVE  Shapes' /\ HeardInv'
<1>0. UNCHANGED <<tree, events, run, trigger, stopped>> /\ scan.pc = "sweep"
  BY DEF SweepFails, SweepDir, watchVars, treeVars
<1>1. \A d \in Dirs : Queued(d) <=> Queued(d)'
  BY <1>0 DEF Queued, Worth, Present
<1>2. CASE SweepFails
  <2>1. scan' \in ScanStates /\ unswept' \in [Dirs -> States]
    BY <1>2 DEF SweepFails, Shapes, ScanStates, States
  <2>2. \A d \in Dirs : unswept'[d] = "heard" => unswept[d] = "heard" /\ d \notin Ahead
    BY <1>2 DEF SweepFails
  <2> QED BY <1>0, <1>1, <2>1, <2>2 DEF Shapes, HeardInv, Owed
<1>3. ASSUME NEW c \in Dirs, SweepDir(c) PROVE Shapes' /\ HeardInv'
  <2>1. /\ scan'.pc = "sweep" /\ scan' \in ScanStates
        /\ scan'.todo = (scan.todo \ {c}) \cup {x \in Children(c) : Present(x)}
        /\ unswept' \in [Dirs -> States]
    <3>1. Children(c) \subseteq Dirs
      BY DEF Children
    <3> QED BY <1>0, <1>3, <3>1 DEF SweepDir, Shapes, ScanStates, States
  <2>2. \A d \in Dirs : unswept'[d] = "heard" => unswept[d] = "heard" /\ d \notin Lists(c)
    BY <1>3 DEF SweepDir
  <2>3. ASSUME NEW d \in Dirs, d \in Ahead, d \notin Lists(c) PROVE d \in Ahead'
    <3>1. PICK t \in scan.todo : d \in Under(t)
      BY <2>3 DEF Ahead
    <3>2. CASE t # c
      BY <2>1, <3>1, <3>2 DEF Ahead
    <3>3. CASE t = c
      <4>1. d # c
        BY <2>3 DEF Lists
      <4>2. PICK x \in Children(c) : d \in Under(x)
        BY <3>1, <3>3, <4>1 DEF Under
      <4>3. Present(x)
        BY <2>3, <4>2 DEF Lists
      <4> QED BY <2>1, <4>2, <4>3 DEF Ahead
    <3> QED BY <3>2, <3>3
  <2> QED BY <1>0, <1>1, <2>1, <2>2, <2>3 DEF Shapes, HeardInv, Owed
<1> QED BY <1>2, <1>3

(* Nothing the watcher heard is forgotten before a sweep has looked: for any *)
(* directories, queue and timers, through the startup probe, the debounce,   *)
(* the channel of one poke and the two callers of Refresh (Run, periodicScan)*)
THEOREM HeardStays == Spec => []HeardIsPending
<1>1. Init => Shapes /\ HeardInv
  <2> SUFFICES ASSUME Init PROVE Shapes /\ HeardInv
    OBVIOUS
  <2>1. Numbering \in [Dirs -> Inodes]
    BY DEF Numbering, Numberings
  <2>2. Shapes
    BY <2>1 DEF Init, InitWatch, Shapes, Keys, States, ScanStates
  <2>3. HeardInv
    BY DEF Init, HeardInv
  <2> QED BY <2>2, <2>3
<1>2. Shapes /\ HeardInv /\ Timers /\ Sound /\ [Next]_vars => Shapes' /\ HeardInv'
  <2> SUFFICES ASSUME Shapes, HeardInv, Timers, Sound, [Next]_vars PROVE Shapes' /\ HeardInv'
    OBVIOUS
  <2>1. CASE UNCHANGED vars
    BY <2>1 DEF vars, watchVars, treeVars, Shapes, HeardInv, Owed, Queued, Worth, Present, Ahead
  <2>2. CASE Stop
    <3>1. stopped' /\ UNCHANGED <<tree, events, unswept, scan>>
      BY <2>2 DEF Stop, treeVars
    <3> QED BY <3>1 DEF Shapes, HeardInv
  <2> QED
    BY <2>1, <2>2, TouchOwes, AwayOwes, DirsOwe, MountOwes, ReceiveOwes, RunOwes, ScanOwes,
       SweepOwes
    DEF Next, RunStep, ScanStep
<1>3. Shapes /\ HeardInv => HeardIsPending
  <2> SUFFICES ASSUME Shapes, HeardInv, ~stopped, NEW d \in Dirs, unswept[d] = "heard"
               PROVE  \/ events # <<>> \/ run.pending \/ Armed(run) \/ trigger
                      \/ scan.pc = "woken" \/ (scan.pc = "sweep" /\ d \in Ahead)
    BY DEF HeardIsPending
  <2>1. Owed(d)
    BY DEF HeardInv
  <2>2. Queued(d) => events # <<>>
    BY DEF Queued
  <2> QED BY <2>1, <2>2 DEF Owed
<1> QED BY <1>1, <1>2, <1>3, TimersHold, SoundHolds, PTL DEF Spec

-----------------------------------------------------------------------------
(* Exactness.  Whatever the directories do, no two have one inode, nothing   *)
(* is filed twice, and what is filed is alive, under its own name or outside *)
(* the library; while no Add was torn, registered agrees with it.            *)

Places ==
  /\ registered \in [Dirs -> Keys] /\ outside \subseteq Inodes
  /\ \A c, d \in Dirs : Present(c) /\ tree[c] = tree[d] => c = d
  /\ \A d \in Dirs : Present(d) => tree[d] \notin outside
  /\ \A d \in Dirs \ {Root} : Present(d) => Present(Parent[d])
  /\ \A d \in WatchList :
       /\ filed[d] \in kernel
       /\ filed[d] \in outside \/ \E e \in Dirs : filed[d] = tree[e]
       /\ \A e \in Dirs : (tree[e] = filed[d] => e = d) /\ (filed[e] = filed[d] => e = d)
       /\ ~torn => registered[d] = filed[d]

(* A Refresh that nothing has disturbed: what it has met is there, it has    *)
(* passed over nothing, and behind it everything is filed as it should be    *)
Undisturbed == walk.by # "none" /\ walk.calm /\ ~torn /\ ~closed

Faithful ==
  Undisturbed =>
    /\ \A d \in Met : Present(d)
    /\ Present(Root) => Root \in Met
    /\ \A d \in Dirs \ {Root} :
         Present(d) /\ Parent[d] \in walk.seen /\ ~(walk.phase # "walk" /\ Parent[d] = walk.at)
           => d \in Met
    /\ \A d \in walk.watched \ walk.seen : filed[d] # NoInode
    /\ \A d \in walk.seen : filed[d] = tree[d] \/ (walk.phase = "add" /\ d = walk.at)

LEMMA ReleasePlaces ==
  ASSUME Sets, Places, NEW ds \in SUBSET Dirs, Release(ds), UNCHANGED <<treeVars, torn>>
  PROVE  Places'
<1>1. /\ \A d \in Dirs : /\ filed'[d] = IF d \in ds THEN NoInode ELSE filed[d]
                         /\ registered'[d] = IF d \in ds THEN NoInode ELSE registered[d]
      /\ registered' \in [Dirs -> Keys]
      /\ UNCHANGED <<tree, outside, torn>>
  BY DEF Release, Places, Keys, treeVars
<1>2. WatchList' = WatchList \ ds
  BY <1>1 DEF WatchList
<1>3. ASSUME NEW d \in WatchList' PROVE filed'[d] \in kernel' /\ filed'[d] = filed[d]
  <2>1. d \in WatchList /\ d \notin ds /\ filed'[d] = filed[d] /\ d \in Dirs
    BY <1>1, <1>2, <1>3 DEF WatchList
  <2>2. \A e \in ds : filed[e] # filed[d]
    BY <2>1 DEF Places
  <2> QED BY <2>1, <2>2 DEF Release, Places
<1>4. \A d \in WatchList', e \in Dirs : filed'[e] = filed'[d] => e = d
  BY <1>1, <1>2, <1>3 DEF Places, WatchList
<1> QED BY <1>1, <1>2, <1>3, <1>4 DEF Places, Present, WatchList

LEMMA AddPlaces == ASSUME Sound, Places, AddWatch PROVE Places'
<1>1. /\ walk.at \in Dirs /\ tree[walk.at] \in Inodes /\ walk.key \in Keys
      /\ Present(walk.at) /\ UNCHANGED <<tree, outside>>
      /\ kernel' = kernel \cup {tree[walk.at]}
  BY DEF AddWatch, Sound, Ordered, Walks, Sets, Keys, Present, treeVars
<1>2. /\ \A d \in Dirs : filed'[d] = IF d = walk.at THEN tree[d] ELSE filed[d]
      /\ \A d \in Dirs : registered'[d] = IF d = walk.at THEN walk.key ELSE registered[d]
      /\ registered' \in [Dirs -> Keys]
      /\ ~torn' => ~torn /\ walk.key = tree[walk.at]
  BY <1>1 DEF AddWatch, Sound, Sets, Places
<1>3. WatchList' = WatchList \cup {walk.at}
  BY <1>1, <1>2 DEF WatchList, Present
<1>4. ASSUME NEW d \in WatchList'
      PROVE  /\ filed'[d] \in kernel'
             /\ filed'[d] \in outside \/ \E e \in Dirs : filed'[d] = tree[e]
             /\ \A e \in Dirs : (tree[e] = filed'[d] => e = d) /\ (filed'[e] = filed'[d] => e = d)
             /\ ~torn' => registered'[d] = filed'[d]
  <2>1. CASE d = walk.at
    <3>1. filed'[d] = tree[d] /\ Present(d)
      BY <1>1, <1>2, <2>1
    <3>2. ASSUME NEW e \in Dirs PROVE (tree[e] = tree[d] => e = d) /\ (filed'[e] = tree[d] => e = d)
      <4>1. tree[e] = tree[d] => e = d
        BY <1>1, <2>1, <3>1 DEF Places
      <4>2. CASE filed'[e] = tree[d] /\ e # d
        <5>1. filed[e] = tree[d] /\ filed[e] # NoInode
          BY <1>2, <2>1, <3>1, <4>2 DEF Present
        <5> QED BY <1>1, <2>1, <4>2, <5>1 DEF Places, WatchList
      <4> QED BY <4>1, <4>2
    <3> QED BY <1>1, <1>2, <2>1, <3>1, <3>2
  <2>2. CASE d # walk.at
    <3>1. d \in WatchList /\ d \in Dirs /\ filed'[d] = filed[d] /\ registered'[d] = registered[d]
      BY <1>2, <1>3, <2>2 DEF WatchList
    <3>2. filed'[walk.at] # filed[d]
      BY <1>1, <1>2, <2>2, <3>1 DEF Places
    <3> QED BY <1>1, <1>2, <3>1, <3>2 DEF Places
  <2> QED BY <2>1, <2>2
<1> QED BY <1>1, <1>2, <1>4 DEF Places, Present, WatchList

(* Only what is filed goes: a deletion, an unmount, the closing of the handle*)
LEMMA DeletePlaces ==
  ASSUME Sets, Places, NEW d \in Dirs, Delete(d) \/ Leave(d) PROVE Places'
<1>1. /\ tree' = [c \in Dirs |-> IF c \in Under(d) THEN NoInode ELSE tree[c]]
      /\ UNCHANGED <<registered, torn>>
  BY DEF Delete, Leave
<1>2. /\ \A c \in Dirs : Present(c)' <=> Present(c) /\ c \notin Under(d)
      /\ \A c \in Dirs : Present(c)' => tree'[c] = tree[c]
  BY <1>1 DEF Present
<1>3. \A c \in Dirs \ {Root} : Present(c)' => Present(Parent[c])'
  <2> SUFFICES ASSUME NEW c \in Dirs \ {Root}, Present(c), c \notin Under(d)
               PROVE  Present(Parent[c]) /\ Parent[c] \notin Under(d)
    BY <1>2
  <2>1. Present(Parent[c])
    BY DEF Places
  <2>2. Parent[c] \notin Under(d)
    BY DEF Under, Children
  <2> QED BY <2>1, <2>2
<1>4. \A b, c \in Dirs : Present(b)' /\ tree'[b] = tree'[c] => b = c
  <2> SUFFICES ASSUME NEW b \in Dirs, NEW c \in Dirs, Present(b)', tree'[b] = tree'[c] PROVE b = c
    OBVIOUS
  <2>1. Present(c)'
    BY DEF Present
  <2> QED BY <1>2, <2>1 DEF Places
<1>5. CASE Delete(d)
  <2> DEFINE freed == {tree[c] : c \in Under(d)}
  <2>1. /\ kernel' = kernel \ freed /\ outside' = outside
        /\ filed' = [c \in Dirs |-> IF filed[c] \in freed THEN NoInode ELSE filed[c]]
    BY <1>5 DEF Delete
  <2>2. \A c \in Under(d) : tree[c] \in freed
    OBVIOUS
  <2> HIDE DEF freed
  <2>3. ASSUME NEW c \in WatchList'
        PROVE  c \in WatchList /\ filed'[c] = filed[c] /\ filed[c] \notin freed
    BY <2>1, <2>3 DEF WatchList
  <2>4. ASSUME NEW c \in WatchList'
        PROVE  /\ filed'[c] \in kernel'
               /\ filed'[c] \in outside' \/ \E e \in Dirs : filed'[c] = tree'[e]
               /\ \A e \in Dirs : (tree'[e] = filed'[c] => e = c) /\ (filed'[e] = filed'[c] => e = c)
               /\ ~torn' => registered'[c] = filed'[c]
    <3>1. c \in Dirs /\ filed[c] # NoInode /\ c \in WatchList /\ filed'[c] = filed[c]
          /\ filed[c] \notin freed
      BY <2>3 DEF WatchList
    <3>2. filed'[c] \in outside' \/ \E e \in Dirs : filed'[c] = tree'[e]
      BY <1>1, <2>1, <2>2, <3>1 DEF Places
    <3>3. \A e \in Dirs : (tree'[e] = filed'[c] => e = c) /\ (filed'[e] = filed'[c] => e = c)
      BY <1>1, <2>1, <3>1 DEF Places
    <3> QED BY <1>1, <2>1, <3>1, <3>2, <3>3 DEF Places
  <2> QED BY <1>1, <1>2, <1>3, <1>4, <2>1, <2>4 DEF Places
<1>6. CASE Leave(d)
  <2>1. /\ UNCHANGED <<kernel, filed>>
        /\ outside' = outside \cup ({tree[c] : c \in Under(d)} \ {NoInode})
    BY <1>6 DEF Leave
  <2>2. Under(d) \subseteq Dirs
    BY DEF Under, Children
  <2>3. outside' \subseteq Inodes
    BY <2>1, <2>2 DEF Places, Sets, Keys
  <2>4. \A c \in Dirs : Present(c)' => tree'[c] \notin outside'
    <3> SUFFICES ASSUME NEW c \in Dirs, Present(c), c \notin Under(d) PROVE tree[c] \notin outside'
      BY <1>2
    <3>1. \A b \in Under(d) : tree[b] # tree[c]
      BY <2>2 DEF Places
    <3> QED BY <2>1, <3>1 DEF Places
  <2>5. ASSUME NEW c \in WatchList'
        PROVE  /\ filed'[c] \in kernel'
               /\ filed'[c] \in outside' \/ \E e \in Dirs : filed'[c] = tree'[e]
               /\ \A e \in Dirs : (tree'[e] = filed'[c] => e = c) /\ (filed'[e] = filed'[c] => e = c)
               /\ ~torn' => registered'[c] = filed'[c]
    <3>1. c \in WatchList /\ c \in Dirs /\ filed[c] # NoInode
      BY <2>1, <2>5 DEF WatchList
    <3>2. filed[c] \in outside' \/ \E e \in Dirs : filed[c] = tree'[e]
      <4>1. CASE filed[c] \in outside
        BY <2>1, <4>1
      <4>2. ASSUME NEW e \in Dirs, filed[c] = tree[e] PROVE filed[c] \in outside' \/ filed[c] = tree'[e]
        BY <1>1, <2>1, <3>1, <4>2
      <4> QED BY <3>1, <4>1, <4>2 DEF Places
    <3>3. \A e \in Dirs : tree'[e] = filed[c] => e = c
      BY <1>1, <3>1 DEF Places
    <3> QED BY <1>1, <2>1, <3>1, <3>2, <3>3 DEF Places
  <2> QED BY <1>1, <1>2, <1>3, <1>4, <2>3, <2>4, <2>5 DEF Places
<1> QED BY <1>5, <1>6

LEMMA MakePlaces == ASSUME Sets, Places, NEW d \in Dirs, NEW i \in Inodes, Make(d, i) PROVE Places'
<1>1. /\ tree' = [tree EXCEPT ![d] = i] /\ ~Present(d) /\ (d # Root => Present(Parent[d]))
      /\ i \notin outside /\ \A c \in Dirs : tree[c] # i
      /\ UNCHANGED <<outside, kernel, filed, registered, torn>>
  <2>1. Range(tree) = {tree[c] : c \in Dirs}
    BY RangeFiled DEF Sets
  <2> QED BY <2>1 DEF Make
<1>2. \A c \in Dirs : tree'[c] = IF c = d THEN i ELSE tree[c]
  BY <1>1 DEF Sets
<1>3. \A c \in Dirs : Present(c)' <=> Present(c) \/ c = d
  BY <1>1, <1>2 DEF Present
<1>4. ASSUME NEW c \in WatchList'
      PROVE  /\ filed[c] \in outside \/ \E e \in Dirs : filed[c] = tree'[e]
             /\ \A e \in Dirs : tree'[e] = filed[c] => e = c
  <2>1. c \in WatchList /\ c \in Dirs /\ filed[c] # NoInode /\ tree[d] = NoInode
    BY <1>1, <1>4 DEF WatchList, Present
  <2>2. filed[c] # i
    BY <1>1, <2>1 DEF Places
  <2>3. filed[c] \in outside \/ \E e \in Dirs : filed[c] = tree'[e]
    BY <1>2, <2>1 DEF Places
  <2> QED BY <1>2, <2>1, <2>2, <2>3 DEF Places
<1>5. \A c, e \in Dirs : Present(c)' /\ tree'[c] = tree'[e] => c = e
  BY <1>1, <1>2, <1>3 DEF Places
<1>6. \A c \in Dirs : Present(c)' => tree'[c] \notin outside
  BY <1>1, <1>2, <1>3 DEF Places
<1>7. \A c \in Dirs \ {Root} : Present(c)' => Present(Parent[c])'
  BY <1>1, <1>3 DEF Places
<1> QED BY <1>1, <1>4, <1>5, <1>6, <1>7 DEF Places, WatchList

(* Nothing is filed any more, the library is empty or as it was              *)
LEMMA EmptyPlaces ==
  ASSUME Places, \A d \in Dirs : filed'[d] = NoInode, UNCHANGED registered,
         UNCHANGED treeVars \/ (tree' = [d \in Dirs |-> NoInode] /\ outside' = {})
  PROVE  Places'
<1>1. WatchList' = {}
  BY DEF WatchList
<1> QED BY <1>1 DEF Places, Present, treeVars

LEMMA SamePlaces ==
  ASSUME Places, UNCHANGED <<tree, outside, kernel, filed, registered, torn>> PROVE Places'
  BY DEF Places, Present, WatchList

-----------------------------------------------------------------------------
LEMMA StatFaithful ==
  ASSUME Sound, Places, Faithful, walk.by # "none", NEW d \in Dirs, Stat(d) PROVE Faithful'
<1>1. /\ d \in walk.todo /\ d \notin walk.seen /\ walk.phase = "walk"
      /\ UNCHANGED <<tree, torn, closed>>
  BY DEF Stat, Sound, Ordered, treeVars
<1> SUFFICES ASSUME Undisturbed' PROVE Faithful'
  BY DEF Faithful
<1>2. walk'.calm = walk.calm /\ walk'.by = walk.by /\ walk'.watched = walk.watched
  BY DEF Stat, Seen, Sound, Walks
<1>3. Undisturbed
  BY <1>1, <1>2 DEF Undisturbed
<1>4. Present(d) /\ d \in Met
  BY <1>1, <1>3 DEF Faithful, Met
<1>5. PICK phase \in {"add", "list"} : Seen(d, phase)
  BY <1>4 DEF Stat
<1>6. /\ walk'.seen = walk.seen \cup {d} /\ walk'.todo = walk.todo \ {d} /\ walk'.at = d
      /\ walk'.phase = phase
  BY <1>5 DEF Seen, Sound, Walks
<1>7. Met' = Met
  BY <1>1, <1>6 DEF Met
<1>8. \A c \in Dirs : c # d => filed'[c] = filed[c]
  BY <1>4 DEF Stat, Release
<1>9. phase = "list" => filed'[d] = tree[d]
  <2> SUFFICES ASSUME phase = "list" PROVE filed'[d] = tree[d]
    OBVIOUS
  <2>1. d \in walk.watched /\ registered[d] = tree[d] /\ filed' = filed
    BY <1>4, <1>5, <1>6 DEF Stat, Seen, Sound, Walks
  <2>2. filed[d] # NoInode
    BY <1>1, <1>3, <2>1 DEF Faithful
  <2>3. registered[d] = filed[d]
    BY <1>3, <2>2 DEF Places, WatchList, Undisturbed
  <2> QED BY <2>1, <2>3
<1>10. \A c \in walk'.seen : filed'[c] = tree'[c] \/ (walk'.phase = "add" /\ c = walk'.at)
  <2> TAKE c \in walk'.seen
  <2>1. c \in Dirs
    BY <1>6 DEF Sound, Walks
  <2>2. CASE c = d
    BY <1>1, <1>5, <1>6, <1>9, <2>2
  <2>3. CASE c # d
    BY <1>1, <1>3, <1>6, <1>8, <2>1, <2>3 DEF Faithful
  <2> QED BY <2>2, <2>3
<1>11. \A c \in walk'.watched \ walk'.seen : filed'[c] # NoInode
  <2>1. walk.watched \subseteq Dirs
    BY DEF Sound, Walks
  <2> QED BY <1>2, <1>3, <1>6, <1>8, <2>1 DEF Faithful
<1>12. \A c \in Met' : Present(c)'
  BY <1>1, <1>3, <1>7 DEF Faithful, Present
<1>13. Present(Root)' => Root \in Met'
  BY <1>1, <1>3, <1>7 DEF Faithful, Present
<1>14. \A c \in Dirs \ {Root} :
         Present(c)' /\ Parent[c] \in walk'.seen /\ ~(walk'.phase # "walk" /\ Parent[c] = walk'.at)
           => c \in Met'
  BY <1>1, <1>3, <1>5, <1>6, <1>7 DEF Faithful, Present
<1> QED BY <1>10, <1>11, <1>12, <1>13, <1>14 DEF Faithful

LEMMA WalkFaithful ==
  ASSUME Sound, Places, Faithful, NEW who \in {"scan", "run"}, WalkStep(who) PROVE Faithful'
<1>0. walk.by = who /\ walk.by # "none"
  BY DEF WalkStep
<1>1. CASE \E d \in Dirs : Stat(d)
  BY <1>0, <1>1, StatFaithful
<1>2. CASE AddFails \/ AddClosed
  <2>1. walk'.calm = FALSE
    BY <1>2 DEF AddFails, AddClosed, Sound, Walks
  <2> QED BY <2>1 DEF Faithful, Undisturbed
<1>3. CASE AddWatch
  <2>1. /\ walk.phase = "add" /\ walk.at \in Dirs /\ walk.at \in walk.seen
        /\ UNCHANGED <<tree, closed>> /\ (~torn' => ~torn)
        /\ walk'.phase = "list" /\ walk'.by = walk.by /\ walk'.calm = walk.calm
        /\ walk'.watched = walk.watched /\ walk'.seen = walk.seen
        /\ walk'.todo = walk.todo /\ walk'.at = walk.at
    BY <1>3 DEF AddWatch, Sound, Ordered, Walks, treeVars
  <2>2. \A d \in Dirs : filed'[d] = IF d = walk.at THEN tree[d] ELSE filed[d]
    BY <1>3, <2>1 DEF AddWatch, Sound, Sets
  <2>3. walk.seen \subseteq Dirs /\ walk.watched \subseteq Dirs
    BY DEF Sound, Walks
  <2>4. Met' = Met
    BY <2>1 DEF Met
  <2> QED BY <2>1, <2>2, <2>3, <2>4 DEF Faithful, Undisturbed, Present
<1>4. CASE List
  <2>1. /\ walk.phase = "list" /\ walk.at \in walk.seen /\ walk.at \in Dirs
        /\ UNCHANGED <<tree, filed, closed, torn>>
        /\ walk'.phase = "walk" /\ walk'.by = walk.by /\ walk'.calm = walk.calm
        /\ walk'.watched = walk.watched /\ walk'.seen = walk.seen
        /\ walk'.todo = walk.todo \cup {c \in Children(walk.at) : Present(c)}
    BY <1>4 DEF List, Sound, Ordered, Walks, treeVars
  <2>2. Met' = Met \cup {c \in Children(walk.at) : Present(c)}
    BY <2>1 DEF Met
  <2>3. \A c \in Dirs \ {Root} : Parent[c] = walk.at => c \in Children(walk.at)
    BY DEF Children
  <2> QED BY <2>1, <2>2, <2>3 DEF Faithful, Undisturbed, Present
<1> QED BY <1>1, <1>2, <1>3, <1>4 DEF WalkStep

LEMMA BeginFaithful == ASSUME Sound, NEW who \in {"scan", "run"}, Begin(who) PROVE Faithful'
<1>1. /\ walk'.watched = WatchList /\ walk'.seen = {} /\ walk'.phase = "walk"
      /\ walk'.todo = (IF Present(Root) THEN {Root} ELSE {})
      /\ UNCHANGED <<tree, filed>>
  BY DEF Begin, NoWalk, treeVars
<1> QED BY <1>1 DEF Faithful, Met, WatchList, Present

(* The end of an undisturbed Refresh                                         *)
LEMMA FinishExact ==
  ASSUME Sound, Sound', Places, Places', Faithful, NEW who, Finish(who), Undisturbed
  PROVE  Exact
<1>1. /\ walk.todo = {} /\ walk.phase = "walk" /\ UNCHANGED tree /\ Met = walk.seen
      /\ Release(Gone)
  BY DEF Finish, treeVars, Met
<1>2. \A d \in Dirs : filed'[d] = IF d \in Gone THEN NoInode ELSE filed[d]
  BY <1>1 DEF Release
<1>3. ASSUME NEW d \in Dirs, Present(d) PROVE d \in walk.seen
  <2>1. \A c \in Dirs \ {Root} : Present(c) => Present(Parent[c]) /\ Parent[c] \in Dirs
    BY DEF Places
  <2>2. Present(Root) => Root \in walk.seen
    BY <1>1 DEF Faithful
  <2>3. \A c \in Dirs \ {Root} : Present(c) /\ Parent[c] \in walk.seen => c \in walk.seen
    BY <1>1 DEF Faithful
  <2>4. CASE d = Root
    BY <1>3, <2>2, <2>4
  <2>5. CASE d # Root /\ Parent[d] = Root
    BY <1>3, <2>1, <2>2, <2>3, <2>5
  <2>6. CASE d # Root /\ Parent[d] # Root
    <3>1. Present(Parent[d]) /\ Parent[d] \in Dirs \ {Root} /\ Parent[Parent[d]] = Root
      BY <1>3, <2>1, <2>6
    <3>2. Parent[d] \in walk.seen
      BY <2>1, <2>2, <2>3, <3>1
    <3> QED BY <1>3, <2>3, <2>6, <3>2
  <2> QED BY <2>4, <2>5, <2>6
<1>4. ASSUME NEW d \in Dirs PROVE filed'[d] = tree[d]
  <2>1. CASE Present(d)
    <3>1. d \in walk.seen /\ d \notin Gone
      BY <1>3, <2>1 DEF Gone
    <3>2. filed[d] = tree[d]
      BY <1>1, <3>1 DEF Faithful
    <3> QED BY <1>2, <3>1, <3>2
  <2>2. CASE ~Present(d)
    <3>1. d \notin walk.seen
      BY <1>1, <2>2 DEF Faithful
    <3>2. filed[d] # NoInode => d \in Gone
      BY <3>1 DEF Gone, Places, WatchList, Undisturbed
    <3> QED BY <1>2, <2>2, <3>2 DEF Present
  <2> QED BY <2>1, <2>2
<1>5. filed' = tree
  BY <1>1, <1>4 DEF Sound, Sets
<1>6. kernel' = Range(tree) \ {NoInode}
  <2>1. Range(tree) = {tree[d] : d \in Dirs}
    BY RangeFiled DEF Sound, Sets
  <2>2. kernel' \subseteq {tree[d] : d \in Dirs} /\ kernel' \subseteq Inodes
    BY <1>5 DEF Sound, Sets
  <2>3. \A d \in Dirs : tree[d] # NoInode => tree[d] \in kernel'
    BY <1>5 DEF Places, WatchList
  <2> QED BY <2>1, <2>2, <2>3
<1> QED BY <1>5, <1>6 DEF Exact

LEMMA PlacesInit == Init => Places /\ Faithful
<1> SUFFICES ASSUME Init PROVE Places /\ Faithful
  OBVIOUS
<1>1. Numbering \in Numberings
  BY DEF Numbering
<1>2. PICK there \in {{Root}, Dirs} :
        tree = [d \in Dirs |-> IF d \in there THEN Numbering[d] ELSE NoInode]
  BY DEF Init, InitWatch
<1>3. /\ filed = tree /\ registered = tree /\ outside = {} /\ walk = NoWalk
      /\ kernel = Range(tree) \ {NoInode}
  BY DEF Init, InitWatch
<1>4. tree \in [Dirs -> Keys]
  BY <1>1, <1>2 DEF Numberings, Keys
<1>5. \A c, d \in Dirs : Present(c) /\ tree[c] = tree[d] => c = d
  BY <1>1, <1>2 DEF Numberings, Present
<1>6. \A d \in Dirs \ {Root} : Present(d) => Present(Parent[d])
  BY <1>1, <1>2 DEF Numberings, Present
<1>7. Range(tree) = {tree[d] : d \in Dirs}
  BY <1>4, RangeFiled
<1>8. Places
  BY <1>3, <1>4, <1>5, <1>6, <1>7 DEF Places, WatchList, Present
<1>9. Faithful
  BY <1>3 DEF NoWalk, Faithful, Undisturbed
<1> QED BY <1>8, <1>9

(* Every step but those of a Refresh leaves the places in order and the walk *)
(* undisturbed or disturbed                                                  *)
LEMMA PlacesStep ==
  Sound /\ Places /\ Faithful /\ [Next]_vars => Places' /\ Faithful'
<1> SUFFICES ASSUME Sound, Places, Faithful, [Next]_vars PROVE Places' /\ Faithful'
  OBVIOUS
<1>0. Sets
  BY DEF Sound
<1>1. ASSUME UNCHANGED <<treeVars, setVars>> PROVE Places' /\ Faithful'
  <2>1. UNCHANGED <<tree, outside, kernel, filed, registered, closed, walk, torn>>
    BY <1>1 DEF treeVars, setVars
  <2> QED BY <2>1, SamePlaces DEF Faithful, Undisturbed, Met, Present
<1>2. ASSUME UNCHANGED watchVars PROVE Places' /\ Faithful'
  BY <1>1, <1>2 DEF watchVars
<1>3. ASSUME Stir PROVE Faithful'
  <2>1. walk'.calm = FALSE
    BY <1>3 DEF Stir, Sound, Walks
  <2> QED BY <2>1 DEF Faithful, Undisturbed
<1>4. CASE \E d \in Dirs : TouchBook(d) \/ LoseDir(d)
  <2>1. CASE \E d \in Dirs : TouchBook(d)
    BY <1>1, <2>1 DEF TouchBook, Touch
  <2>2. CASE \E d \in Dirs : LoseDir(d)
    BY <1>0, <1>3, <2>2, DeletePlaces DEF LoseDir, Delete, Leave
  <2> QED BY <1>4, <2>1, <2>2
<1>5. CASE \E i \in Inodes : TouchAway(i) \/ \E d \in Dirs : MakeDir(d, i)
  <2>1. CASE \E i \in Inodes : TouchAway(i)
    BY <1>1, <2>1 DEF TouchAway, TouchOutside
  <2>2. CASE \E i \in Inodes, d \in Dirs : MakeDir(d, i)
    <3>1. PICK i \in Inodes, d \in Dirs : Make(d, i)
      BY <2>2 DEF MakeDir
    <3>2. Places'
      BY <1>0, <3>1, MakePlaces
    <3>3. Stir
      BY <3>1 DEF Make
    <3> QED BY <1>3, <3>2, <3>3
  <2> QED BY <1>5, <2>1, <2>2
<1>6. CASE LoseMount
  BY <1>3, <1>6, EmptyPlaces DEF LoseMount, Unmount
<1>7. CASE Stop \/ ProbeReceives \/ Receive \/ SweepFails
  BY <1>1, <1>7 DEF Stop, ProbeReceives, Receive, SweepFails
<1>8. CASE \/ Recheck \/ Settled \/ ProbeEnds \/ Tick \/ TickerWakes \/ TriggerWakes \/ ScanStops
           \/ Woken \/ SweepEnds \/ \E d \in Dirs : SweepDir(d)
  BY <1>2, <1>8 DEF Recheck, Settled, ProbeEnds, Tick, TickerWakes, TriggerWakes, ScanStops,
     Woken, SweepEnds, SweepDir
<1>9. CASE RunStops
  <2>1. closed' /\ \A d \in Dirs : filed'[d] = NoInode
    BY <1>9 DEF RunStops, Close
  <2> QED BY <1>9, <2>1, EmptyPlaces DEF RunStops, Faithful, Undisturbed
<1>10. ASSUME NEW who \in {"scan", "run"}, Begin(who) PROVE Places' /\ Faithful'
  BY <1>10, BeginFaithful, SamePlaces DEF Begin, treeVars
<1>11. ASSUME NEW who \in {"scan", "run"}, Finish(who) PROVE Places' /\ Faithful'
  <2>1. walk'.by = "none" /\ Gone \in SUBSET Dirs
    BY <1>11 DEF Finish, NoWalk, Gone
  <2> QED BY <1>0, <1>11, <2>1, ReleasePlaces DEF Finish, Faithful, Undisturbed
<1>12. ASSUME NEW who \in {"scan", "run"}, WalkStep(who) PROVE Places' /\ Faithful'
  <2>1. ASSUME NEW d \in Dirs, Stat(d) PROVE Places'
    <3>2. /\ UNCHANGED treeVars /\ UNCHANGED torn
          /\ UNCHANGED <<kernel, filed, registered>> \/ Release({d})
      BY <2>1 DEF Stat
    <3>3. CASE UNCHANGED <<kernel, filed, registered>>
      <4>1. UNCHANGED <<tree, outside, kernel, filed, registered, torn>>
        BY <3>2, <3>3 DEF treeVars
      <4> QED BY <4>1, SamePlaces
    <3>4. CASE Release({d})
      <4>1. {d} \in SUBSET Dirs /\ UNCHANGED <<treeVars, torn>>
        BY <3>2
      <4> QED BY <1>0, <3>4, <4>1, ReleasePlaces
    <3> QED BY <3>2, <3>3, <3>4
  <2>2. ASSUME AddFails \/ AddClosed \/ List PROVE Places'
    <3>1. UNCHANGED <<tree, outside, kernel, filed, registered, torn>>
      BY <2>2 DEF AddFails, AddClosed, List, treeVars
    <3> QED BY <3>1, SamePlaces
  <2>3. Places'
    BY <1>12, <2>1, <2>2, AddPlaces DEF WalkStep
  <2> QED BY <1>12, <2>3, WalkFaithful
<1>13. CASE RecheckLocks \/ RecheckWalks \/ RecheckEnds \/ ScanLocks \/ ScanWalks \/ ScanRefreshed
  BY <1>10, <1>11, <1>12, <1>13
  DEF RecheckLocks, RecheckWalks, RecheckEnds, ScanLocks, ScanWalks, ScanRefreshed
<1>14. CASE UNCHANGED vars
  BY <1>2, <1>14 DEF vars
<1> QED
  BY <1>4, <1>5, <1>6, <1>7, <1>8, <1>9, <1>13, <1>14 DEF Next, RunStep, ScanStep

(* Only Finish ends a Refresh                                                *)
LEMMA EndsByFinish ==
  ASSUME Sound, [Next]_vars, walk.by # "none", walk'.by = "none"
  PROVE  \E who \in {"scan", "run"} : Finish(who)
<1>1. walk' # walk
  OBVIOUS
<1>2. ASSUME Stir PROVE FALSE
  BY <1>2 DEF Stir, Sound, Walks
<1>3. ASSUME NEW who \in {"scan", "run"}, Begin(who) \/ WalkStep(who) PROVE FALSE
  BY <1>3 DEF Begin, WalkStep, Stat, Seen, AddWatch, AddFails, AddClosed, List, Sound, Walks
<1>4. CASE RecheckLocks \/ RecheckWalks \/ ScanLocks \/ ScanWalks
  BY <1>3, <1>4 DEF RecheckLocks, RecheckWalks, ScanLocks, ScanWalks
<1>5. CASE RecheckEnds \/ ScanRefreshed
  BY <1>5 DEF RecheckEnds, ScanRefreshed
<1>6. CASE \/ \E d \in Dirs : TouchBook(d) \/ LoseDir(d)
           \/ \E i \in Inodes : TouchAway(i) \/ \E d \in Dirs : MakeDir(d, i)
           \/ LoseMount
  BY <1>1, <1>2, <1>6 DEF TouchBook, Touch, LoseDir, Delete, Leave, TouchAway, TouchOutside,
     MakeDir, Make, LoseMount, Unmount, setVars
<1>7. CASE \/ Stop \/ ProbeReceives \/ Receive \/ SweepFails \/ Recheck \/ Settled \/ ProbeEnds
           \/ Tick \/ TickerWakes \/ TriggerWakes \/ ScanStops \/ Woken \/ SweepEnds \/ RunStops
           \/ (\E d \in Dirs : SweepDir(d)) \/ UNCHANGED vars
  BY <1>1, <1>7 DEF Stop, ProbeReceives, Receive, SweepFails, Recheck, Settled, ProbeEnds, Tick,
     TickerWakes, TriggerWakes, ScanStops, Woken, SweepEnds, RunStops, SweepDir, vars,
     watchVars, setVars
<1> QED BY <1>4, <1>5, <1>6, <1>7 DEF Next, RunStep, ScanStep

(* A Refresh the directories leave in peace puts the set of watches right,   *)
(* whatever it had become, for any tree of that depth and any inodes that    *)
(* are given out again (Refresh).                                            *)
THEOREM ExactWhenCalm == Spec => RefreshIsExact
<1>1. Sound /\ Sound' /\ Places /\ Places' /\ Faithful /\ [Next]_vars
        => [Calm /\ ~torn => Exact]_vars
  <2> SUFFICES ASSUME Sound, Sound', Places, Places', Faithful, [Next]_vars, Calm, ~torn PROVE Exact
    OBVIOUS
  <2>1. \E who \in {"scan", "run"} : Finish(who)
    BY EndsByFinish DEF Calm
  <2> QED BY <2>1, FinishExact DEF Calm, Undisturbed
<1> QED BY <1>1, PlacesInit, PlacesStep, SoundHolds, PTL DEF Spec, RefreshIsExact

-----------------------------------------------------------------------------
(* The process the watcher and the scan loop are goroutines of: for any      *)
(* number of directories, requests and runs of it.                           *)

-----------------------------------------------------------------------------
(* The end of a run                                                          *)

Ends == {"shutdown", "drain", "wait", "close", "exit"}

(* Those already waited for.                                                 *)
Behind == {Order[i] : i \in 1..(next - 1)}

Ended ==
  /\ next \in 1..5
  /\ task \in [Tasks -> TaskStates]
  /\ requests \in [Requests -> RequestStates]
  /\ pc \in Ends /\ cause = "signal" => listener = "shut"
  /\ deadline = "passed" \/
       /\ pc = "wait" => \A t \in Behind : IsGone(t)
       /\ pc \in {"close", "exit"} => \A t \in Tasks : IsGone(t)
       /\ pc \in Ends \ {"shutdown"} /\ cause = "signal"
            => \A r \in Requests : requests[r] = "idle"

(* A goroutine that is gone stays gone once the run is ending                *)
LEMMA GoneStays ==
  ASSUME Ended, ServerNext, pc \in Ends, pc' # "down", NEW t \in Tasks, IsGone(t)
  PROVE  IsGone(t)'
<1> USE DEF IsGone, Ends, Ended, Tasks, Workers
<1>1. CASE Start \/ StartSender \/ StartEnrichment \/ Exit \/ Kill
  BY <1>1 DEF Start, StartSender, StartEnrichment, Exit, Kill, Down
<1>2. CASE \E u \in Tasks : TaskStops(u) \/ Claim(u) \/ FinishRow(u)
  BY <1>2 DEF TaskStops, Claim, FinishRow, Is, Goes
<1>3. CASE Scanning
  BY <1>3 DEF Scanning, FindNothing, Look, Refresh, Wake, AfterWake, SweepReturns,
     Is, Goes
<1>4. CASE \/ Signal \/ DeadlinePasses \/ Bind \/ ServeFails \/ ServeReturns
           \/ Expire \/ JanitorSweeps
           \/ TakeFailure \/ TakeSignal \/ ShutdownReturns \/ Drain \/ Waited \/ CloseDB
           \/ \E r \in Requests : Serving(r)
  <2>1. task' = task
    BY <1>4 DEF Signal, DeadlinePasses, Bind, ServeFails, ServeReturns, Expire,
       JanitorSweeps, TakeFailure, TakeSignal, ShutdownReturns, Drain, Waited,
       Pass, CloseDB, Serving, Arrive, Confirm, OpenStaged, Answer, OnlyHTTP,
       OnlyRequests
  <2> QED BY <2>1
<1> QED BY <1>1, <1>2, <1>3, <1>4 DEF ServerNext, Main, Ending

LEMMA OrderIsTasks ==
  /\ Len(Order) = 5
  /\ Tasks = {Order[i] : i \in 1..5}
  /\ \A i \in 1..5 : Order[i] \in Tasks
BY DEF Order, Tasks, Workers

LEMMA EndedInit == ServerInit => Ended
BY DEF ServerInit, Ended, Ends, Tasks, Workers, TaskStates, RequestStates

LEMMA MainKeeps == ASSUME Ended, ServerNext, Main \/ Kill PROVE Ended'
<1> USE OrderIsTasks DEF Ended, Ends, Behind
<1>1. CASE StartSender
  BY <1>1 DEF StartSender, Goes, TaskStates, mainVars, importVars, httpVars
<1>2. CASE StartEnrichment
  BY <1>2 DEF StartEnrichment, TaskStates, mainVars, importVars, httpVars
<1>3. CASE TakeFailure
  BY <1>3 DEF TakeFailure, importVars
<1>4. CASE TakeSignal
  BY <1>4 DEF TakeSignal, importVars
<1>5. CASE ShutdownReturns
  BY <1>5 DEF ShutdownReturns, importVars, httpVars
<1>6. CASE Drain
  BY <1>6 DEF Drain, importVars
<1>7. CASE Waited
  <2> SUFFICES ASSUME deadline # "passed" PROVE Ended'
    BY <1>7 DEF Waited, Pass, importVars, httpVars
  <2>1. /\ \A t \in Behind : IsGone(t)
        /\ IsGone(Order[next]) /\ pc = "wait"
        /\ UNCHANGED <<task, requests, listener, cause, deadline>>
    BY <1>7 DEF Waited, Pass, importVars, httpVars
  <2>2. CASE next < 5
    <3>1. next' = next + 1 /\ pc' = pc
      BY <1>7, <2>2 DEF Waited, Pass
    <3>2. Behind' = Behind \cup {Order[next]}
      BY <3>1 DEF Order
    <3> QED BY <2>1, <2>2, <3>1, <3>2 DEF IsGone
  <2>3. CASE next = 5
    <3>1. pc' = "close" /\ next' = next
      BY <1>7, <2>3 DEF Waited, Pass
    <3>2. \A t \in Tasks : IsGone(t)
      BY <2>1, <2>3
    <3> QED BY <2>1, <3>1, <3>2 DEF IsGone
  <2> QED BY <2>2, <2>3
<1>8. CASE CloseDB
  BY <1>8 DEF CloseDB, IsGone, importVars, httpVars
<1>9. CASE Exit \/ Kill
  BY <1>9 DEF Exit, Kill, Down, TaskStates, RequestStates
<1> QED BY <1>1, <1>2, <1>3, <1>4, <1>5, <1>6, <1>7, <1>8, <1>9 DEF Main, Ending

(* Nobody but run() moves these                                              *)
LEMMA OthersKeep ==
  ASSUME Ended, ServerNext, UNCHANGED <<pc, cause, next>>, pc # "down",
         task' \in [Tasks -> TaskStates], requests' \in [Requests -> RequestStates],
         deadline' \in {deadline, "passed"},
         listener = "shut" => /\ listener' = "shut"
                               /\ \A r \in Requests : requests[r] = "idle" => requests'[r] = "idle"
  PROVE  Ended'
<1>1. \A t \in Tasks : pc \in Ends /\ IsGone(t) => IsGone(t)'
  BY GoneStays DEF Ended, Ends
<1>2. Behind' = Behind /\ Behind \subseteq Tasks
  BY OrderIsTasks DEF Behind, Ended
<1> QED BY <1>1, <1>2 DEF Ended, Ends

LEMMA EndedStep == Ended /\ [ServerNext]_serverVars => Ended'
<1> SUFFICES ASSUME Ended, [ServerNext]_serverVars PROVE Ended' OBVIOUS
<1>1. CASE UNCHANGED serverVars
  BY <1>1 DEF Ended, Behind, IsGone, serverVars, mainVars, httpVars, importVars
<1>2. CASE Start
  BY <1>2 DEF Start, Ended, Ends, Tasks, Workers, TaskStates, importVars
<1>3. CASE Main \/ Kill
  BY <1>3, MainKeeps DEF ServerNext
<1>4. CASE Signal \/ DeadlinePasses \/ Bind \/ ServeFails \/ ServeReturns
  <2>1. pc # "down" \/ UNCHANGED <<pc, cause, next, task, requests, deadline>>
    BY <1>4 DEF Signal, DeadlinePasses, Bind, ServeFails, ServeReturns, Up,
       OnlyHTTP, mainVars, importVars
  <2> QED BY <1>4 DEF Signal, DeadlinePasses, Bind, ServeFails, ServeReturns,
     OnlyHTTP, Ended, Ends, Behind, IsGone, mainVars, importVars, httpVars
<1>5. CASE (\E r \in Requests : Serving(r)) \/ Expire \/ JanitorSweeps
  BY <1>5 DEF Serving, Arrive, Confirm, OpenStaged, Answer, Request, Expire,
     JanitorSweeps, OnlyRequests, Ended, Ends, Behind, IsGone, RequestStates, mainVars,
     httpVars
<1>6. CASE (\E t \in Tasks : TaskStops(t) \/ Claim(t) \/ FinishRow(t)) \/ Scanning
  <2>1. ServerNext
    BY <1>6 DEF ServerNext
  <2>2. UNCHANGED <<pc, cause, next, deadline, listener, requests>>
    BY <1>6 DEF TaskStops, Claim, FinishRow, Scanning, FindNothing, Look, Refresh,
       Wake, AfterWake, SweepReturns, OnlyTask, mainVars, httpVars, importVars
  <2>3. task' \in [Tasks -> TaskStates]
    BY <1>6 DEF Ended, TaskStops, Claim, FinishRow, Scanning, FindNothing, Look,
       Refresh, Wake, AfterWake, SweepReturns, Goes, TaskStates
  <2>4. CASE pc = "down"
    BY <2>2, <2>3, <2>4 DEF Ended, Ends
  <2>5. CASE pc # "down"
    BY <2>1, <2>2, <2>3, <2>5, OthersKeep DEF Ended
  <2> QED BY <2>4, <2>5
<1> QED BY <1>1, <1>2, <1>3, <1>4, <1>5, <1>6 DEF ServerNext

(* The database is closed under nobody unless the deadline has passed        *)
THEOREM ClosedUnderNone == ServerSpec => []ClosedUnderNobody
<1>1. Ended => ClosedUnderNobody
  BY DEF Ended, Ends, ClosedUnderNobody
<1> QED BY <1>1, EndedInit, EndedStep, PTL DEF ServerSpec

-----------------------------------------------------------------------------
(* The warnings                                                              *)

(* The loop remembers exactly what was warned about and not yet found again  *)
Remembered ==
  /\ log \in [TopDirs -> {"quiet", "warned"}]
  /\ \A d \in TopDirs : log[d] = "warned" <=> d \in reported

(* A directory is warned about once, until it is found again                 *)
THEOREM WarnsOnce == ServerSpec => []WarnedOnce
<1>1. ServerInit => Remembered
  BY DEF ServerInit, Remembered
<1>2. Remembered /\ [ServerNext]_serverVars => Remembered'
  <2> SUFFICES ASSUME Remembered, [ServerNext]_serverVars PROVE Remembered' OBVIOUS
  <2>1. CASE UNCHANGED scanVars
    BY <2>1 DEF Remembered, scanVars
  <2>2. CASE Exit \/ Kill
    BY <2>2 DEF Exit, Kill, Down, Remembered
  <2>3. ASSUME NEW dirs \in SUBSET TopDirs, Look(dirs) PROVE Remembered'
    <3>1. log' = Logged(dirs) /\ reported' = dirs
      BY <2>3 DEF Look
    <3>2. Logged(dirs) = [d \in TopDirs |-> IF d \in dirs THEN "warned" ELSE "quiet"]
      BY DEF Logged, Remembered
    <3> QED BY <3>1, <3>2 DEF Remembered
  <2>4. \/ UNCHANGED scanVars \/ Exit \/ Kill
        \/ \E dirs \in SUBSET TopDirs : Look(dirs)
    BY DEF ServerNext, Main, Ending, Scanning, Serving, Start, StartSender,
       StartEnrichment, Signal, DeadlinePasses, Bind, ServeFails, ServeReturns,
       Expire, JanitorSweeps, TakeFailure, TakeSignal, ShutdownReturns, Drain,
       Waited, Pass, CloseDB, Arrive, Confirm, OpenStaged, Answer, OnlyHTTP,
       OnlyRequests, TaskStops, Claim, FinishRow, FindNothing, Refresh, Wake,
       AfterWake, serverVars
  <2> QED BY <2>1, <2>2, <2>3, <2>4
<1>3. Remembered => WarnedOnce
  BY DEF Remembered, WarnedOnce
<1> QED BY <1>1, <1>2, <1>3, PTL DEF ServerSpec

-----------------------------------------------------------------------------
(* The recovery                                                              *)

(* Once a worker is started, its queue has been recovered or could not be;   *)
(* before that, it is not there                                              *)
Recovering ==
  /\ task \in [Tasks -> TaskStates] /\ rows \in [Workers -> RowStates]
  /\ pc \in {"down", "sends"} => \A t \in Workers : Is(t, "absent")
  /\ pc = "jobs" => Is("enrichment", "absent")
  /\ \A t \in Workers : ~Is(t, "absent") => rows[t] # "left"

LEMMA RecoveryClears ==
  ASSUME Recovering, NEW t \in Workers, Recovered(t)
  PROVE  /\ rows' \in [Workers -> RowStates] /\ rows'[t] # "left"
         /\ \A u \in Workers : rows[u] # "left" => rows'[u] # "left"
BY DEF Recovering, Recovered, RowStates

(* No worker starts beside a row it should have recovered                    *)
THEOREM RecoversBeforeClaims == ServerSpec => []RecoveredBeforeClaim
<1>1. ServerInit => Recovering
  BY DEF ServerInit, Recovering, Is, Tasks, Workers, TaskStates, RowStates
<1>2. Recovering /\ [ServerNext]_serverVars => Recovering'
  <2> SUFFICES ASSUME Recovering, [ServerNext]_serverVars PROVE Recovering' OBVIOUS
  <2> USE DEF Recovering, Is, Workers, Tasks
  <2>1. CASE Start
    BY <2>1 DEF Start, TaskStates
  <2>2. CASE StartSender
    BY <2>2, RecoveryClears DEF StartSender, Goes, TaskStates
  <2>3. CASE StartEnrichment
    BY <2>3, RecoveryClears DEF StartEnrichment, TaskStates
  <2>4. CASE Exit \/ Kill
    BY <2>4 DEF Exit, Kill, Down, TaskStates, RowStates
  <2>5. CASE (\E t \in Tasks : TaskStops(t) \/ Claim(t) \/ FinishRow(t)) \/ Scanning
    <3>1. UNCHANGED <<pc, rows>>
      BY <2>5 DEF TaskStops, Claim, FinishRow, Scanning, FindNothing, Look, Refresh,
         Wake, AfterWake, SweepReturns, OnlyTask, mainVars, rowVars
    <3>2. PICK t \in Tasks, s \in TaskStates : ~Is(t, "absent") /\ Goes(t, s)
      BY <2>5 DEF TaskStops, Claim, FinishRow, Scanning, FindNothing, Look, Refresh,
         Wake, AfterWake, SweepReturns, TaskStates
    <3> QED BY <3>1, <3>2 DEF Goes
  <2>6. CASE \/ Signal \/ DeadlinePasses \/ Bind \/ ServeFails \/ ServeReturns
             \/ Expire \/ JanitorSweeps
             \/ TakeFailure \/ TakeSignal \/ ShutdownReturns \/ Drain \/ Waited \/ CloseDB
             \/ (\E r \in Requests : Serving(r)) \/ UNCHANGED serverVars
    <3>1. UNCHANGED <<task, rows>>
      BY <2>6 DEF Signal, DeadlinePasses, Bind, ServeFails, ServeReturns, Expire,
         JanitorSweeps, TakeFailure, TakeSignal, ShutdownReturns, Drain, Waited,
         Pass, CloseDB, Serving, Arrive, Confirm, OpenStaged, Answer, OnlyHTTP,
         OnlyRequests, serverVars, rowVars
    <3>2. \/ UNCHANGED pc
          \/ (pc' # "down" /\ pc \notin {"down", "sends", "jobs"} /\ pc' \notin {"sends", "jobs"})
      BY <2>6 DEF Signal, DeadlinePasses, Bind, ServeFails, ServeReturns, Expire,
         JanitorSweeps, TakeFailure, TakeSignal, ShutdownReturns, Drain, Waited,
         Pass, CloseDB, Serving, Arrive, Confirm, OpenStaged, Answer, OnlyHTTP,
         OnlyRequests, serverVars, mainVars
    <3> QED BY <3>1, <3>2
  <2> QED BY <2>1, <2>2, <2>3, <2>4, <2>5, <2>6 DEF ServerNext, Main, Ending
<1>3. Recovering => RecoveredBeforeClaim
  BY DEF Recovering, RecoveredBeforeClaim, Is
<1> QED BY <1>1, <1>2, <1>3, PTL DEF ServerSpec
=============================================================================
