------------------------------ MODULE WatchSet ------------------------------
(* The set of directory watches of internal/scanner/watcher.go, and the      *)
(* directory tree it has to follow.                                          *)
(*                                                                           *)
(* A watch is attached to an inode and filed under a pathname; the two part  *)
(* when a directory moves.  Refresh walks the tree and repairs the set, one  *)
(* directory at a time, while the tree goes on changing under it.  What the  *)
(* kernel and fsnotify do (external code) is taken from the comments of      *)
(* watcher.go: a deleted directory and an unmount drop the watch silently, a *)
(* directory that leaves the library keeps it, adding over a name whose      *)
(* directory changed forgets the old watch without releasing it, and the     *)
(* number of a freed inode may be given out again.  A rename from one place  *)
(* of the library to another is not modelled.                                *)
EXTENDS Integers, Sequences, FiniteSets, Functions

CONSTANTS Dirs,         \* the pathnames a directory of the library can have
          Root,         \* LIBRARY_DIR
          Parent,       \* the directory each pathname but Root lies in
          Inodes, NoInode, NoDir,
          MaxEvents,    \* the length of the queue of undelivered events
          MaxMishaps    \* directories made, deleted, moved out or lost, failed
                        \* Adds and sweeps, and the stop, in all

Numberings == {t \in [Dirs -> Inodes] : \A c, d \in Dirs : t[c] = t[d] => c = d}

ASSUME WatchAssumption ==
  /\ Numberings # {}            \* there are inodes enough for all directories
  /\ Root \in Dirs /\ NoDir \notin Dirs /\ NoInode \notin Inodes
  /\ Parent \in [Dirs \ {Root} -> Dirs]
  \* directories nest at most two deep: Under(d) is all there is below d
  /\ \A d \in Dirs \ {Root} : Parent[d] = Root \/ Parent[Parent[d]] = Root
  /\ {MaxEvents, MaxMishaps} \subseteq Nat

VARIABLES tree,         \* the inode of the directory at each pathname
          outside,      \* inodes of directories moved out of the library
          kernel,       \* inodes inotify holds a watch for
          filed,        \* the inode fsnotify watches under each pathname
          registered,   \* Watcher.registered
          closed,       \* the fsnotify handle is closed
          events,       \* events not yet received from the handle
          walk,         \* the Refresh in progress
          torn,         \* some Add attached to another directory than the
                        \* one whose identity Refresh recorded for it
          mishaps

treeVars == <<tree, outside>>
setVars == <<kernel, filed, registered, closed, walk, torn>>
watchVars == <<treeVars, setVars, events, mishaps>>

Keys == Inodes \cup {NoInode}
Events == [kind : {"book", "left", "made"}, dir : Dirs]

Children(d) == {c \in Dirs \ {Root} : Parent[c] = d}
Under(d) == {d} \cup UNION {{c} \cup Children(c) : c \in Children(d)}
Present(d) == tree[d] # NoInode
WatchList == {d \in Dirs : filed[d] # NoInode}

(* A watch delivers while the kernel holds it and fsnotify has a name for it *)
Delivers(i) == i \in kernel /\ i \in Range(filed)

NoWalk == [by |-> "none", phase |-> "walk", watched |-> {}, seen |-> {},
           todo |-> {}, at |-> NoDir, key |-> NoInode, calm |-> FALSE]

Walks == [by : {"none", "scan", "run"}, phase : {"walk", "add", "list"},
          watched : SUBSET Dirs, seen : SUBSET Dirs, todo : SUBSET Dirs,
          at : Dirs \cup {NoDir}, key : Keys, calm : BOOLEAN]

-----------------------------------------------------------------------------
(* The filesystem.  Report(e, hears) queues the event if something hears it  *)
(* and the queue has room: inotify drops what does not fit, and Run only     *)
(* logs the overflow error.                                                  *)

Report(e, hears) ==
  events' = IF hears /\ Len(events) < MaxEvents THEN Append(events, e) ELSE events

Reported == Len(events') > Len(events)

(* One of the bounded number of things that go wrong or change the tree      *)
Mishap == mishaps < MaxMishaps /\ mishaps' = mishaps + 1

Stir == walk' = [walk EXCEPT !.calm = FALSE]

Hear(d) == Present(d) /\ Delivers(tree[d])
ParentHears(d) == d # Root /\ Hear(Parent[d])

(* A book is added, changed or removed in directory d of the library         *)
Touch(d) ==
  /\ Present(d)
  /\ Report([kind |-> "book", dir |-> d], Hear(d))
  /\ UNCHANGED <<treeVars, setVars, mishaps>>

(* The same in a directory that has left the library but kept its watch      *)
TouchOutside(i) ==
  /\ i \in outside /\ Delivers(i)
  /\ Report([kind |-> "book", dir |-> CHOOSE d \in Dirs : filed[d] = i], TRUE)
  /\ Reported
  /\ UNCHANGED <<treeVars, setVars, mishaps>>

(* A directory appears, with any inode nothing uses                          *)
Make(d, i) ==
  /\ Mishap
  /\ ~Present(d) /\ (d # Root => Present(Parent[d]))
  /\ i \notin Range(tree) \cup outside
  /\ tree' = [tree EXCEPT ![d] = i]
  /\ Report([kind |-> "made", dir |-> d], ParentHears(d))
  /\ Stir
  /\ UNCHANGED <<outside, kernel, filed, registered, closed, torn>>

(* A directory is deleted with what is under it: the inodes are freed and    *)
(* their watches go                                                          *)
Delete(d) ==
  LET freed == {tree[c] : c \in Under(d)} IN
  /\ Mishap
  /\ Present(d)
  /\ Report([kind |-> "left", dir |-> d], Hear(d) \/ ParentHears(d))
  /\ tree' = [c \in Dirs |-> IF c \in Under(d) THEN NoInode ELSE tree[c]]
  /\ kernel' = kernel \ freed
  /\ filed' = [c \in Dirs |-> IF filed[c] \in freed THEN NoInode ELSE filed[c]]
  /\ Stir
  /\ UNCHANGED <<outside, registered, closed, torn>>

(* A directory is moved out of the library with what is under it: the        *)
(* watches follow the inodes and stay filed under the names                  *)
Leave(d) ==
  /\ Mishap
  /\ Present(d)
  /\ Report([kind |-> "left", dir |-> d], Hear(d) \/ ParentHears(d))
  /\ tree' = [c \in Dirs |-> IF c \in Under(d) THEN NoInode ELSE tree[c]]
  /\ outside' = outside \cup ({tree[c] : c \in Under(d)} \ {NoInode})
  /\ Stir
  /\ UNCHANGED <<kernel, filed, registered, closed, torn>>

(* The library is unmounted: every watch goes and nothing is reported        *)
Unmount ==
  /\ Mishap
  /\ Present(Root)
  /\ tree' = [d \in Dirs |-> NoInode]
  /\ outside' = {} /\ kernel' = {} /\ filed' = [d \in Dirs |-> NoInode]
  /\ Stir
  /\ UNCHANGED <<registered, closed, torn, events>>

-----------------------------------------------------------------------------
(* Refresh, under Watcher.mu.  Its steps are those of filepath.WalkDir: stat *)
(* a directory and decide, add the watch, list the directories below.        *)

(* fsnotify.Remove and what becomes of the kernel's watch                    *)
Release(ds) ==
  /\ kernel' = kernel \ {filed[d] : d \in ds}
  /\ filed' = [d \in Dirs |-> IF d \in ds THEN NoInode ELSE filed[d]]
  /\ registered' = [d \in Dirs |-> IF d \in ds THEN NoInode ELSE registered[d]]

Begin(who) ==
  /\ walk.by = "none"
  /\ walk' = [NoWalk EXCEPT !.by = who, !.watched = WatchList,
                            !.todo = IF Present(Root) THEN {Root} ELSE {},
                            !.calm = TRUE]
  /\ UNCHANGED <<treeVars, kernel, filed, registered, closed, torn, events, mishaps>>

Seen(d, phase) ==
  walk' = [walk EXCEPT !.phase = phase, !.seen = @ \cup {d}, !.todo = @ \ {d},
                       !.at = d, !.key = tree[d]]

(* Mutant: the superseded watch is not removed before the name is added      *)
(* again                                                                     *)
StatKeepsOld(d) ==
  /\ walk.phase = "walk" /\ d \in walk.todo
  /\ \/ /\ ~Present(d)
        /\ walk' = [walk EXCEPT !.seen = @ \cup {d}, !.todo = @ \ {d}]
     \/ Present(d) /\ d \in walk.watched /\ registered[d] = tree[d] /\ Seen(d, "list")
     \/ Present(d) /\ ~(d \in walk.watched /\ registered[d] = tree[d]) /\ Seen(d, "add")
  /\ UNCHANGED <<treeVars, kernel, filed, registered, closed, torn, events, mishaps>>

Stat(d) ==
  /\ walk.phase = "walk" /\ d \in walk.todo
  /\ \/ /\ ~Present(d)          \* vanished between the listing and the stat
        /\ walk' = [walk EXCEPT !.seen = @ \cup {d}, !.todo = @ \ {d}]
        /\ UNCHANGED <<kernel, filed, registered>>
     \/ /\ Present(d) /\ d \notin walk.watched
        /\ Seen(d, "add")
        /\ UNCHANGED <<kernel, filed, registered>>
     \/ /\ Present(d) /\ d \in walk.watched /\ registered[d] = tree[d]
        /\ Seen(d, "list")
        /\ UNCHANGED <<kernel, filed, registered>>
     \/ /\ Present(d) /\ d \in walk.watched /\ registered[d] # tree[d]
        /\ Seen(d, "add")
        /\ Release({d})
  /\ UNCHANGED <<treeVars, closed, torn, events, mishaps>>

(* The Add by name: it attaches to the directory the name has by now, while  *)
(* registered gets the identity of the one that was looked at                *)
AddWatch ==
  /\ walk.phase = "add" /\ ~closed
  /\ Present(walk.at)
  /\ kernel' = kernel \cup {tree[walk.at]}
  /\ filed' = [filed EXCEPT ![walk.at] = tree[walk.at]]
  /\ registered' = [registered EXCEPT ![walk.at] = walk.key]
  /\ torn' = (torn \/ walk.key # tree[walk.at])
  /\ walk' = [walk EXCEPT !.phase = "list"]
  /\ UNCHANGED <<treeVars, closed, events, mishaps>>

(* The Add fails: the directory has gone, or the watch limit is reached.     *)
(* The walk goes on.                                                         *)
AddFails ==
  /\ walk.phase = "add" /\ ~closed
  /\ \/ ~Present(walk.at) /\ UNCHANGED mishaps
     \/ Present(walk.at) /\ Mishap
  /\ walk' = [walk EXCEPT !.phase = "list", !.calm = FALSE]
  /\ UNCHANGED <<treeVars, kernel, filed, registered, closed, torn, events>>

(* The handle was closed by Run on its way out: ErrClosed ends the walk      *)
AddClosed ==
  /\ walk.phase = "add" /\ closed
  /\ walk' = [walk EXCEPT !.phase = "walk", !.todo = {}, !.calm = FALSE]
  /\ UNCHANGED <<treeVars, kernel, filed, registered, closed, torn, events, mishaps>>

List ==
  /\ walk.phase = "list"
  /\ walk' = [walk EXCEPT !.phase = "walk", !.at = NoDir, !.key = NoInode,
                          !.todo = @ \cup {c \in Children(walk.at) : Present(c)}]
  /\ UNCHANGED <<treeVars, kernel, filed, registered, closed, torn, events, mishaps>>

(* The directories that have left the tree lose their watches, and the lock  *)
(* is released                                                               *)
Gone == {d \in Dirs : registered[d] # NoInode /\ d \notin walk.seen}

Finish(who) ==
  /\ walk.by = who /\ walk.phase = "walk" /\ walk.todo = {}
  /\ Release(Gone)
  /\ walk' = NoWalk
  /\ UNCHANGED <<treeVars, closed, torn, events, mishaps>>

WalkStep(who) ==
  /\ walk.by = who
  /\ \/ \E d \in Dirs : Stat(d)
     \/ AddWatch \/ AddFails \/ AddClosed \/ List

(* Run closes the handle on its way out                                      *)
Close ==
  /\ closed' = TRUE /\ kernel' = {} /\ filed' = [d \in Dirs |-> NoInode]

-----------------------------------------------------------------------------
(* newWatcher: the root is added without being registered, and a first       *)
(* Refresh, nothing else running yet, watches what there is: the root alone  *)
(* or every directory, under whatever inode numbers.                         *)
Numbering == CHOOSE t \in Numberings : TRUE

InitWatch ==
  /\ \E there \in {{Root}, Dirs} :
       tree = [d \in Dirs |-> IF d \in there THEN Numbering[d] ELSE NoInode]
  /\ outside = {}
  /\ filed = tree /\ registered = tree
  /\ kernel = Range(tree) \ {NoInode}
  /\ closed = FALSE /\ events = <<>> /\ walk = NoWalk /\ torn = FALSE
  /\ mishaps = 0

WatchTypeOK ==
  /\ {tree, filed, registered} \subseteq [Dirs -> Keys]
  /\ outside \subseteq Inodes /\ kernel \subseteq Inodes
  /\ closed \in BOOLEAN /\ torn \in BOOLEAN
  /\ events \in Seq(Events) /\ Len(events) <= MaxEvents
  /\ walk \in Walks
  /\ mishaps \in 0..MaxMishaps
=============================================================================
