----------------------------- MODULE MCWatcher -----------------------------
(* A library directory and one directory below it.                           *)
EXTENDS WatcherProps

CONSTANTS root, sub
MCDirs == {root, sub}
MCParent == [d \in {sub} |-> root]

(* Refresh alone against a changing tree: one goroutine refreshes whenever   *)
(* it likes, as after any sweep; no event is ever waited for.                *)
Alone == UNCHANGED <<unswept, run, scan, trigger, stopped>>

RefreshNext ==
  /\ Alone
  /\ \/ \E d \in Dirs : Delete(d) \/ Leave(d) \/ \E i \in Inodes : Make(d, i)
     \/ Begin("scan") \/ WalkStep("scan") \/ Finish("scan")

RefreshSpec == Init /\ [][RefreshNext]_vars
=============================================================================
