------------------------------ MODULE Catalog -------------------------------
(***************************************************************************)
(* The index as a person sees it: a map from paths to contents, one book   *)
(* per content it names, and what was typed on each book.  No ids, no      *)
(* stamps, no sweep.  A book is there exactly while some path has it.      *)
(* Edits stay with their book; when its last path gets content that no     *)
(* book had, they pass to the successor.                                   *)
(***************************************************************************)
CONSTANTS
  Paths,
  Contents,
  Nothing  \* at[p] for a path that is not in the catalog

VARIABLES
  at,      \* at[p]: the content the catalog has at path p
  shelved, \* the contents there is a book of
  edited,  \* those a person has edited
  mark     \* mark[p]: "no", or for how long p has been missed

vars == <<at, shelved, edited, mark>>

Init ==
  /\ at = [p \in Paths |-> Nothing] /\ mark = [p \in Paths |-> "no"]
  /\ shelved = {} /\ edited = {}

Elsewhere(p) == {at[q] : q \in Paths \ {p}}

\* The books are those the paths still have.
Keeps == shelved' = {at'[p] : p \in Paths} \ {Nothing}

\* A file of a book the catalog has.  The book that was at p keeps its edits
\* if it has another path, and goes if it has none.
Attach(p, c) ==
  /\ c \in shelved
  /\ at' = [at EXCEPT ![p] = c] /\ Keeps
  /\ edited' = edited \cap shelved'
  /\ UNCHANGED mark

\* A file of a new book, which succeeds the one that had no other path.
Create(p, c) ==
  /\ c \in Contents \ shelved
  /\ at' = [at EXCEPT ![p] = c] /\ Keeps
  /\ edited' = (edited \cap shelved') \cup (IF at[p] \in edited \ Elsewhere(p) THEN {c} ELSE {})
  /\ UNCHANGED mark

Drop(ps) ==
  /\ at' = [p \in Paths |-> IF p \in ps THEN Nothing ELSE at[p]] /\ Keeps
  /\ edited' = edited \cap shelved'
  /\ mark' = [p \in Paths |-> IF p \in ps THEN "no" ELSE mark[p]]

\* A person gives up a path that is missed; a sweep, only those missed for long.
Forget(p) == mark[p] # "no" /\ Drop({p})
Prune(ps) == (\A p \in ps : mark[p] = "old") /\ Drop(ps)

Edit(c) ==
  /\ c \in shelved
  /\ UNCHANGED <<at, shelved, mark>>
  /\ edited' = edited \cup {c}

Mark(ps, from, to) ==
  /\ \A p \in ps : at[p] # Nothing /\ mark[p] \in from
  /\ mark' = [p \in Paths |-> IF p \in ps THEN to ELSE mark[p]]

\* A sweep misses paths, time goes by, a sweep finds paths again.
Look ==
  /\ UNCHANGED <<at, shelved, edited>>
  /\ \E ps \in SUBSET Paths :
       \/ Mark(ps, {"no"}, "recent")
       \/ Mark(ps, {"recent"}, "old")
       \/ Mark(ps, {"no", "recent", "old"}, "no")

Next ==
  \/ Look
  \/ \E c \in Contents : Edit(c) \/ \E p \in Paths : Attach(p, c) \/ Create(p, c)
  \/ \E p \in Paths : Forget(p)
  \/ \E ps \in SUBSET Paths : Prune(ps)

Spec == Init /\ [][Next]_vars
=============================================================================
