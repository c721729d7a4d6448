--------------------------- MODULE EnrichPromise ----------------------------
(***************************************************************************)
(* What a press of the Fetch button promises: a run for the book that      *)
(* begins after the press, one for all presses until then.  Runs take      *)
(* turns.  A run that ends without a verdict is owed one: it is had by a   *)
(* later run of the book, after a restart that puts the book back in line. *)
(* A run fills what is empty, and only in its own book.                    *)
(***************************************************************************)
CONSTANTS
  Books,
  Fields,
  States,  \* of a field; one of them is "empty", another "found"
  Shelf    \* what the books may say before anything is looked up

VARIABLES
  waiting,    \* books with a run to come
  owed,       \* books asked for since a run of theirs began
  turn,       \* the book being looked up, if any
  unsettled,  \* books with a run that began and has no verdict
  fields      \* fields[b][f]: what book b says in field f

vars == <<waiting, owed, turn, unsettled, fields>>

Init ==
  /\ waiting = {} /\ owed = {} /\ turn = {} /\ unsettled = {}
  /\ fields \in Shelf

Press(b) ==
  /\ waiting' = waiting \cup {b} /\ owed' = owed \cup {b}
  /\ UNCHANGED <<turn, unsettled, fields>>

Begin(b) ==
  /\ turn = {} /\ b \in waiting
  /\ turn' = {b}
  /\ waiting' = waiting \ {b} /\ owed' = owed \ {b}
  /\ unsettled' = unsettled \cup {b}
  /\ UNCHANGED fields

\* A provider's answer, as far as it is new.
Fill(b, fs) ==
  /\ b \in turn
  /\ \A f \in fs : fields[b][f] = "empty"
  /\ fields' = [fields EXCEPT ![b] = [f \in Fields |-> IF f \in fs THEN "found" ELSE @[f]]]
  /\ UNCHANGED <<waiting, owed, turn, unsettled>>

\* With a verdict or without one.
End ==
  /\ turn # {} /\ turn' = {}
  /\ unsettled' \in {unsettled, unsettled \ turn}
  /\ UNCHANGED <<waiting, owed, fields>>

\* After a restart, before any run.
Requeue ==
  /\ turn = {}
  /\ waiting' = waiting \cup unsettled /\ unsettled' = {}
  /\ UNCHANGED <<owed, turn, fields>>

\* The book goes; a run it is having goes on to its end.
Drop(b) ==
  /\ waiting' = waiting \ {b} /\ owed' = owed \ {b} /\ unsettled' = unsettled \ {b}
  /\ UNCHANGED <<turn, fields>>

\* A person and a sweep write what they like, but never in a provider's name.
Edit(b, f, s) ==
  /\ s # "found"
  /\ fields' = [fields EXCEPT ![b][f] = s]
  /\ UNCHANGED <<waiting, owed, turn, unsettled>>

Next ==
  \/ \E b \in Books : Press(b) \/ Begin(b) \/ Drop(b)
  \/ \E b \in Books, fs \in SUBSET Fields : Fill(b, fs)
  \/ End \/ Requeue
  \/ \E b \in Books, f \in Fields, s \in States : Edit(b, f, s)

Spec == Init /\ [][Next]_vars
=============================================================================
