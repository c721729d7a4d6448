-------------------------- MODULE ImportStageProps --------------------------
(***************************************************************************)
(* What the importer's staging promises, over ImportStage.                 *)
(***************************************************************************)
EXTENDS ImportStage

\* Type invariant.
TypeOK ==
  /\ stages \in [Ids -> Stages]
  /\ staged \in Nat
  /\ temp \subseteq Ids
  /\ clicks \in [Clicks -> ClickStates]
  /\ lib \in [Names -> Contents \cup {NoFile}]
  /\ parts \in [Names -> Clicks \cup {Free, Left}]
  /\ book \in [Contents -> Nat] /\ nextBook \in Nat
  /\ published \in [Ids -> Nat] /\ answers \in [Ids -> SUBSET Nat]
  /\ events \in 0 .. MaxEvents

\* What upload i is charged: the cap while it runs, what it retains after.
Charge(i) ==
  IF stages[i].pc \in Uploading THEN MaxSize
  ELSE IF stages[i].pc = "live" THEN stages[i].reserved ELSE 0

\* Every byte the budget is charged, with the upload that holds it.
Charged == UNION {{i} \X (1 .. Charge(i)) : i \in Ids}

\* The budget is neither leaked nor given back twice, whichever of confirm,
\* discard, janitor and a failing upload ends a stage, and in whatever order
\* (Stager.staged).
BudgetIsExact == staged = Cardinality(Charged)

\* Of what is staged only the part of a stage that is above the cap, a cover
\* and metadata beside a book of nearly the cap, may be beyond the budget
\* (reserve), however admissions, verdicts and removals interleave.
OnlyExtrasExceed == Cardinality({e \in Charged : e[2] <= MaxSize}) <= MaxSize * Factor

\* A file in the temp directory belongs to an upload or to a stage that may
\* still be confirmed; a .part in the library belongs to the one confirm
\* that is writing or publishing it, unless a crash left it there.
NothingLeaks ==
  /\ \A i \in temp :
       \/ stages[i].pc \in Uploading
       \/ stages[i].pc = "live" /\ ~stages[i].done
  /\ \A n \in Names : parts[n] \in Clicks =>
       clicks[parts[n]].pc \in {"copy", "link", "lstat", "rename"} /\ clicks[parts[n]].part = n

\* A stage is copied into the library once at most, however often it is
\* confirmed and whichever way indexing went (Confirm's done).
OneCopy == \A i \in Ids : published[i] <= 1

\* Repeated confirms of one stage answer one book (Confirm's doc comment).
SameAnswer == \A i \in Ids : Cardinality(answers[i]) <= 1

\* Publishing never replaces what is at a library name, though a person
\* puts files there while the copy runs (publish's doc comment); only where
\* linking failed may a rename replace what came after its os.Lstat.
NothingReplaced ==
  [][\A n \in Names : lib[n] # NoFile /\ lib'[n] \notin {lib[n], NoFile} =>
       \E k \in Clicks : clicks[k].pc = "rename" /\ clicks[k].n = n]_vars

\* What is staged never holds more than the budget (stagingBudgetFactor).
WithinBudget == staged <= MaxSize * Factor
=============================================================================
