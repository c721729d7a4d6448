---------------------------- MODULE CoversProps -----------------------------
(***************************************************************************)
(* What the cover of a book promises, over Covers.                         *)
(***************************************************************************)
EXTENDS Covers

\* Type invariant: every variable has its declared shape.
TypeOK ==
  /\ embedded \in EmbeddedStates
  /\ book \in BookRows
  /\ image \in ImageStates
  /\ scan \in [Scanners -> Scans]
  /\ worker \in {"idle", "fetch", "apply"}
  /\ losses \in 0 .. MaxLosses /\ faults \in 0 .. MaxFaults /\ stops \in 0 .. MaxStops
  /\ torn \in BOOLEAN

\* The pairing the scanner relies on and cannot check ("the invariant lives in
\* another package"): a marker never stands beside a path, where it would have
\* the sweep act on a cover it has not looked at; and a provider's row never
\* stands beside an empty path, a claim about a value that is gone.
CoverRowWhole ==
  /\ book.retry => book.path = ""
  /\ book.source = "provider" => book.path # ""

\* A sweep that was parsing while enrichment fetched a cover does not throw
\* the fresh cover away: a provider's cover whose image is there is only ever
\* forgotten by a scanner that another scanner's write of the row overtook
\* (forgetCoverTx's guard on the path observed).
FreshCoverKept ==
  [][book.source = "provider" /\ image = "provider" /\ book'.path = "" =>
       \E s \in Scanners : At(s, "forget") /\ scan[s].overtaken]_vars

\* The state UpdateBookCoverPath drops the cover row to prevent: a row naming
\* a provider for the image the scanner extracted.  Only a scanner whose own
\* row write is still to come, failed or lost its race leaves it, or one that
\* blanked a row written after it looked.
ProviderRowIsProviders ==
  book.source = "provider" /\ ~torn =>
    \/ image # "embedded"
    \/ \E s \in Scanners : At(s, "update") \/ At(s, "insert")

-----------------------------------------------------------------------------
(***************************************************************************)
(* Liveness.  Sweeps are repeated for as long as the server runs and each  *)
(* one reaches the file; the worker ends the job it is at.  Nobody owes a  *)
(* press of Fetch, and the provider owes no image.                         *)
(***************************************************************************)
Fairness ==
  /\ \A s \in Scanners : WF_vars(Scan(s))
  /\ WF_vars(WorkerStore \/ WorkerLosesCover)
  /\ WF_vars(WorkerApply \/ WorkerApplyFails)

FairSpec == Spec /\ Fairness

Settled ==
  /\ book.exists
  /\ NothingToDo(book) \/ Usable
  /\ \A s \in Scanners : scan[s].pc # "parse"

\* After the last loss and the last fault every sweep comes to leave the book
\* alone: its cover is back or honestly absent, and no sweep parses the whole
\* book again to learn what the last one learnt.
CoverSettles == <>[]Settled
=============================================================================
