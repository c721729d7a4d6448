--------------------------- MODULE SendQueueProps ---------------------------
(***************************************************************************)
(* What the send queue promises, over SendQueue.                           *)
(***************************************************************************)
EXTENDS SendQueue

WorkerPcs == {"off", "wait", "claim", "resolve", "file", "hand", "sent", "deliver", "fail"}

WorkerStates ==
  [pc : WorkerPcs, id : Sends \cup {Null}, book : Books \cup {Null}, reason : Reasons]

RequestStates ==
  [pc : {"idle", "found", "poke"}, book : Books \cup {Null},
   address : Addresses \cup {Null}, at : Nat]

\* Type invariant: every variable and table has its declared shape.
TypeOK ==
  /\ log \in [Sends -> Rows]
  /\ nextSend \in 1 .. MaxSends + 1
  /\ shelf \in [Books -> {"unborn", "live", "missing", "deleted"}]
  /\ nextBook \in Nat
  /\ reqs \in [Requests -> RequestStates]
  /\ asked \in 0 .. MaxSends
  /\ notify \in BOOLEAN
  /\ worker \in WorkerStates
  /\ worker.pc \notin {"off", "wait", "claim"} => worker.id \in Sends
  /\ run \in {"down", "starting", "up", "stopping"}
  /\ handed \in [Sends -> Nat]
  /\ wire \subseteq Sends /\ accepted \subseteq Sends /\ lost \subseteq Sends
  /\ faults \in Nat /\ stops \in Nat

-----------------------------------------------------------------------------
\* No send goes to the provider twice, whatever restarts, failed writes and
\* panics come between the claim and the mark (ClaimNextSend takes queued
\* rows alone, and FailInterruptedSends never requeues).
HandedOnce == \A i \in Sends : handed[i] <= 1

\* Two tabs, a double click, or a click while the first message is on its
\* way leave one pending send of a book to an address, also after the rows
\* moved to another book (EnqueueSend's guard, repointSendLogTx).
OnePending ==
  \A i, j \in Sends :
    /\ log[i].status \in Pending /\ log[j].status \in Pending
    /\ log[i].book = log[j].book /\ log[i].address = log[j].address
    /\ log[i].book # Null
    => i = j

\* A reason that says the message was never sent is only ever written for a
\* message that was not: these sentences invite another try without a word
\* of doubt (sender.go's reasons).
BeforeHanding == {"gone", "lookup", "unreadable", "tooBig"}

UnsentWasNotSent ==
  \A i \in Sends :
    log[i].status = "failed" /\ log[i].reason \in BeforeHanding => handed[i] = 0

\* The queue keeps the promise of a press (SendPromise): settled rows never
\* change, one message at most, delivered only if accepted.
Promise == INSTANCE SendPromise WITH phase <- [i \in Sends |-> log[i].status]
KeepsPromise == Promise!Spec

\* fileGoneReason (sender.go): "recorded when a send's book has no file
\* location left to send -- the book was pruned, or every copy is currently
\* marked missing".  Stated of the step that looks the locations up.
GoneMeansGone ==
  [][worker.pc = "resolve" /\ worker'.pc = "fail" /\ worker'.reason = "gone" =>
       log[worker.id].book = Null \/ shelf[log[worker.id].book] # "live"]_vars

\* process (sender.go): "Every other transport error is an answer", so a
\* failure recorded in the transport's words is of a message not accepted.
TransportErrorIsAnswer ==
  \A i \in Sends :
    log[i].status = "failed" /\ log[i].reason = "transport" => i \notin accepted

-----------------------------------------------------------------------------
(***************************************************************************)
(* Liveness.  Handlers run to their end, the worker's ticker ticks, every  *)
(* send has a deadline, a shutdown's wait is bounded, and the service      *)
(* manager starts the server again.  The provider owes nothing.            *)
(***************************************************************************)
Fairness ==
  /\ \A q \in Requests : WF_vars(Queueing(q))
  /\ WF_vars(Work)
  /\ WF_vars(run = "stopping" /\ Exit)
  /\ WF_vars(Start)
  /\ WF_vars(Recover)

FairSpec == Spec /\ Fairness

\* A queued send is settled in the end, through lost pokes, failed claims,
\* panics, silence of the provider and restarts.  A row may stay sending only
\* if the very write that would have settled it failed: its own mark, or the
\* recovery after a restart (sender.go's fail, FailInterruptedSends).
EverySendSettles ==
  \A i \in Sends :
    log[i].status = "queued" ~>
      \/ log[i].status \in {"delivered", "failed"}
      \/ log[i].status = "sending" /\ i \in lost
=============================================================================
