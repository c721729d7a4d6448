-------------------------- MODULE SendQueueProofs ---------------------------
(***************************************************************************)
(* Proofs about the send queue, for every number of sends, requests,       *)
(* books, faults and restarts.                                             *)
(*                                                                         *)
(* The inductive invariant says what the worker's place in process tells   *)
(* of the row it holds: a row it has not handed over has never been handed *)
(* over, and a row it is at is sending.  What a restart leaves behind is   *)
(* covered by the first two parts: only a queued row is claimed, and a     *)
(* queued row was never handed over.                                       *)
(***************************************************************************)
EXTENDS SendQueueProps, TLAPS

Busy == {"resolve", "file", "hand", "sent", "deliver", "fail"}

\* What the table says of a message: waiting rows are unsent, and only what
\* was handed over once can be on the wire or accepted.
HandedInv ==
  /\ \A i \in Sends : handed[i] \in {0, 1}
  /\ \A i \in Sends : log[i].status \in {"none", "queued"} => handed[i] = 0
  /\ \A i \in wire \cup accepted : handed[i] = 1
  /\ \A i \in Sends : i >= nextSend => log[i].status = "none"

\* What the worker's place says of its row.
WorkerInv ==
  /\ worker.pc \in Busy => log[worker.id].status = "sending"
  /\ worker.pc \in {"resolve", "file", "hand"} => handed[worker.id] = 0
  /\ worker.pc = "deliver" => worker.id \in accepted
  /\ worker.pc = "fail" /\ worker.reason \in BeforeHanding => handed[worker.id] = 0
  /\ run \in {"down", "starting"} => worker.pc = "off"

QueueInv == TypeOK /\ HandedInv /\ WorkerInv /\ UnsentWasNotSent

-----------------------------------------------------------------------------
(***************************************************************************)
(* Type correctness.                                                       *)
(***************************************************************************)
\* The changes that are made to a row.
LEMMA RowChanges ==
  ASSUME NEW r \in Rows
  PROVE  /\ r.book \in Books \cup {Null}
         /\ r.status \in {"none", "queued", "sending", "delivered", "failed"}
         /\ [r EXCEPT !.status = "sending"] \in Rows
         /\ \A s \in {"delivered", "failed"}, x \in Reasons :
              [r EXCEPT !.status = s, !.reason = x] \in Rows
         /\ \A b \in Books \cup {Null} : [r EXCEPT !.book = b] \in Rows
BY DEF Rows

\* The places the worker takes, and what changes on the way.
LEMMA WorkerChanges ==
  /\ \A pc \in {"off", "wait", "claim"} : At(pc) \in WorkerStates /\ At(pc).pc = pc
  /\ \A w \in WorkerStates, pc \in Busy : [w EXCEPT !.pc = pc] \in WorkerStates
  /\ \A w \in WorkerStates, x \in Reasons :
       [w EXCEPT !.pc = "fail", !.reason = x] \in WorkerStates
  /\ \A w \in WorkerStates : w.pc \in WorkerPcs
BY DEF At, WorkerStates, WorkerPcs, Busy, Reasons

LEMMA RequestChanges ==
  /\ NoRequest \in RequestStates
  /\ \A r \in RequestStates :
       /\ [r EXCEPT !.pc = "poke"] \in RequestStates
       /\ r.book \in Books \cup {Null} /\ r.address \in Addresses \cup {Null} /\ r.at \in Nat
  /\ \A b \in Books, a \in Addresses, t \in Nat :
       [pc |-> "found", book |-> b, address |-> a, at |-> t] \in RequestStates
BY DEF NoRequest, RequestStates, Null

LEMMA InitType == Init => TypeOK
<1> SUFFICES ASSUME Init PROVE TypeOK
  OBVIOUS
<1>1. NoRow \in Rows
  BY DEF NoRow, Rows, Reasons, Null
<1>2. log \in [Sends -> Rows]
  BY <1>1 DEF Init
<1>3. reqs \in [Requests -> RequestStates] /\ worker \in WorkerStates /\ worker.pc = "off"
  BY RequestChanges, WorkerChanges DEF Init
<1>4. shelf \in [Books -> {"unborn", "live", "missing", "deleted"}]
  BY DEF Init
<1>5. nextSend \in 1 .. MaxSends + 1 /\ asked \in 0 .. MaxSends
  BY BoundAssumption DEF Init
<1>6. QED
  BY <1>2, <1>3, <1>4, <1>5 DEF Init, TypeOK

\* The handlers.
LEMMA QueueingType ==
  ASSUME TypeOK, NEW q \in Requests,
         Queueing(q) \/ \E b \in Books, a \in Addresses : Ask(q, b, a)
  PROVE  TypeOK'
<1> USE DEF TypeOK
<1>1. ASSUME NEW b \in Books, NEW a \in Addresses, Ask(q, b, a) PROVE TypeOK'
  <2>1. asked \in Nat /\ asked' \in 0 .. MaxSends /\ asked + 1 \in Nat
    BY <1>1, BoundAssumption DEF Ask
  <2>2. reqs' \in [Requests -> RequestStates]
    BY <1>1, <2>1, RequestChanges DEF Ask
  <2>3. QED
    BY <1>1, <2>1, <2>2 DEF Ask, books, provider
<1>2. CASE Enqueue(q)
  <2>1. PICK r \in RequestStates : r = reqs[q]
    OBVIOUS
  <2>2. nextSend \in Sends /\ nextSend' \in {nextSend, nextSend + 1}
    BY <1>2 DEF Enqueue
  <2>a. nextSend' \in 1 .. MaxSends + 1
    BY <2>2, BoundAssumption DEF Sends
  <2>3. PICK row \in Rows : row = [status |-> "queued", book |-> r.book, address |-> r.address,
                                   reason |-> "", at |-> r.at]
    BY RequestChanges DEF Rows, Reasons
  <2>4. log' = log \/ log' = [log EXCEPT ![nextSend] = row]
    BY <1>2, <2>1, <2>3 DEF Enqueue
  <2>5. reqs' = [reqs EXCEPT ![q] = NoRequest] \/ reqs' = [reqs EXCEPT ![q] = [r EXCEPT !.pc = "poke"]]
    BY <1>2, <2>1 DEF Enqueue
  <2>6. log' \in [Sends -> Rows] /\ reqs' \in [Requests -> RequestStates]
    BY <2>2, <2>4, <2>5, RequestChanges
  <2>7. QED
    BY <1>2, <2>a, <2>6 DEF Enqueue, books, provider
<1>3. CASE EnqueueFails(q)
  BY <1>3, RequestChanges DEF EnqueueFails, Fault, books, provider
<1>4. CASE Poke(q)
  BY <1>4, RequestChanges DEF Poke, books, provider
<1>5. QED
  BY <1>1, <1>2, <1>3, <1>4 DEF Queueing

LEMMA WorkType ==
  ASSUME TypeOK, Work
  PROVE  TypeOK'
<1> USE DEF TypeOK, books, web, provider, Fault
<1>1. CASE Wake
  BY <1>1, WorkerChanges DEF Wake
<1>2. CASE Leave
  BY <1>2, WorkerChanges DEF Leave
<1>3. CASE Claim
  <2>1. PICK i \in Sends :
          /\ log' = [log EXCEPT ![i] = [log[i] EXCEPT !.status = "sending"]]
          /\ worker' = [pc |-> "resolve", id |-> i, book |-> log[i].book, reason |-> ""]
    BY <1>3 DEF Claim
  <2>2. log' \in [Sends -> Rows] /\ log[i].book \in Books \cup {Null}
    BY <2>1, RowChanges
  <2>3. worker' \in WorkerStates /\ worker'.id \in Sends
    BY <2>1, <2>2 DEF WorkerStates, WorkerPcs, Reasons
  <2>4. QED
    BY <1>3, <2>2, <2>3 DEF Claim
<1>4. CASE Drained
  <2>1. faults' \in Nat
    BY <1>4 DEF Drained
  <2>2. worker' \in WorkerStates /\ worker'.pc = "wait"
    BY <1>4, WorkerChanges DEF Drained
  <2>3. QED
    BY <1>4, <2>1, <2>2 DEF Drained
<1>5. ASSUME NEW reason \in Reasons, Verdict(reason), faults' \in Nat,
             worker.pc \in Busy
      PROVE  TypeOK'
  <2>1. worker' \in WorkerStates /\ worker'.id = worker.id
    BY <1>5, WorkerChanges DEF Verdict, WorkerStates
  <2>2. worker.id \in Sends
    BY <1>5 DEF Busy
  <2>3. QED
    BY <1>5, <2>1, <2>2 DEF Verdict
<1>6. ASSUME NEW pc \in Busy, Goes(pc), worker.pc \in Busy, handed' \in [Sends -> Nat],
             wire' \subseteq Sends, accepted' \subseteq Sends
      PROVE  TypeOK'
  <2>1. worker' \in WorkerStates /\ worker'.id = worker.id
    BY <1>6, WorkerChanges DEF Goes, WorkerStates
  <2>2. worker.id \in Sends
    BY <1>6 DEF Busy
  <2>3. QED
    BY <1>6, <2>1, <2>2 DEF Goes
<1>7. CASE ResolveFile \/ ReadFile \/ Answered
  BY <1>6, <1>7 DEF ResolveFile, ReadFile, Answered, Busy
<1>8. CASE ResolveGone
  BY <1>5, <1>8 DEF ResolveGone, Busy, Reasons
<1>a. CASE ResolveFails
  <2>1. faults' \in Nat
    BY <1>a DEF ResolveFails
  <2>2. worker.pc \in Busy
    BY <1>a DEF ResolveFails, Busy
  <2>3. QED
    BY <1>5, <1>a, <2>1, <2>2 DEF ResolveFails, Reasons
<1>b. CASE \E r \in {"gone", "unreadable", "tooBig"} : FileFails(r)
  BY <1>5, <1>b DEF FileFails, Busy, Reasons
<1>9. CASE Hand
  BY <1>6, <1>9 DEF Hand, Busy
<1>10. CASE Refused
  <2>1. "transport" \in Reasons /\ worker.id \in Sends
    BY <1>10 DEF Refused, Reasons
  <2>2. worker' \in WorkerStates
    BY <1>10, <2>1, WorkerChanges DEF Refused
  <2>3. worker'.id = worker.id
    BY <1>10 DEF Refused, WorkerStates
  <2>4. wire' \subseteq Sends
    BY <1>10 DEF Refused
  <2>5. QED
    BY <1>10, <2>1, <2>2, <2>3, <2>4 DEF Refused
<1>11. CASE TransportError \/ TimedOut
  BY <1>5, <1>11 DEF TransportError, TimedOut, Busy, Reasons
<1>c. CASE Panic
  <2>1. faults' \in Nat
    BY <1>c DEF Panic
  <2>2. worker.pc \in Busy
    BY <1>c DEF Panic, Busy
  <2>3. QED
    BY <1>5, <1>c, <2>1, <2>2 DEF Panic, Reasons
<1>12. CASE Abandon
  BY <1>12, WorkerChanges DEF Abandon
<1>13. ASSUME NEW status \in {"delivered", "failed"}, NEW reason \in Reasons,
              Mark(status, reason), worker.pc \in Busy
       PROVE  log' \in [Sends -> Rows] /\ lost' \subseteq Sends /\ faults' \in Nat
  <2>1. PICK i \in Sends : i = worker.id
    BY <1>13 DEF Busy
  <2>2. PICK row \in Rows : row = [log[i] EXCEPT !.status = status, !.reason = reason]
    BY RowChanges
  <2>3. log' = log \/ log' = [log EXCEPT ![i] = row]
    BY <1>13, <2>1, <2>2 DEF Mark
  <2>4. lost' \subseteq Sends /\ faults' \in Nat
    BY <1>13, <2>1 DEF Mark
  <2>5. QED
    BY <2>3, <2>4
<1>14. CASE Deliver
  BY <1>13, <1>14, WorkerChanges DEF Deliver, Reasons, Busy
<1>15. CASE Fail
  <2>1. worker.reason \in Reasons
    BY DEF WorkerStates
  <2>2. QED
    BY <1>13, <1>15, <2>1, WorkerChanges DEF Fail, Busy
<1>16. QED
  BY <1>1, <1>2, <1>3, <1>4, <1>7, <1>8, <1>a, <1>b, <1>9, <1>10, <1>11, <1>c, <1>12, <1>14, <1>15 DEF Work

\* The rows keep their shape when their sends fail or move.
LEMMA RowsType ==
  ASSUME TypeOK
  PROVE  /\ FailInterrupted \in [Sends -> Rows]
         /\ \A from \in Books, to \in Books \cup {Null} : Repoint(from, to) \in [Sends -> Rows]
<1>1. "interrupted" \in Reasons
  BY DEF Reasons
<1>2. QED
  BY <1>1, RowChanges DEF TypeOK, FailInterrupted, Repoint

LEMMA OutsideType ==
  ASSUME TypeOK,
         \/ Stop \/ Exit \/ Start \/ Recover
         \/ \E b \in Books : ReplaceBook(b) \/ DeleteBook(b) \/ MoveBook(b)
         \/ \E i \in Sends : Accept(i)
  PROVE  TypeOK'
<1> USE DEF TypeOK, books, web, provider, Fault
<1>1. CASE Stop
  <2>1. run' \in {"down", "starting", "up", "stopping"} /\ stops' \in Nat
    BY <1>1 DEF Stop
  <2>2. QED
    BY <1>1, <2>1 DEF Stop
<1>a. CASE Start
  BY <1>a DEF Start
<1>2. CASE Exit
  <2>1. worker' \in WorkerStates /\ worker'.pc = "off" /\ reqs' \in [Requests -> RequestStates]
    BY <1>2, WorkerChanges, RequestChanges DEF Exit
  <2>2. stops' \in Nat /\ run' = "down" /\ notify' = FALSE
    BY <1>2 DEF Exit
  <2>3. QED
    BY <1>2, <2>1, <2>2 DEF Exit
<1>3. CASE Recover
  <2>1. worker' \in WorkerStates /\ worker'.pc = "claim" /\ run' = "up"
    BY <1>3, WorkerChanges DEF Recover
  <2>2. log' \in [Sends -> Rows] /\ faults' \in Nat
    BY <1>3, RowsType DEF Recover
  <2>3. QED
    BY <1>3, <2>1, <2>2 DEF Recover
<1>4. ASSUME NEW b \in Books, ReplaceBook(b) PROVE TypeOK'
  BY <1>4, RowsType DEF ReplaceBook, Books
<1>5. ASSUME NEW b \in Books, DeleteBook(b) PROVE TypeOK'
  BY <1>5, RowsType DEF DeleteBook
<1>6. ASSUME NEW b \in Books, MoveBook(b) PROVE TypeOK'
  BY <1>6 DEF MoveBook
<1>7. ASSUME NEW i \in Sends, Accept(i) PROVE TypeOK'
  BY <1>7 DEF Accept
<1>8. QED
  BY <1>1, <1>a, <1>2, <1>3, <1>4, <1>5, <1>6, <1>7

LEMMA TypeStep == TypeOK /\ [Next]_vars => TypeOK'
<1> SUFFICES ASSUME TypeOK, [Next]_vars PROVE TypeOK'
  OBVIOUS
<1>1. CASE UNCHANGED vars
  BY <1>1 DEF vars, TypeOK
<1>2. CASE Next
  BY <1>2, QueueingType, WorkType, OutsideType DEF Next
<1>3. QED
  BY <1>1, <1>2

\* Every variable of the queue keeps its declared shape, and the worker is
\* never at work on no row.
THEOREM TypeCorrect == Spec => []TypeOK
<1>1. Init => TypeOK
  BY InitType
<1>2. TypeOK /\ [Next]_vars => TypeOK'
  BY TypeStep
<1>3. QED
  BY <1>1, <1>2, PTL DEF Spec

-----------------------------------------------------------------------------
(***************************************************************************)
(* The inductive invariant.                                                *)
(***************************************************************************)
LEMMA InitQueue == Init => QueueInv
<1> SUFFICES ASSUME Init PROVE QueueInv
  OBVIOUS
<1>1. TypeOK
  BY InitType
<1>2. HandedInv
  BY DEF Init, HandedInv, NoRow
<1>3. WorkerInv
  BY DEF Init, WorkerInv, At, Busy, Null
<1>4. UnsentWasNotSent
  BY DEF Init, UnsentWasNotSent, NoRow
<1>5. QED
  BY <1>1, <1>2, <1>3, <1>4 DEF QueueInv

\* A step that leaves the rows, the provider and the worker alone.
LEMMA QueueFrame ==
  ASSUME QueueInv, TypeOK',
         UNCHANGED <<log, nextSend, handed, wire, accepted, worker>>,
         run' = run \/ run' \in {"up", "stopping"} \/ worker.pc = "off"
  PROVE  QueueInv'
BY DEF QueueInv, HandedInv, WorkerInv, UnsentWasNotSent

\* A step that moves the worker alone.
LEMMA WorkerFrame ==
  ASSUME QueueInv, TypeOK', UNCHANGED <<log, nextSend, handed, wire, accepted>>, WorkerInv'
  PROVE  QueueInv'
BY DEF QueueInv, HandedInv, UnsentWasNotSent

LEMMA QueueingStep ==
  ASSUME QueueInv, TypeOK', NEW q \in Requests,
         Queueing(q) \/ \E b \in Books, a \in Addresses : Ask(q, b, a)
  PROVE  QueueInv'
<1>1. ASSUME NEW b \in Books, NEW a \in Addresses, Ask(q, b, a) PROVE QueueInv'
  BY <1>1, QueueFrame DEF Ask, provider
<1>2. CASE EnqueueFails(q) \/ Poke(q)
  BY <1>2, QueueFrame DEF EnqueueFails, Poke, provider
<1>3. CASE Enqueue(q)
  <2>1. UNCHANGED <<worker, run, handed, wire, accepted>>
    BY <1>3 DEF Enqueue, provider
  <2>2. CASE UNCHANGED <<log, nextSend>>
    BY <2>1, <2>2, QueueFrame
  <2>3. CASE ~UNCHANGED <<log, nextSend>>
    <3>1. PICK row : /\ row.status = "queued"
                     /\ log' = [log EXCEPT ![nextSend] = row]
                     /\ nextSend' = nextSend + 1 /\ nextSend \in Sends
      BY <1>3, <2>3 DEF Enqueue
    <3>2. log[nextSend].status = "none" /\ handed[nextSend] = 0
      BY <3>1 DEF QueueInv, HandedInv, Sends
    <3>3. /\ log'[nextSend].status = "queued"
          /\ \A i \in Sends : i # nextSend => log'[i] = log[i]
      BY <3>1 DEF QueueInv, TypeOK
    <3>4. HandedInv'
      BY <2>1, <3>1, <3>2, <3>3 DEF QueueInv, HandedInv, Sends
    <3>5. WorkerInv'
      <4>1. worker.pc \in Busy => worker.id \in Sends /\ worker.id # nextSend
        BY <3>2 DEF QueueInv, TypeOK, WorkerInv, Busy
      <4>2. QED
        BY <2>1, <3>3, <4>1 DEF QueueInv, WorkerInv
    <3>6. UnsentWasNotSent'
      BY <2>1, <3>3 DEF QueueInv, UnsentWasNotSent
    <3>7. QED
      BY <3>4, <3>5, <3>6 DEF QueueInv
  <2>4. QED
    BY <2>2, <2>3
<1>4. QED
  BY <1>1, <1>2, <1>3 DEF Queueing

\* The fields of the worker's record, and what a verdict makes of them.
LEMMA WorkerFields ==
  ASSUME worker \in WorkerStates
  PROVE  /\ \A pc \in STRING : /\ [worker EXCEPT !.pc = pc].pc = pc
                               /\ [worker EXCEPT !.pc = pc].id = worker.id
                               /\ [worker EXCEPT !.pc = pc].reason = worker.reason
         /\ \A x \in Reasons : /\ [worker EXCEPT !.pc = "fail", !.reason = x].pc = "fail"
                               /\ [worker EXCEPT !.pc = "fail", !.reason = x].id = worker.id
                               /\ [worker EXCEPT !.pc = "fail", !.reason = x].reason = x
BY DEF WorkerStates

LEMMA WorkStep ==
  ASSUME QueueInv, TypeOK', Work
  PROVE  QueueInv'
<1>t. TypeOK /\ worker \in WorkerStates
  BY DEF QueueInv, TypeOK
<1>b. worker.pc \in Busy => worker.id \in Sends
  BY <1>t DEF TypeOK, Busy
<1>1. CASE Wake \/ Leave \/ Drained \/ Abandon
  <2>1. worker'.pc \in {"off", "wait", "claim"} /\ run' \in {"up", "stopping"}
    <3>1. worker' \in {At("off"), At("wait"), At("claim")}
      BY <1>1 DEF Wake, Leave, Drained, Abandon
    <3>2. run' \in {"up", "stopping"}
      BY <1>1 DEF Wake, Leave, Drained, Abandon
    <3>3. QED
      BY <3>1, <3>2, WorkerChanges
  <2>2. UNCHANGED <<log, nextSend, handed, wire, accepted>>
    BY <1>1 DEF Wake, Leave, Drained, Abandon, provider
  <2>3. WorkerInv'
    BY <2>1 DEF WorkerInv, Busy
  <2>4. QED
    BY <2>2, <2>3, WorkerFrame
<1>2. CASE Claim
  <2>1. PICK i \in Sends :
          /\ log[i].status = "queued"
          /\ log' = [log EXCEPT ![i] = [log[i] EXCEPT !.status = "sending"]]
          /\ worker' = [pc |-> "resolve", id |-> i, book |-> log[i].book, reason |-> ""]
    BY <1>2 DEF Claim
  <2>2. log[i] \in Rows /\ handed[i] = 0 /\ ~(i >= nextSend)
    BY <2>1, <1>t DEF QueueInv, HandedInv, TypeOK, Sends
  <2>3. log'[i].status = "sending" /\ \A j \in Sends : j # i => log'[j] = log[j]
    BY <1>t, <2>1, <2>2 DEF TypeOK, Rows
  <2>4. UNCHANGED <<nextSend, run, handed, wire, accepted>> /\ run = "up"
    BY <1>2 DEF Claim, provider
  <2>5. HandedInv'
    BY <2>2, <2>3, <2>4 DEF QueueInv, HandedInv, Sends
  <2>6. WorkerInv'
    BY <2>1, <2>2, <2>3, <2>4 DEF WorkerInv
  <2>7. UnsentWasNotSent'
    BY <2>3, <2>4 DEF QueueInv, UnsentWasNotSent
  <2>8. QED
    BY <2>5, <2>6, <2>7 DEF QueueInv
<1>3. ASSUME NEW x \in Reasons, Verdict(x), worker.pc \in Busy, UNCHANGED provider,
             x \in BeforeHanding => handed[worker.id] = 0
      PROVE  QueueInv'
  <2>1. /\ worker'.pc = "fail" /\ worker'.id = worker.id /\ worker'.reason = x
        /\ UNCHANGED <<log, nextSend, run, handed, wire, accepted>>
    BY <1>t, <1>3, WorkerFields DEF Verdict, provider
  <2>2. WorkerInv'
    BY <1>3, <2>1 DEF QueueInv, WorkerInv, Busy
  <2>3. QED
    BY <2>1, <2>2, WorkerFrame
<1>4. CASE ResolveGone \/ ResolveFails \/ (\E r \in {"gone", "unreadable", "tooBig"} : FileFails(r))
  <2>1. worker.pc \in {"resolve", "file"} /\ handed[worker.id] = 0
    BY <1>4 DEF ResolveGone, ResolveFails, FileFails, QueueInv, WorkerInv
  <2>2. \E x \in {"gone", "lookup", "unreadable", "tooBig"} : Verdict(x)
    BY <1>4 DEF ResolveGone, ResolveFails, FileFails
  <2>3. UNCHANGED provider
    BY <2>2 DEF Verdict
  <2>4. QED
    BY <1>3, <2>1, <2>2, <2>3 DEF Busy, Reasons
<1>5. CASE TransportError \/ TimedOut \/ Panic
  <2>1. worker.pc \in Busy
    BY <1>5 DEF TransportError, TimedOut, Panic, Busy
  <2>2. \E x \in {"transport", "timeout", "crashed"} : Verdict(x)
    BY <1>5 DEF TransportError, TimedOut, Panic
  <2>3. UNCHANGED provider
    BY <2>2 DEF Verdict
  <2>4. QED
    BY <1>3, <2>1, <2>2, <2>3 DEF Reasons, BeforeHanding
<1>6. CASE Refused
  <2>1. /\ worker'.pc = "fail" /\ worker'.id = worker.id /\ worker'.reason = "transport"
        /\ UNCHANGED <<log, nextSend, run, handed, accepted>> /\ wire' \subseteq wire
        /\ run = "up" /\ worker.pc = "sent"
    BY <1>t, <1>6, WorkerFields DEF Refused, Reasons
  <2>2. WorkerInv'
    BY <2>1 DEF QueueInv, WorkerInv, Busy, BeforeHanding
  <2>3. HandedInv' /\ UnsentWasNotSent'
    BY <2>1 DEF QueueInv, HandedInv, UnsentWasNotSent
  <2>4. QED
    BY <2>2, <2>3 DEF QueueInv
<1>7. ASSUME NEW pc \in {"file", "hand", "sent", "deliver"}, Goes(pc)
      PROVE  /\ worker'.pc = pc /\ worker'.id = worker.id /\ worker'.reason = worker.reason
             /\ UNCHANGED <<log, nextSend, run>>
  BY <1>t, <1>7, WorkerFields DEF Goes
<1>8. CASE ResolveFile \/ ReadFile \/ Answered
  <2>1. \/ worker.pc = "resolve" /\ Goes("file")
        \/ worker.pc = "file" /\ Goes("hand")
        \/ worker.pc = "sent" /\ worker.id \in accepted /\ Goes("deliver")
    BY <1>8 DEF ResolveFile, ReadFile, Answered
  <2>2. UNCHANGED <<handed, wire, accepted>>
    BY <1>8 DEF ResolveFile, ReadFile, Answered, provider
  <2>3. WorkerInv' /\ UNCHANGED <<log, nextSend>>
    BY <1>7, <2>1, <2>2 DEF QueueInv, WorkerInv, Busy
  <2>4. QED
    BY <2>2, <2>3, WorkerFrame
<1>9. CASE Hand
  <2>1. PICK i \in Sends : i = worker.id
    BY <1>9, <1>b DEF Hand, Busy
  <2>2. /\ worker'.pc = "sent" /\ worker'.id = i /\ UNCHANGED <<log, nextSend, run, accepted>>
        /\ wire' = wire \cup {i} /\ worker.pc = "hand" /\ run = "up"
    BY <1>7, <1>9, <2>1 DEF Hand
  <2>3. handed[i] = 0 /\ log[i].status = "sending"
    BY <2>1, <2>2 DEF QueueInv, WorkerInv, Busy
  <2>4. handed'[i] = 1 /\ \A j \in Sends : j # i => handed'[j] = handed[j]
    BY <1>t, <1>9, <2>1, <2>3 DEF Hand, TypeOK
  <2>5. \A j \in wire \cup accepted : j \in Sends
    BY <1>t DEF TypeOK
  <2>6. HandedInv'
    BY <2>2, <2>3, <2>4, <2>5 DEF QueueInv, HandedInv
  <2>7. WorkerInv'
    BY <2>2, <2>3 DEF WorkerInv
  <2>8. UnsentWasNotSent'
    BY <2>2, <2>3, <2>4 DEF QueueInv, UnsentWasNotSent
  <2>9. QED
    BY <2>6, <2>7, <2>8 DEF QueueInv
<1>10. CASE Deliver \/ Fail
  <2>1. PICK i \in Sends : i = worker.id
    BY <1>10, <1>b DEF Deliver, Fail, Busy
  <2>2. /\ worker'.pc = "claim" /\ UNCHANGED <<nextSend, run, handed, wire, accepted>>
        /\ log[i].status = "sending" /\ run \notin {"down", "starting"}
    <3>1. worker' = At("claim") /\ UNCHANGED <<nextSend, run, handed, wire, accepted>>
      BY <1>10 DEF Deliver, Fail, provider
    <3>2. worker.pc \in {"deliver", "fail"}
      BY <1>10 DEF Deliver, Fail
    <3>3. log[i].status = "sending" /\ run \notin {"down", "starting"}
      BY <2>1, <3>2 DEF QueueInv, WorkerInv, Busy
    <3>4. QED
      BY <3>1, <3>3, WorkerChanges
  <2>3. \E s \in {"delivered", "failed"}, x \in Reasons :
           /\ log' = [log EXCEPT ![i] = [log[i] EXCEPT !.status = s, !.reason = x]] \/ log' = log
           /\ s = "failed" /\ x \in BeforeHanding => handed[i] = 0
    <3>1. CASE Deliver
      BY <2>1, <2>2, <3>1 DEF Deliver, Mark, Reasons
    <3>2. CASE Fail
      <4>1. worker.reason \in Reasons /\ (worker.reason \in BeforeHanding => handed[i] = 0)
        BY <1>t, <2>1, <3>2 DEF Fail, WorkerStates, QueueInv, WorkerInv
      <4>2. QED
        BY <2>1, <2>2, <3>2, <4>1 DEF Fail, Mark
    <3>3. QED
      BY <1>10, <3>1, <3>2
  <2>4. PICK s \in {"delivered", "failed"}, x \in Reasons :
           /\ log' = [log EXCEPT ![i] = [log[i] EXCEPT !.status = s, !.reason = x]] \/ log' = log
           /\ s = "failed" /\ x \in BeforeHanding => handed[i] = 0
    BY <2>3
  <2>5. /\ log' = log \/ (log'[i].status = s /\ log'[i].reason = x)
        /\ \A j \in Sends : j # i => log'[j] = log[j]
    <3>1. log \in [Sends -> Rows] /\ log[i] \in Rows
      BY <1>t DEF TypeOK
    <3>2. PICK row : row = [log[i] EXCEPT !.status = s, !.reason = x]
      OBVIOUS
    <3>3. row.status = s /\ row.reason = x
      BY <3>1, <3>2 DEF Rows
    <3>4. log' = [log EXCEPT ![i] = row] \/ log' = log
      BY <2>4, <3>2
    <3>5. QED
      BY <3>1, <3>3, <3>4
  <2>6. ~(i >= nextSend)
    BY <1>t, <2>2 DEF QueueInv, HandedInv, TypeOK, Sends
  <2>7. HandedInv'
    BY <2>2, <2>5, <2>6 DEF QueueInv, HandedInv, Sends
  <2>8. WorkerInv'
    BY <2>2 DEF WorkerInv, Busy
  <2>9. UnsentWasNotSent'
    BY <2>2, <2>4, <2>5 DEF QueueInv, UnsentWasNotSent
  <2>10. QED
    BY <2>7, <2>8, <2>9 DEF QueueInv
<1>11. QED
  BY <1>1, <1>2, <1>4, <1>5, <1>6, <1>8, <1>9, <1>10 DEF Work

\* A row that changes other than by the worker's hand keeps what it says, or
\* is failed as interrupted.
LEMMA OutsideRows ==
  ASSUME TypeOK, NEW i \in Sends
  PROVE  /\ FailInterrupted[i].status = IF log[i].status = "sending" THEN "failed" ELSE log[i].status
         /\ FailInterrupted[i].reason = IF log[i].status = "sending" THEN "interrupted" ELSE log[i].reason
         /\ \A from \in Books, to \in Books \cup {Null} :
              /\ Repoint(from, to)[i].status = log[i].status
              /\ Repoint(from, to)[i].reason = log[i].reason
<1>1. log[i] \in Rows
  BY DEF TypeOK
<1>2. QED
  BY <1>1 DEF FailInterrupted, Repoint, Rows

LEMMA OutsideStep ==
  ASSUME QueueInv, TypeOK',
         \/ Stop \/ Exit \/ Start \/ Recover
         \/ \E b \in Books : ReplaceBook(b) \/ DeleteBook(b) \/ MoveBook(b)
         \/ \E i \in Sends : Accept(i)
  PROVE  QueueInv'
<1>t. TypeOK /\ (worker.pc \in Busy => worker.id \in Sends)
  BY DEF QueueInv, TypeOK, Busy
<1>1. CASE Stop \/ Start
  <2>1. UNCHANGED <<log, nextSend, handed, wire, accepted, worker>>
    BY <1>1 DEF Stop, Start, provider
  <2>2. run' = "stopping" \/ worker.pc = "off"
    BY <1>1 DEF Stop, Start, QueueInv, WorkerInv
  <2>3. QED
    BY <2>1, <2>2, QueueFrame
<1>2. CASE Exit
  <2>1. worker'.pc = "off" /\ UNCHANGED <<log, nextSend, handed, wire, accepted>>
    BY <1>2, WorkerChanges DEF Exit, provider
  <2>2. WorkerInv'
    BY <2>1 DEF WorkerInv, Busy
  <2>3. QED
    BY <2>1, <2>2, WorkerFrame
<1>3. CASE Recover
  <2>1. /\ worker'.pc = "claim" /\ run' = "up" /\ log' \in {log, FailInterrupted}
        /\ UNCHANGED <<nextSend, handed, wire, accepted>>
    BY <1>3, WorkerChanges DEF Recover, provider
  <2>2. ASSUME NEW i \in Sends
        PROVE  \/ /\ log[i].status = "sending" /\ log'[i].status = "failed"
                  /\ log'[i].reason = "interrupted"
               \/ log'[i].status = log[i].status /\ log'[i].reason = log[i].reason
    <3>1. CASE log' = log
      BY <3>1
    <3>2. CASE log' = FailInterrupted
      <4>1. log'[i] = FailInterrupted[i]
        BY <3>2
      <4>2. QED
        BY <1>t, <4>1, OutsideRows
    <3>3. QED
      BY <2>1, <3>1, <3>2
  <2>3. HandedInv'
    BY <2>1, <2>2 DEF QueueInv, HandedInv
  <2>4. UnsentWasNotSent'
    BY <2>1, <2>2 DEF QueueInv, UnsentWasNotSent, BeforeHanding
  <2>5. WorkerInv'
    BY <2>1 DEF WorkerInv, Busy
  <2>6. QED
    BY <2>3, <2>4, <2>5 DEF QueueInv
<1>4. CASE \E b \in Books : ReplaceBook(b) \/ DeleteBook(b) \/ MoveBook(b)
  <2>1. \/ log' = log
        \/ \E from \in Books, to \in Books \cup {Null} : log' = Repoint(from, to)
    BY <1>4 DEF ReplaceBook, DeleteBook, MoveBook
  <2>2. UNCHANGED <<nextSend, handed, wire, accepted, worker, run>>
    BY <1>4 DEF ReplaceBook, DeleteBook, MoveBook, provider
  <2>3. \A i \in Sends : log'[i].status = log[i].status /\ log'[i].reason = log[i].reason
    BY <1>t, <2>1, OutsideRows
  <2>4. HandedInv' /\ UnsentWasNotSent'
    BY <2>2, <2>3 DEF QueueInv, HandedInv, UnsentWasNotSent
  <2>5. WorkerInv'
    BY <1>t, <2>2, <2>3 DEF QueueInv, WorkerInv
  <2>6. QED
    BY <2>4, <2>5 DEF QueueInv
<1>5. ASSUME NEW i \in Sends, Accept(i) PROVE QueueInv'
  <2>1. /\ i \in wire /\ accepted' = accepted \cup {i} /\ wire' \subseteq wire
        /\ UNCHANGED <<log, nextSend, handed, worker, run>>
    BY <1>5 DEF Accept
  <2>2. QED
    BY <2>1 DEF QueueInv, HandedInv, WorkerInv, UnsentWasNotSent
<1>6. QED
  BY <1>1, <1>2, <1>3, <1>4, <1>5

LEMMA QueueStep == QueueInv /\ [Next]_vars => QueueInv'
<1> SUFFICES ASSUME QueueInv, [Next]_vars PROVE QueueInv'
  OBVIOUS
<1>1. TypeOK'
  BY TypeStep DEF QueueInv
<1>2. CASE UNCHANGED vars
  <2>1. UNCHANGED <<log, nextSend, handed, wire, accepted, worker, run>>
    BY <1>2 DEF vars
  <2>2. QED
    BY <1>1, <2>1, QueueFrame
<1>3. CASE Next
  BY <1>1, <1>3, QueueingStep, WorkStep, OutsideStep DEF Next
<1>4. QED
  BY <1>2, <1>3

LEMMA QueueAlways == Spec => []QueueInv
<1>1. QED
  BY InitQueue, QueueStep, PTL DEF Spec

\* No send reaches the provider twice, through any sequence of restarts,
\* failed writes, panics and double clicks.
THEOREM HandedAtMostOnce == Spec => []HandedOnce
<1>1. QueueInv => HandedOnce
  BY DEF QueueInv, HandedInv, HandedOnce
<1>2. QED
  BY <1>1, QueueAlways, PTL

\* A sentence that says the message never left is true.
THEOREM UnsentReasons == Spec => []UnsentWasNotSent
<1>1. QueueInv => UnsentWasNotSent
  BY DEF QueueInv
<1>2. QED
  BY <1>1, QueueAlways, PTL

-----------------------------------------------------------------------------
(***************************************************************************)
(* The refinement: every step of the queue is a step of SendPromise, or    *)
(* none, read off what it does to the status of the rows.                  *)
(***************************************************************************)
Status == [i \in Sends |-> log[i].status]

\* A step that leaves every status and the provider alone is none.
LEMMA PromiseStutter ==
  ASSUME UNCHANGED <<handed, accepted>>,
         \A i \in Sends : log'[i].status = log[i].status
  PROVE  UNCHANGED Promise!vars
BY DEF Promise!vars

\* A step that moves the status of one row moves the promise the same way.
LEMMA PromiseMoves ==
  ASSUME NEW i \in Sends, NEW to,
         log'[i].status = to,
         \A j \in Sends : j # i => log'[j].status = log[j].status
  PROVE  Status' = [Status EXCEPT ![i] = to]
BY DEF Status

LEMMA PromiseInit == Init => Promise!Init
<1> SUFFICES ASSUME Init PROVE Promise!Init
  OBVIOUS
<1>1. \A i \in Sends : log[i].status = "none"
  BY DEF Init, NoRow
<1>2. [i \in Sends |-> log[i].status] = [i \in Sends |-> "none"]
  BY <1>1
<1>3. handed = [i \in Sends |-> 0] /\ accepted = {}
  BY DEF Init
<1>4. QED
  BY <1>2, <1>3 DEF Promise!Init

LEMMA PromiseWork ==
  ASSUME QueueInv, Work
  PROVE  [Promise!Next]_(Promise!vars)
<1>t. TypeOK /\ log \in [Sends -> Rows]
  BY DEF QueueInv, TypeOK
<1>b. worker.pc \in Busy => worker.id \in Sends /\ log[worker.id].status = "sending"
  BY <1>t DEF TypeOK, Busy, QueueInv, WorkerInv
<1>1. CASE UNCHANGED <<log, handed, accepted>>
  BY <1>1, PromiseStutter
<1>2. CASE Claim
  <2>1. PICK i \in Sends :
          /\ log[i].status = "queued"
          /\ log' = [log EXCEPT ![i] = [log[i] EXCEPT !.status = "sending"]]
    BY <1>2 DEF Claim
  <2>2. log[i] \in Rows
    BY <1>t
  <2>3. log'[i].status = "sending" /\ \A j \in Sends : j # i => log'[j].status = log[j].status
    BY <1>t, <2>1, <2>2 DEF Rows
  <2>a. Status[i] = "queued"
    BY <2>1 DEF Status
  <2>b. Status' = [Status EXCEPT ![i] = "sending"]
    BY <2>3, PromiseMoves
  <2>4. Status' = [Status EXCEPT ![i] = "sending"] /\ Status[i] = "queued"
    BY <2>a, <2>b
  <2>5. UNCHANGED <<handed, accepted>>
    BY <1>2 DEF Claim, provider
  <2>6. Promise!Take(i)
    BY <2>4, <2>5 DEF Promise!Take, Promise!Moves, Status
  <2>7. QED
    BY <2>6 DEF Promise!Next
<1>3. CASE Hand
  <2>1. PICK i \in Sends : i = worker.id
    BY <1>3, <1>b DEF Hand, Busy
  <2>2. log[i].status = "sending" /\ handed[i] = 0
    BY <1>3, <1>b, <2>1 DEF Hand, Busy, QueueInv, WorkerInv
  <2>3. handed \in [Sends -> Nat]
    BY <1>t DEF TypeOK
  <2>4. handed' = [handed EXCEPT ![i] = 1] /\ UNCHANGED <<log, accepted>>
    BY <1>3, <2>1, <2>2, <2>3 DEF Hand, Goes
  <2>5. Promise!Hand(i)
    BY <2>2, <2>4 DEF Promise!Hand
  <2>6. QED
    BY <2>5 DEF Promise!Next
<1>4. ASSUME NEW s \in {"delivered", "failed"}, NEW x \in Reasons, Mark(s, x),
             NEW i \in Sends, i = worker.id, log[i].status = "sending"
      PROVE  \/ UNCHANGED log
             \/ Status[i] = "sending" /\ Status' = [Status EXCEPT ![i] = s]
  <2>1. PICK row : row = [log[i] EXCEPT !.status = s, !.reason = x]
    OBVIOUS
  <2>2. log[i] \in Rows
    BY <1>t
  <2>3. row.status = s
    BY <2>1, <2>2 DEF Rows
  <2>4. log' = log \/ log' = [log EXCEPT ![i] = row]
    BY <1>4, <2>1 DEF Mark
  <2>5. CASE log' = [log EXCEPT ![i] = row]
    <3>1. log'[i].status = s /\ \A j \in Sends : j # i => log'[j].status = log[j].status
      BY <1>t, <2>3, <2>5
    <3>2. Status' = [Status EXCEPT ![i] = s]
      BY <3>1, PromiseMoves
    <3>3. QED
      BY <1>4, <3>2 DEF Status
  <2>6. QED
    BY <2>4, <2>5
<1>5. CASE Deliver
  <2>1. PICK i \in Sends : i = worker.id
    BY <1>5, <1>b DEF Deliver, Busy
  <2>2. log[i].status = "sending" /\ i \in accepted /\ UNCHANGED <<handed, accepted>>
    BY <1>5, <1>b, <2>1 DEF Deliver, Busy, QueueInv, WorkerInv, provider
  <2>3. UNCHANGED log \/ (Status[i] = "sending" /\ Status' = [Status EXCEPT ![i] = "delivered"])
    BY <1>4, <1>5, <2>1, <2>2 DEF Deliver, Reasons
  <2>4. UNCHANGED log \/ Promise!Deliver(i)
    BY <2>2, <2>3 DEF Promise!Deliver, Promise!Moves, Status
  <2>5. QED
    BY <1>1, <2>2, <2>4 DEF Promise!Next
<1>6. CASE Fail
  <2>1. PICK i \in Sends : i = worker.id
    BY <1>6, <1>b DEF Fail, Busy
  <2>2. /\ log[i].status = "sending" /\ UNCHANGED <<handed, accepted>> /\ worker.reason \in Reasons
    BY <1>6, <1>b, <1>t, <2>1 DEF Fail, Busy, provider, TypeOK, WorkerStates
  <2>3. UNCHANGED log \/ (Status[i] = "sending" /\ Status' = [Status EXCEPT ![i] = "failed"])
    BY <1>4, <1>6, <2>1, <2>2 DEF Fail
  <2>4. UNCHANGED log \/ Promise!Fail({i})
    BY <2>2, <2>3 DEF Promise!Fail, Status
  <2>5. QED
    BY <1>1, <2>2, <2>4 DEF Promise!Next
<1>7. QED
  <2>1. CASE Wake \/ Leave \/ Drained \/ Abandon
    BY <1>1, <2>1 DEF Wake, Leave, Drained, Abandon, provider
  <2>2. CASE ResolveFile \/ ReadFile \/ Answered
    BY <1>1, <2>2 DEF ResolveFile, ReadFile, Answered, Goes, provider
  <2>3. CASE ResolveGone \/ ResolveFails \/ TransportError \/ TimedOut \/ Panic
             \/ \E r \in {"gone", "unreadable", "tooBig"} : FileFails(r)
    <3>1. \E x \in Reasons : Verdict(x)
      BY <2>3 DEF ResolveGone, ResolveFails, TransportError, TimedOut, Panic, FileFails, Reasons
    <3>2. QED
      BY <1>1, <3>1 DEF Verdict, provider
  <2>4. CASE Refused
    BY <1>1, <2>4 DEF Refused
  <2>5. QED
    BY <1>2, <1>3, <1>5, <1>6, <2>1, <2>2, <2>3, <2>4 DEF Work

LEMMA PromiseQueueing ==
  ASSUME QueueInv, NEW q \in Requests, Queueing(q)
  PROVE  [Promise!Next]_(Promise!vars)
<1>1. UNCHANGED <<handed, accepted>>
  BY DEF Queueing, Enqueue, EnqueueFails, Poke, provider
<1>2. CASE UNCHANGED log
  BY <1>1, <1>2, PromiseStutter
<1>3. CASE ~UNCHANGED log
  <2>1. PICK row : /\ row.status = "queued" /\ log' = [log EXCEPT ![nextSend] = row]
                   /\ nextSend \in Sends
    BY <1>3 DEF Queueing, Enqueue, EnqueueFails, Poke
  <2>2. log[nextSend].status = "none" /\ log \in [Sends -> Rows]
    BY <2>1 DEF QueueInv, HandedInv, TypeOK, Sends
  <2>3. PICK i \in Sends : i = nextSend
    BY <2>1
  <2>4. /\ log'[i].status = "queued"
        /\ \A j \in Sends : j # i => log'[j].status = log[j].status
    BY <2>1, <2>2, <2>3
  <2>5. Status' = [Status EXCEPT ![i] = "queued"] /\ Status[i] = "none"
    BY <2>2, <2>3, <2>4, PromiseMoves DEF Status
  <2>6. Promise!Queue(i)
    BY <1>1, <2>5 DEF Promise!Queue, Promise!Moves, Status
  <2>7. QED
    BY <2>6 DEF Promise!Next
<1>4. QED
  BY <1>2, <1>3

LEMMA PromiseOutside ==
  ASSUME QueueInv,
         \/ Stop \/ Exit \/ Start \/ Recover
         \/ \E b \in Books : ReplaceBook(b) \/ DeleteBook(b) \/ MoveBook(b)
         \/ \E i \in Sends : Accept(i)
  PROVE  [Promise!Next]_(Promise!vars)
<1>t. TypeOK
  BY DEF QueueInv
<1>1. CASE Stop \/ Exit \/ Start
  BY <1>1, PromiseStutter DEF Stop, Exit, Start, provider
<1>2. CASE Recover
  <2>1. UNCHANGED <<handed, accepted>> /\ log' \in {log, FailInterrupted}
    BY <1>2 DEF Recover, provider
  <2>2. CASE log' = log
    BY <2>1, <2>2, PromiseStutter
  <2>3. CASE log' = FailInterrupted
    <3>1. PICK is \in SUBSET Sends : is = {i \in Sends : Status[i] = "sending"}
      OBVIOUS
    <3>2. \A i \in Sends : log'[i].status = IF i \in is THEN "failed" ELSE Status[i]
      BY <1>t, <2>3, <3>1, OutsideRows DEF Status
    <3>3. Status' = [i \in Sends |-> IF i \in is THEN "failed" ELSE Status[i]]
      BY <3>2 DEF Status
    <3>4. Promise!Fail(is)
      BY <2>1, <3>1, <3>3 DEF Promise!Fail, Status
    <3>5. QED
      BY <3>4 DEF Promise!Next
  <2>4. QED
    BY <2>1, <2>2, <2>3
<1>3. CASE \E b \in Books : ReplaceBook(b) \/ DeleteBook(b) \/ MoveBook(b)
  <2>1. \/ log' = log
        \/ \E from \in Books, to \in Books \cup {Null} : log' = Repoint(from, to)
    BY <1>3 DEF ReplaceBook, DeleteBook, MoveBook
  <2>2. UNCHANGED <<handed, accepted>>
    BY <1>3 DEF ReplaceBook, DeleteBook, MoveBook, provider
  <2>3. \A i \in Sends : log'[i].status = log[i].status
    BY <1>t, <2>1, OutsideRows
  <2>4. QED
    BY <2>2, <2>3, PromiseStutter
<1>4. ASSUME NEW i \in Sends, Accept(i) PROVE Promise!Next
  <2>1. handed[i] = 1
    BY <1>4 DEF Accept, QueueInv, HandedInv
  <2>2. Promise!Accept(i)
    BY <1>4, <2>1 DEF Accept, Promise!Accept
  <2>3. QED
    BY <2>2 DEF Promise!Next
<1>5. QED
  BY <1>1, <1>2, <1>3, <1>4

LEMMA PromiseStep == QueueInv /\ [Next]_vars => [Promise!Next]_(Promise!vars)
<1> SUFFICES ASSUME QueueInv, [Next]_vars PROVE [Promise!Next]_(Promise!vars)
  OBVIOUS
<1>1. CASE UNCHANGED vars
  BY <1>1, PromiseStutter DEF vars
<1>2. ASSUME NEW q \in Requests, NEW b \in Books, NEW a \in Addresses, Ask(q, b, a)
      PROVE  [Promise!Next]_(Promise!vars)
  BY <1>2, PromiseStutter DEF Ask, provider
<1>3. CASE Next
  BY <1>2, <1>3, PromiseQueueing, PromiseWork, PromiseOutside DEF Next
<1>4. QED
  BY <1>1, <1>3

\* The queue implements what a press of the button promises: settled rows are
\* history, and delivered is written only of a message the provider took.
THEOREM QueueKeepsPromise == Spec => KeepsPromise
<1>1. Init => Promise!Init
  BY PromiseInit
<1>2. QueueInv /\ [Next]_vars => [Promise!Next]_(Promise!vars)
  BY PromiseStep
<1>3. QED
  BY <1>1, <1>2, QueueAlways, PTL DEF Spec, KeepsPromise, Promise!Spec

-----------------------------------------------------------------------------
(***************************************************************************)
(* One pending send per book and address.  The rows that name a book name  *)
(* one that exists, so the successor a replacement makes has none yet, and *)
(* the rows that move to it were apart before they moved.                  *)
(***************************************************************************)
ShelfInv ==
  /\ \A b \in Books : b >= nextBook => shelf[b] = "unborn"
  /\ \A i \in Sends : log[i].book # Null => Exists(log[i].book)
  /\ \A i \in Sends : log[i].status = "none" => log[i].book = Null

PendingInv == TypeOK /\ ShelfInv /\ OnePending

\* A step that only settles rows or moves them along, and leaves the books
\* between them existing.
LEMMA PendingFrame ==
  ASSUME PendingInv, TypeOK',
         \A i \in Sends : /\ log'[i].book = log[i].book /\ log'[i].address = log[i].address
                          /\ log'[i].status \in Pending => log[i].status \in Pending
                          /\ log'[i].status = "none" => log[i].status = "none",
         nextBook' = nextBook,
         \A b \in Books : shelf'[b] = shelf[b] \/ (Exists(b) /\ Exists(b)')
  PROVE  PendingInv'
<1>1. \A b \in Books : b >= nextBook => shelf[b] = "unborn"
  BY DEF PendingInv, ShelfInv
<1>2. \A b \in Books : b >= nextBook => shelf'[b] = "unborn"
  BY <1>1 DEF Exists
<1>3. \A i \in Sends : log'[i].book # Null => Exists(log[i].book)'
  <2> TAKE i \in Sends
  <2>1. log[i].book \in Books \cup {Null}
    BY DEF PendingInv, TypeOK, Rows
  <2>2. log[i].book # Null => Exists(log[i].book)
    BY DEF PendingInv, ShelfInv
  <2>3. QED
    BY <2>1, <2>2 DEF Exists
<1>4. OnePending'
  BY DEF PendingInv, OnePending
<1>5. \A i \in Sends : log'[i].status = "none" => log'[i].book = Null
  BY DEF PendingInv, ShelfInv
<1>6. QED
  BY <1>2, <1>3, <1>4, <1>5 DEF PendingInv, ShelfInv

\* A row's status alone changes, from pending.
LEMMA StatusFrame ==
  ASSUME PendingInv, TypeOK', NEW i \in Sends, log[i].status \in Pending,
         NEW s \in {"sending", "delivered", "failed"}, NEW x \in Reasons,
         \/ log' = [log EXCEPT ![i].status = s, ![i].reason = x]
         \/ log' = [log EXCEPT ![i].status = s]
         \/ log' = log,
         UNCHANGED <<shelf, nextBook>>
  PROVE  PendingInv'
<1>1. log \in [Sends -> Rows]
  BY DEF PendingInv, TypeOK
<1>2. \A j \in Sends : /\ log'[j].book = log[j].book /\ log'[j].address = log[j].address
                       /\ log'[j].status \in Pending => log[j].status \in Pending
                       /\ log'[j].status = "none" => log[j].status = "none"
  BY <1>1 DEF Rows
<1>3. QED
  BY <1>2, PendingFrame

LEMMA EnqueuePending ==
  ASSUME PendingInv, TypeOK', NEW q \in Requests, Enqueue(q)
  PROVE  PendingInv'
<1> DEFINE r == reqs[q]
           row == [status |-> "queued", book |-> r.book, address |-> r.address,
                   reason |-> "", at |-> r.at]
<1>1. log \in [Sends -> Rows] /\ UNCHANGED <<shelf, nextBook>>
  BY DEF PendingInv, TypeOK, Enqueue, books
<1>2. CASE log' = log
  BY <1>1, <1>2, PendingFrame
<1>3. CASE log' # log
  <2>1. /\ log' = [log EXCEPT ![nextSend] = row] /\ nextSend \in Sends
        /\ Exists(r.book) /\ PendingFor(r.book, r.address) = {}
    BY <1>3 DEF Enqueue
  <2>2. \A i \in Sends : log'[i] = IF i = nextSend THEN row ELSE log[i]
    BY <1>1, <2>1
  <2>b. log'[nextSend] = row
    BY <2>1, <2>2
  <2>c. row.status = "queued" /\ row.book = r.book /\ row.address = r.address
    OBVIOUS
  <2>d. \A i \in Sends : i # nextSend => log'[i] = log[i]
    <3> HIDE DEF row
    <3> QED
      BY <2>2
  <2>a. /\ log'[nextSend].status = "queued" /\ log'[nextSend].book = r.book
        /\ log'[nextSend].address = r.address
        /\ \A i \in Sends : i # nextSend => log'[i] = log[i]
    BY <2>b, <2>c, <2>d
  <2>3. \A i \in Sends : log'[i].book # Null => Exists(log[i].book)'
    BY <1>1, <2>1, <2>a DEF PendingInv, ShelfInv, Exists
  <2>4. \A i \in Sends : ~(log[i].status \in Pending /\ log[i].book = r.book
                           /\ log[i].address = r.address)
    BY <2>1 DEF PendingFor
  <2>5. OnePending'
    <3> HIDE DEF r, row
    <3> QED
      BY <2>4, <2>a DEF PendingInv, OnePending
  <2>6. \A i \in Sends : log'[i].status = "none" => log'[i].book = Null
    BY <2>a DEF PendingInv, ShelfInv
  <2>7. \A c \in Books : c >= nextBook' => shelf'[c] = "unborn"
    BY <1>1 DEF PendingInv, ShelfInv
  <2>8. QED
    BY <2>3, <2>5, <2>6, <2>7 DEF PendingInv, ShelfInv
<1>4. QED
  BY <1>2, <1>3

LEMMA WorkPending ==
  ASSUME PendingInv, WorkerInv, TypeOK', Work
  PROVE  PendingInv'
<1>1. CASE UNCHANGED <<log, shelf, nextBook>>
  BY <1>1, PendingFrame
<1>2. CASE Claim
  <2>1. UNCHANGED <<shelf, nextBook>>
    BY <1>2 DEF Claim, books
  <2>2. PICK i \in Sends : log[i].status = "queued" /\ log' = [log EXCEPT ![i].status = "sending"]
    BY <1>2 DEF Claim
  <2>3. "" \in Reasons
    BY DEF Reasons
  <2>4. QED
    BY <2>1, <2>2, <2>3, StatusFrame DEF Pending
<1>3. CASE Deliver \/ Fail
  <2>1. UNCHANGED <<shelf, nextBook>>
    BY <1>3 DEF Deliver, Fail, books
  <2>2. worker.pc \in Busy /\ worker.id \in Sends /\ log[worker.id].status \in Pending
    BY <1>3 DEF Deliver, Fail, WorkerInv, Busy, PendingInv, TypeOK, Pending
  <2>3. worker.reason \in Reasons /\ "" \in Reasons
    BY DEF PendingInv, TypeOK, WorkerStates, Reasons
  <2>4. PICK s \in {"delivered", "failed"}, x \in Reasons :
          \/ log' = [log EXCEPT ![worker.id].status = s, ![worker.id].reason = x]
          \/ log' = log
    BY <1>3, <2>3 DEF Deliver, Fail, Mark
  <2>5. QED
    BY <2>1, <2>2, <2>4, StatusFrame
<1>4. QED
  BY <1>1, <1>2, <1>3
  DEF Work, Wake, Leave, Drained, ResolveFile, ResolveGone, ResolveFails, ReadFile, FileFails,
      Hand, Answered, Refused, TransportError, TimedOut, Abandon, Panic, Verdict, Goes, books

LEMMA ReplacePending ==
  ASSUME PendingInv, TypeOK', NEW b \in Books, ReplaceBook(b)
  PROVE  PendingInv'
<1>1. /\ log \in [Sends -> Rows] /\ nextBook \in Books /\ Exists(b) /\ nextBook # Null
      /\ shelf' = [shelf EXCEPT ![b] = "deleted", ![nextBook] = "live"]
      /\ nextBook' = nextBook + 1 /\ log' = Repoint(b, nextBook)
      /\ shelf \in [Books -> {"unborn", "live", "missing", "deleted"}]
  BY DEF PendingInv, TypeOK, ReplaceBook, Books, Null
<1>2. shelf[nextBook] = "unborn" /\ b # nextBook /\ b < nextBook
  BY <1>1 DEF PendingInv, ShelfInv, Exists, Books
<1>3. \A i \in Sends :
        log[i].book # nextBook /\ (log[i].book # Null => log[i].book \in Books /\ Exists(log[i].book))
  BY <1>1, <1>2 DEF PendingInv, ShelfInv, Exists, Rows
<1>4. \A i \in Sends :
        /\ log'[i].status = log[i].status /\ log'[i].address = log[i].address
        /\ log'[i].book = log[i].book \/ (log[i].book = b /\ log'[i].book = nextBook)
        /\ log[i].book = b => log'[i].book = nextBook
  BY <1>1, <1>2 DEF Repoint, Rows, PendingInv, ShelfInv, Null, Books
<1>5. OnePending'
  <2> SUFFICES ASSUME NEW i \in Sends, NEW j \in Sends,
                      log'[i].status \in Pending, log'[j].status \in Pending,
                      log'[i].book = log'[j].book, log'[i].address = log'[j].address,
                      log'[i].book # Null
               PROVE  i = j
    BY DEF OnePending
  <2>1. log[i].status \in Pending /\ log[j].status \in Pending /\ log[i].address = log[j].address
    BY <1>4
  <2>2. log[i].book = log[j].book /\ log[i].book # Null
    BY <1>1, <1>3, <1>4 DEF Null, Books
  <2>3. QED
    BY <2>1, <2>2 DEF PendingInv, OnePending
<1>6. \A i \in Sends : log'[i].book # Null => Exists(log[i].book)'
  BY <1>1, <1>2, <1>3, <1>4 DEF Exists
<1>7. \A c \in Books : c >= nextBook' => shelf'[c] = "unborn"
  BY <1>1, <1>2 DEF PendingInv, ShelfInv, Books
<1>8. \A i \in Sends : log'[i].status = "none" => log'[i].book = Null
  BY <1>1, <1>4 DEF PendingInv, ShelfInv, Null, Books
<1>9. QED
  BY <1>5, <1>6, <1>7, <1>8 DEF PendingInv, ShelfInv

LEMMA DeletePending ==
  ASSUME PendingInv, TypeOK', NEW b \in Books, DeleteBook(b)
  PROVE  PendingInv'
<1>1. /\ log \in [Sends -> Rows] /\ Exists(b) /\ shelf' = [shelf EXCEPT ![b] = "deleted"]
      /\ nextBook' = nextBook /\ log' = Repoint(b, Null)
      /\ shelf \in [Books -> {"unborn", "live", "missing", "deleted"}]
  BY DEF PendingInv, TypeOK, DeleteBook
<1>2. \A i \in Sends :
        /\ log'[i].status = log[i].status /\ log'[i].address = log[i].address
        /\ log'[i].book = IF log[i].book = b THEN Null ELSE log[i].book
  BY <1>1 DEF Repoint, Rows, PendingInv, ShelfInv, Null, Books
<1>3. OnePending'
  BY <1>2 DEF PendingInv, OnePending
<1>4. \A i \in Sends : log'[i].book # Null => log'[i].book \in Books /\ Exists(log[i].book)'
  BY <1>1, <1>2 DEF PendingInv, ShelfInv, Exists, Rows
<1>5. \A c \in Books : c >= nextBook' => shelf'[c] = "unborn"
  BY <1>1 DEF PendingInv, ShelfInv, Exists
<1>6. \A i \in Sends : log'[i].status = "none" => log'[i].book = Null
  BY <1>2 DEF PendingInv, ShelfInv
<1>7. QED
  BY <1>3, <1>4, <1>5, <1>6 DEF PendingInv, ShelfInv

LEMMA OutsidePending ==
  ASSUME PendingInv, TypeOK',
         \/ Stop \/ Exit \/ Start \/ Recover
         \/ \E b \in Books : ReplaceBook(b) \/ DeleteBook(b) \/ MoveBook(b)
         \/ \E i \in Sends : Accept(i)
  PROVE  PendingInv'
<1>1. CASE UNCHANGED <<log, shelf, nextBook>>
  BY <1>1, PendingFrame
<1>2. CASE Recover
  <2>1. UNCHANGED <<shelf, nextBook>> /\ (log' = log \/ log' = FailInterrupted)
    BY <1>2 DEF Recover, books
  <2>2. \A i \in Sends : /\ log'[i].book = log[i].book /\ log'[i].address = log[i].address
                         /\ log'[i].status \in Pending => log[i].status \in Pending
                         /\ log'[i].status = "none" => log[i].status = "none"
    <3> TAKE i \in Sends
    <3>1. log[i] \in Rows
      BY DEF PendingInv, TypeOK
    <3>2. log'[i] = log[i] \/ (log[i].status = "sending" /\ log'[i] =
            [log[i] EXCEPT !.status = "failed", !.reason = "interrupted"])
      BY <2>1 DEF FailInterrupted
    <3>3. QED
      BY <3>1, <3>2 DEF Rows, Pending
  <2>3. QED
    BY <2>1, <2>2, PendingFrame
<1>3. ASSUME NEW b \in Books, MoveBook(b) PROVE PendingInv'
  <2>1. UNCHANGED <<log, nextBook>>
    BY <1>3 DEF MoveBook
  <2>2. \A c \in Books : shelf'[c] = shelf[c] \/ (Exists(c) /\ Exists(c)')
    BY <1>3 DEF MoveBook, Exists, PendingInv, TypeOK
  <2>3. QED
    BY <2>1, <2>2, PendingFrame
<1>4. QED
  BY <1>1, <1>2, <1>3, ReplacePending, DeletePending DEF Stop, Exit, Start, Accept, books

LEMMA InitPending == Init => PendingInv
<1> SUFFICES ASSUME Init PROVE PendingInv
  OBVIOUS
<1>1. TypeOK
  BY InitType
<1>2. ShelfInv
  <2>1. \A b \in Books : b >= nextBook => shelf[b] = "unborn"
    BY DEF Init, Books
  <2>2. \A i \in Sends : log[i].book = Null
    BY DEF Init, NoRow
  <2>3. QED
    BY <2>1, <2>2 DEF ShelfInv
<1>3. OnePending
  BY DEF Init, OnePending, NoRow
<1>4. QED
  BY <1>1, <1>2, <1>3 DEF PendingInv

LEMMA PendingStep == PendingInv /\ WorkerInv /\ [Next]_vars => PendingInv'
<1> SUFFICES ASSUME PendingInv, WorkerInv, [Next]_vars PROVE PendingInv'
  OBVIOUS
<1>1. TypeOK'
  BY TypeStep DEF PendingInv
<1>2. CASE UNCHANGED <<log, shelf, nextBook>>
  BY <1>1, <1>2, PendingFrame
<1>3. CASE Next
  BY <1>1, <1>2, <1>3, EnqueuePending, WorkPending, OutsidePending
  DEF Next, Queueing, Ask, EnqueueFails, Poke, books
<1>4. QED
  BY <1>2, <1>3 DEF vars

\* However tabs, clicks, restarts and replaced books interleave, at most one
\* send of a book to an address is pending.
THEOREM PendingOnce == Spec => []OnePending
<1>1. Init => PendingInv
  BY InitPending
<1>2. PendingInv /\ WorkerInv /\ [Next]_vars => PendingInv'
  BY PendingStep
<1>3. PendingInv => OnePending
  BY DEF PendingInv
<1>4. QueueInv => WorkerInv
  BY DEF QueueInv
<1>5. QED
  BY <1>1, <1>2, <1>3, <1>4, QueueAlways, PTL DEF Spec
=============================================================================
