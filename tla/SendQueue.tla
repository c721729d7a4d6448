----------------------------- MODULE SendQueue ------------------------------
(***************************************************************************)
(* Send to Kindle: the send_log table, the handlers that queue into it     *)
(* (service.QueueSend), the worker that drains it (sender.Worker), the     *)
(* mail provider, the restart that fails what was interrupted, and the     *)
(* scanner moving the books underneath.                                    *)
(*                                                                         *)
(* One DB.Write is one step, and so is one read.  The provider is modelled *)
(* from how the worker calls it: a request it was handed may be accepted   *)
(* at any later time, whether or not anyone still waits for the answer.    *)
(***************************************************************************)
EXTENDS Naturals, FiniteSets

CONSTANTS
  Requests,    \* HTTP requests that may be under way at once
  Addresses,   \* recipient addresses
  MaxSends,    \* bound: presses of the Send button, so rows of send_log
  MaxBooks,    \* bound: book ids ever given out
  MaxFaults,   \* bound: failed database writes and reads, and panics
  MaxStops     \* bound: shutdowns and crashes

ASSUME BoundAssumption ==
  /\ MaxSends \in Nat /\ MaxBooks \in Nat \ {0}
  /\ MaxFaults \in Nat /\ MaxStops \in Nat

Sends == 1 .. MaxSends
Books == 1 .. MaxBooks
Null == 0      \* send_log.book_id IS NULL, and no row yet

VARIABLES
  log,       \* send_log, by id; a row not inserted yet has status "none"
  nextSend,  \* the rowid the next insert gets
  shelf,     \* shelf[b]: what the books and book_files tables say of book b
  nextBook,  \* books' AUTOINCREMENT sequence
  reqs,      \* reqs[q]: where request q is in QueueSend
  asked,     \* presses so far; also the clock queued_at is read from
  notify,    \* the notify channel of capacity 1 holds a poke
  worker,    \* the worker: where it is in process, its Send, its verdict
  run,       \* the process
  handed,    \* handed[i]: times row i was given to transport.Send
  wire,      \* requests the provider may yet take
  accepted,  \* the rows whose message the provider accepted
  lost,      \* the rows left sending by a write that failed (history)
  faults, stops  \* how often something failed; how often the process ended

provider == <<handed, wire, accepted>>
books == <<shelf, nextBook>>
web == <<reqs, asked>>
vars == <<log, nextSend, shelf, nextBook, reqs, asked, notify, worker, run,
          handed, wire, accepted, lost, faults, stops>>

Reasons == {"", "gone", "lookup", "unreadable", "tooBig", "transport",
            "timeout", "crashed", "interrupted"}

Rows == [status : {"none", "queued", "sending", "delivered", "failed"},
         book : Books \cup {Null}, address : Addresses \cup {Null},
         reason : Reasons, at : Nat]

NoRow == [status |-> "none", book |-> Null, address |-> Null, reason |-> "", at |-> 0]
NoRequest == [pc |-> "idle", book |-> Null, address |-> Null, at |-> 0]

\* The worker between two sends.
At(pc) == [pc |-> pc, id |-> Null, book |-> Null, reason |-> ""]

Pending == {"queued", "sending"}
Exists(b) == shelf[b] \in {"live", "missing"}
Fault == faults < MaxFaults /\ faults' = faults + 1

-----------------------------------------------------------------------------
(***************************************************************************)
(* QueueSend, in a handler.                                                *)
(***************************************************************************)

\* FindBookByID finds the book and now is read, in nanoseconds.
Ask(q, b, a) ==
  /\ run \in {"starting", "up"}
  /\ reqs[q].pc = "idle" /\ asked < MaxSends /\ Exists(b)
  /\ reqs' = [reqs EXCEPT ![q] = [pc |-> "found", book |-> b, address |-> a, at |-> asked + 1]]
  /\ asked' = asked + 1
  /\ UNCHANGED <<log, nextSend, books, notify, worker, run, provider, faults, stops, lost>>

\* Mutant: the guard looks at queued rows alone, as EnqueueEnrichment's does.
EnqueueUnlessQueued(q) ==
  LET r == reqs[q]
      dup == \E i \in Sends : log[i].status = "queued" /\ log[i].book = r.book
                              /\ log[i].address = r.address
  IN  /\ r.pc = "found" /\ nextSend \in Sends
      /\ IF ~Exists(r.book) \/ dup
         THEN reqs' = [reqs EXCEPT ![q] = NoRequest] /\ UNCHANGED <<log, nextSend>>
         ELSE /\ log' = [log EXCEPT ![nextSend] =
                           [status |-> "queued", book |-> r.book, address |-> r.address,
                            reason |-> "", at |-> r.at]]
              /\ nextSend' = nextSend + 1
              /\ reqs' = [reqs EXCEPT ![q].pc = "poke"]
      /\ UNCHANGED <<books, asked, notify, worker, run, provider, faults, stops, lost>>

PendingFor(b, a) ==
  {i \in Sends : log[i].status \in Pending /\ log[i].book = b /\ log[i].address = a}

\* EnqueueSend: one transaction inserts unless the same send is pending.  The
\* foreign key refuses a book deleted since it was found.
Enqueue(q) ==
  LET r == reqs[q]
  IN  /\ r.pc = "found" /\ nextSend \in Sends
      /\ IF ~Exists(r.book) \/ PendingFor(r.book, r.address) # {}
         THEN /\ reqs' = [reqs EXCEPT ![q] = NoRequest]
              /\ UNCHANGED <<log, nextSend>>
         ELSE /\ log' = [log EXCEPT ![nextSend] =
                           [status |-> "queued", book |-> r.book, address |-> r.address,
                            reason |-> "", at |-> r.at]]
              /\ nextSend' = nextSend + 1
              /\ reqs' = [reqs EXCEPT ![q].pc = "poke"]
      /\ UNCHANGED <<books, asked, notify, worker, run, provider, faults, stops, lost>>

\* The write fails, or the client goes away before it.
EnqueueFails(q) ==
  /\ reqs[q].pc = "found" /\ Fault
  /\ reqs' = [reqs EXCEPT ![q] = NoRequest]
  /\ UNCHANGED <<log, nextSend, books, asked, notify, worker, run, provider, stops, lost>>

\* Notify: a full channel already holds a poke.
Poke(q) ==
  /\ reqs[q].pc = "poke"
  /\ notify' = TRUE
  /\ reqs' = [reqs EXCEPT ![q] = NoRequest]
  /\ UNCHANGED <<log, nextSend, books, asked, worker, run, provider, faults, stops, lost>>

-----------------------------------------------------------------------------
(***************************************************************************)
(* The worker: Run, drain and process.  ctx is done once run is            *)
(* "stopping".                                                             *)
(***************************************************************************)

\* Run's select: a poke or the tick starts a drain.
Wake ==
  /\ worker.pc = "wait" /\ run = "up"
  /\ notify' \in {FALSE, notify}
  /\ worker' = At("claim")
  /\ UNCHANGED <<log, nextSend, books, web, run, provider, faults, stops, lost>>

\* Run and drain return once ctx is done.
Leave ==
  /\ worker.pc \in {"wait", "claim"} /\ run = "stopping"
  /\ worker' = At("off")
  /\ UNCHANGED <<log, nextSend, books, web, notify, run, provider, faults, stops, lost>>

\* ClaimNextSend: the oldest queued row, returned as it is in the claim.
Claim ==
  /\ worker.pc = "claim" /\ run = "up"
  /\ \E i \in Sends :
       /\ log[i].status = "queued"
       /\ \A j \in Sends : log[j].status = "queued" => log[i].at <= log[j].at
       /\ log' = [log EXCEPT ![i].status = "sending"]
       /\ worker' = [pc |-> "resolve", id |-> i, book |-> log[i].book, reason |-> ""]
  /\ UNCHANGED <<nextSend, books, web, notify, run, provider, faults, stops, lost>>

\* The queue is empty, or the claim fails.
Drained ==
  /\ worker.pc = "claim" /\ run = "up"
  /\ \/ (\A i \in Sends : log[i].status # "queued") /\ UNCHANGED faults
     \/ Fault
  /\ worker' = At("wait")
  /\ UNCHANGED <<log, nextSend, books, web, notify, run, provider, stops, lost>>

Verdict(reason) ==
  /\ worker' = [worker EXCEPT !.pc = "fail", !.reason = reason]
  /\ UNCHANGED <<log, nextSend, books, web, notify, run, provider, stops, lost>>

Goes(pc) ==
  /\ worker' = [worker EXCEPT !.pc = pc]
  /\ UNCHANGED <<log, nextSend, books, web, notify, run, faults, stops, lost>>

\* resolveFile, of the book id the claim returned.
HasLocation == worker.book # Null /\ shelf[worker.book] = "live"

ResolveFile ==
  /\ worker.pc = "resolve" /\ run = "up" /\ HasLocation
  /\ Goes("file") /\ UNCHANGED provider

ResolveGone ==
  /\ worker.pc = "resolve" /\ UNCHANGED faults
  /\ worker.book = Null \/ (run = "up" /\ ~HasLocation)
  /\ Verdict("gone")

\* ListBookFiles fails, as it does on a context that is done.
ResolveFails ==
  /\ worker.pc = "resolve" /\ worker.book # Null
  /\ (run = "stopping" /\ UNCHANGED faults) \/ Fault
  /\ Verdict("lookup")

\* Stat, the size limit and the read: the file system decides.
ReadFile == worker.pc = "file" /\ Goes("hand") /\ UNCHANGED provider

FileFails(reason) ==
  /\ worker.pc = "file" /\ UNCHANGED faults
  /\ Verdict(reason)

\* transport.Send: the request leaves.
Hand ==
  /\ worker.pc = "hand" /\ run = "up"
  /\ handed' = [handed EXCEPT ![worker.id] = @ + 1]
  /\ wire' = wire \cup {worker.id}
  /\ Goes("sent") /\ UNCHANGED accepted

\* The provider's answer: a message id, or a refusal.
Answered ==
  /\ worker.pc = "sent" /\ worker.id \in accepted
  /\ Goes("deliver") /\ UNCHANGED provider

Refused ==
  /\ worker.pc = "sent" /\ run = "up" /\ worker.id \notin accepted
  /\ wire' = wire \ {worker.id}
  /\ worker' = [worker EXCEPT !.pc = "fail", !.reason = "transport"]
  /\ UNCHANGED <<log, nextSend, books, web, notify, run, handed, accepted, faults, stops, lost>>

\* Mutant: such an error is tried again from the top.
TransportErrorRetried ==
  /\ worker.pc \in {"hand", "sent"} /\ run = "up" /\ UNCHANGED faults
  /\ worker' = [worker EXCEPT !.pc = "resolve"]
  /\ UNCHANGED <<log, nextSend, books, web, notify, run, provider, stops, lost>>

\* An error of transport.Send with no answer in it: the request never left,
\* or the connection broke, at any point of the exchange.
TransportError ==
  /\ worker.pc \in {"hand", "sent"} /\ run = "up" /\ UNCHANGED faults
  /\ Verdict("transport")

\* The per-send deadline expires, perhaps before the request left.
TimedOut ==
  /\ worker.pc \in {"hand", "sent"} /\ run = "up" /\ UNCHANGED faults
  /\ Verdict("timeout")

\* Any error of transport.Send with ctx done leaves the row sending.
Abandon ==
  /\ worker.pc \in {"hand", "sent"} /\ run = "stopping"
  /\ worker' = At("claim")
  /\ UNCHANGED <<log, nextSend, books, web, notify, run, provider, faults, stops, lost>>

\* Mutant: the recovery of a panic records nothing.
PanicUnrecorded ==
  /\ worker.pc \in {"resolve", "file", "hand", "sent", "deliver"} /\ Fault
  /\ worker' = At("claim")
  /\ UNCHANGED <<log, nextSend, books, web, notify, run, provider, stops, lost>>

\* A panic anywhere in process is recovered there.
Panic ==
  /\ worker.pc \in {"resolve", "file", "hand", "sent", "deliver"} /\ Fault
  /\ Verdict("crashed")

\* MarkSendDelivered and MarkSendFailed, on a context of their own, touch
\* only a row that is sending; a write that fails is logged.
Mark(status, reason) ==
  \/ /\ log' = IF log[worker.id].status = "sending"
               THEN [log EXCEPT ![worker.id].status = status, ![worker.id].reason = reason]
               ELSE log
     /\ UNCHANGED <<lost, faults>>
  \/ Fault /\ lost' = lost \cup {worker.id} /\ UNCHANGED log

Deliver ==
  /\ worker.pc = "deliver" /\ Mark("delivered", "")
  /\ worker' = At("claim")
  /\ UNCHANGED <<nextSend, books, web, notify, run, provider, stops>>

Fail ==
  /\ worker.pc = "fail" /\ Mark("failed", worker.reason)
  /\ worker' = At("claim")
  /\ UNCHANGED <<nextSend, books, web, notify, run, provider, stops>>

-----------------------------------------------------------------------------
(***************************************************************************)
(* The process.  A shutdown cancels ctx and waits for the worker for a     *)
(* while; a crash, or the end of that wait, ends it wherever it is.  The   *)
(* server listens before the recovery, the worker starts after it.         *)
(***************************************************************************)
Stop ==
  /\ run \in {"starting", "up"} /\ stops < MaxStops
  /\ run' = "stopping" /\ stops' = stops + 1
  /\ UNCHANGED <<log, nextSend, books, web, notify, worker, provider, faults, lost>>

Exit ==
  /\ run = "stopping" \/ (run \in {"starting", "up"} /\ stops < MaxStops)
  /\ stops' = IF run = "stopping" THEN stops ELSE stops + 1
  /\ run' = "down"
  /\ worker' = At("off") /\ notify' = FALSE
  /\ reqs' = [q \in Requests |-> NoRequest]
  /\ UNCHANGED <<log, nextSend, books, asked, provider, faults, lost>>

Start ==
  /\ run = "down"
  /\ run' = "starting"
  /\ UNCHANGED <<log, nextSend, books, web, notify, worker, provider, faults, stops, lost>>

\* Mutant: what was interrupted goes back into the queue, as
\* RequeueInterruptedEnrichment does with its own.
RequeueInterrupted ==
  [i \in Sends |-> IF log[i].status = "sending" THEN [log[i] EXCEPT !.status = "queued"]
                   ELSE log[i]]

\* FailInterruptedSends, then the worker.  The failure of the former is
\* logged and the worker starts all the same.
FailInterrupted ==
  [i \in Sends |-> IF log[i].status = "sending"
                   THEN [log[i] EXCEPT !.status = "failed", !.reason = "interrupted"]
                   ELSE log[i]]

Recover ==
  /\ run = "starting"
  /\ \/ log' = FailInterrupted /\ lost' = {} /\ UNCHANGED faults
     \/ Fault /\ lost' = {i \in Sends : log[i].status = "sending"} /\ UNCHANGED log
  /\ run' = "up" /\ worker' = At("claim")
  /\ UNCHANGED <<nextSend, books, web, notify, provider, stops>>

-----------------------------------------------------------------------------
(***************************************************************************)
(* The scanner, as far as send_log sees it: CreateBookWithFile replaces a  *)
(* book and moves its sends, a book deleted otherwise leaves them NULL     *)
(* (ON DELETE SET NULL), and its last live location goes or comes back.    *)
(***************************************************************************)
Repoint(from, to) ==
  [i \in Sends |-> IF log[i].status # "none" /\ log[i].book = from
                   THEN [log[i] EXCEPT !.book = to] ELSE log[i]]

ReplaceBook(b) ==
  /\ run # "down" /\ Exists(b) /\ nextBook \in Books
  /\ shelf' = [shelf EXCEPT ![b] = "deleted", ![nextBook] = "live"]
  /\ nextBook' = nextBook + 1
  /\ log' = Repoint(b, nextBook)
  /\ UNCHANGED <<nextSend, web, notify, worker, run, provider, faults, stops, lost>>

DeleteBook(b) ==
  /\ run # "down" /\ Exists(b)
  /\ shelf' = [shelf EXCEPT ![b] = "deleted"]
  /\ log' = Repoint(b, Null)
  /\ UNCHANGED <<nextSend, nextBook, web, notify, worker, run, provider, faults, stops, lost>>

MoveBook(b) ==
  /\ run # "down" /\ Exists(b)
  /\ shelf' = [shelf EXCEPT ![b] = IF @ = "live" THEN "missing" ELSE "live"]
  /\ UNCHANGED <<log, nextSend, nextBook, web, notify, worker, run, provider, faults, stops, lost>>

\* The provider takes a message it was handed.
Accept(i) ==
  /\ i \in wire
  /\ accepted' = accepted \cup {i} /\ wire' = wire \ {i}
  /\ UNCHANGED <<log, nextSend, books, web, notify, worker, run, handed, faults, stops, lost>>

-----------------------------------------------------------------------------
Init ==
  /\ log = [i \in Sends |-> NoRow] /\ nextSend = 1
  /\ shelf = [b \in Books |-> IF b = 1 THEN "live" ELSE "unborn"] /\ nextBook = 2
  /\ reqs = [q \in Requests |-> NoRequest] /\ asked = 0
  /\ notify = FALSE /\ worker = At("off") /\ run = "down"
  /\ handed = [i \in Sends |-> 0] /\ wire = {} /\ accepted = {}
  /\ lost = {} /\ faults = 0 /\ stops = 0

Queueing(q) == Enqueue(q) \/ EnqueueFails(q) \/ Poke(q)

Work ==
  \/ Wake \/ Leave \/ Claim \/ Drained
  \/ ResolveFile \/ ResolveGone \/ ResolveFails
  \/ ReadFile \/ \E r \in {"gone", "unreadable", "tooBig"} : FileFails(r)
  \/ Hand \/ Answered \/ Refused \/ TransportError \/ TimedOut \/ Abandon
  \/ Panic \/ Deliver \/ Fail

Next ==
  \/ \E q \in Requests, b \in Books, a \in Addresses : Ask(q, b, a)
  \/ \E q \in Requests : Queueing(q)
  \/ Work
  \/ Stop \/ Exit \/ Start \/ Recover
  \/ \E b \in Books : ReplaceBook(b) \/ DeleteBook(b) \/ MoveBook(b)
  \/ \E i \in Sends : Accept(i)

Spec == Init /\ [][Next]_vars
=============================================================================
