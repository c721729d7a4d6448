---------------------------- MODULE LookupProofs ---------------------------
(* For any number of callers, providers and tries, any interval, and any     *)
(* books and replies whose titles have a length: the calls a provider gets   *)
(* are an interval apart, no run fills an ISBN, the first answer to a field  *)
(* stands, a run that failed heard nothing, and what was kept of a search is *)
(* about the book.                                                           *)
EXTENDS LookupProps, SequenceTheorems, FiniteSetTheorems, TLAPS

Active == {"ask", "limit", "wait", "call", "detail", "backoff"}

Runs ==
  [phase : Active \cup {"done"}, book : BookSet, missing : SUBSET Fields, at : 0..Last,
   via : {"none", "isbn", "search"}, attempt : 0..Attempts, until : Int, cut : BOOLEAN, list : Answers,
   source : [Fields -> 0..Last], asked : Int, failed : Int,
   heard : [Providers -> SUBSET Fields], searched : SUBSET Answers]

(* A well formed run, before it is known whom it asks next                   *)
RunOK(j) ==
  /\ j \in Runs
  /\ "isbn" \in j.missing => j.book.isbn = NoISBN
  /\ j.via = "isbn" => j.book.isbn # NoISBN
  /\ j.source["isbn"] = None

(* One that asks somebody, and how                                           *)
Asking(j) ==
  /\ j.phase \in Active => j.at \in Providers /\ j.via \in {"isbn", "search"}
  /\ j.phase \in {"limit", "wait", "call", "detail"} => j.attempt \in 1..Attempts
  /\ j.phase = "backoff" => j.attempt \in 1..(Attempts - 1)

JobOK(j) == RunOK(j) /\ Asking(j)

Jobs == {j \in Runs : JobOK(j)} \cup {Idle}

JobsOK == job \in [Callers -> Jobs]

(* Entries of the cache are answers kept under the keys of runs              *)
Entries == [key : {Key(j) : j \in Runs}, answer : Answers]

CacheOK == cache \in [Providers -> Seq(Entries)]

(* Every slot taken ends before the next one is free: this is what makes     *)
(* SlotsApart inductive                                                      *)
LimiterOK ==
  /\ now \in Nat /\ next \in [Providers -> Nat] /\ slot \in [Callers -> Nat]
  /\ calls \in [Providers -> SUBSET Nat]
  /\ \A p \in Providers : /\ \A s \in calls[p] : After(s) <= next[p]
                          /\ \A c \in Waiting(p) : After(slot[c]) <= next[p]
  /\ SlotsApart

IInv == JobsOK /\ CacheOK /\ LimiterOK

-----------------------------------------------------------------------------
LEMMA ApproachOK ==
  ASSUME NEW j, RunOK(j)
  PROVE  JobOK(Approach(j)) /\ Approach(j).phase \in {"ask", "done"}
<1>1. CASE j.missing = {} \/ j.at = Last \/ (j.book.isbn = NoISBN /\ j.book.title = <<>>)
  <2>1. Approach(j) = [j EXCEPT !.phase = "done"]
    BY <1>1 DEF Approach, Done
  <2>2. [j EXCEPT !.phase = "done"] \in Runs
    BY DEF RunOK, Runs
  <2> QED BY <2>1, <2>2 DEF RunOK, Runs, JobOK, Asking, Active
<1>2. CASE ~(j.missing = {} \/ j.at = Last \/ (j.book.isbn = NoISBN /\ j.book.title = <<>>))
  <2> DEFINE via == IF j.book.isbn # NoISBN THEN "isbn" ELSE "search"
             k == [j EXCEPT !.phase = "ask", !.at = j.at + 1, !.asked = j.asked + 1, !.via = via]
  <2>1. Approach(j) = k
    BY <1>2 DEF Approach
  <2>2. j.at + 1 \in Providers /\ j.at + 1 \in 0..Last /\ j.asked + 1 \in Int
    BY <1>2, LookupAssumption DEF RunOK, Runs, Providers
  <2>3. via \in {"isbn", "search"} /\ (via = "isbn" => j.book.isbn # NoISBN)
    OBVIOUS
  <2> HIDE DEF via
  <2>4. k \in Runs
    BY <2>2, <2>3 DEF RunOK, Runs, Active
  <2>5. /\ k.phase = "ask" /\ k.at = j.at + 1 /\ k.via = via
        /\ k.missing = j.missing /\ k.book = j.book /\ k.source = j.source
    BY DEF RunOK, Runs
  <2> HIDE DEF k
  <2> QED BY <2>1, <2>2, <2>3, <2>4, <2>5 DEF RunOK, JobOK, Asking, Active
<1> QED BY <1>1, <1>2

LEMMA StillMissingOK ==
  ASSUME NEW j, RunOK(j)
  PROVE  /\ StillMissing(j) \in SUBSET Fields
         /\ "isbn" \in StillMissing(j) => j.book.isbn = NoISBN
BY DEF StillMissing, RunOK, Runs

LEMMA FailedOK ==
  ASSUME NEW j, RunOK(j)
  PROVE  JobOK(Failed(j)) /\ Failed(j).phase \in {"ask", "done"}
<1> DEFINE missing == StillMissing(j)
           k == [j EXCEPT !.missing = missing, !.failed = j.failed + 1]
<1>1. Failed(j) = Approach(k)
  BY DEF Failed
<1>2. missing \in SUBSET Fields /\ ("isbn" \in missing => j.book.isbn = NoISBN)
  BY StillMissingOK
<1>3. j.failed + 1 \in Int
  BY DEF RunOK, Runs
<1> HIDE DEF missing
<1>4. k \in Runs /\ k.missing = missing /\ k.book = j.book /\ k.via = j.via /\ k.source = j.source
  BY <1>2, <1>3 DEF RunOK, Runs
<1> HIDE DEF k
<1>5. RunOK(k)
  BY <1>2, <1>4 DEF RunOK
<1> QED BY <1>1, <1>5, ApproachOK

LEMMA MergeOK ==
  ASSUME NEW j, RunOK(j), Asking(j), j.phase \in Active, NEW answer \in Answers
  PROVE  JobOK(Merge(j, answer)) /\ Merge(j, answer).phase \in {"ask", "done"}
<1> DEFINE still == StillMissing(j)
           filled == answer.says \cap still
           left == still \ filled
           source == [f \in Fields |-> IF f \in filled THEN j.at ELSE j.source[f]]
           searched == IF j.via = "search" /\ answer.says # {} THEN j.searched \cup {answer} ELSE j.searched
           heard == [j.heard EXCEPT ![j.at] = answer.says]
           k == [j EXCEPT !.missing = left, !.source = source, !.heard = heard, !.searched = searched]
<1>1. Merge(j, answer) = Approach(k)
  <2>1. j \in Runs
    BY DEF RunOK
  <2> QED BY <2>1 DEF Merge, Runs
<1>2. left \in SUBSET Fields /\ ("isbn" \in left => j.book.isbn = NoISBN)
  BY StillMissingOK
<1>3. "isbn" \notin filled
  <2>1. CASE j.via = "search"
    BY <2>1 DEF StillMissing
  <2>2. CASE j.via = "isbn"
    BY <2>2, StillMissingOK DEF RunOK
  <2> QED BY <2>1, <2>2 DEF Asking
<1>4. source \in [Fields -> 0..Last]
  <2> HIDE DEF filled
  <2> QED BY DEF RunOK, Runs
<1>5. source["isbn"] = None
  BY <1>3, LookupAssumption DEF RunOK
<1>6. heard \in [Providers -> SUBSET Fields]
  BY DEF RunOK, Runs, Answers
<1>7. searched \in SUBSET Answers
  BY DEF RunOK, Runs
<1> HIDE DEF left, source, searched, heard, filled, still
<1>8. k \in Runs /\ k.missing = left /\ k.book = j.book /\ k.via = j.via /\ k.source = source
  BY <1>2, <1>4, <1>6, <1>7 DEF RunOK, Runs
<1> HIDE DEF k
<1>9. RunOK(k)
  BY <1>2, <1>5, <1>8 DEF RunOK
<1> QED BY <1>1, <1>9, ApproachOK

LEMMA ReceivedOK ==
  ASSUME NEW j, RunOK(j), Asking(j), j.phase \in Active, NEW answer \in Answers
  PROVE  JobOK(Received(j, answer)) /\ Received(j, answer).phase \in {"ask", "done"}
<1>1. CASE j.via = "isbn" /\ IsEmpty(answer) /\ j.book.title # <<>>
  <2> DEFINE k == [j EXCEPT !.phase = "ask", !.via = "search"]
  <2>1. Received(j, answer) = k
    BY <1>1 DEF Received
  <2>2. k \in Runs /\ k.phase = "ask" /\ k.via = "search" /\ k.at = j.at
        /\ k.missing = j.missing /\ k.book = j.book /\ k.source = j.source
    BY DEF RunOK, Runs, Active
  <2> HIDE DEF k
  <2> QED BY <2>1, <2>2 DEF RunOK, JobOK, Asking, Active
<1>2. ASSUME ~(j.via = "isbn" /\ IsEmpty(answer) /\ j.book.title # <<>>),
             j.via = "search" /\ ~IsEmpty(answer)
               /\ ~plausibleMatch(j.book.title, j.book.authors, answer)
      PROVE  JobOK(Received(j, answer)) /\ Received(j, answer).phase \in {"ask", "done"}
  <2> DEFINE missing == StillMissing(j)
             k == [j EXCEPT !.missing = missing]
  <2>1. Received(j, answer) = Approach(k)
    BY <1>2 DEF Received
  <2>2. missing \in SUBSET Fields /\ ("isbn" \in missing => j.book.isbn = NoISBN)
    BY StillMissingOK
  <2> HIDE DEF missing
  <2>3. k \in Runs /\ k.missing = missing /\ k.book = j.book /\ k.via = j.via /\ k.source = j.source
    BY <2>2 DEF RunOK, Runs
  <2> HIDE DEF k
  <2>4. RunOK(k)
    BY <2>2, <2>3 DEF RunOK
  <2> QED BY <2>1, <2>4, ApproachOK
<1>3. ASSUME ~(j.via = "isbn" /\ IsEmpty(answer) /\ j.book.title # <<>>),
             ~(j.via = "search" /\ ~IsEmpty(answer)
               /\ ~plausibleMatch(j.book.title, j.book.authors, answer))
      PROVE  JobOK(Received(j, answer)) /\ Received(j, answer).phase \in {"ask", "done"}
  <2>1. Received(j, answer) = Merge(j, answer)
    BY <1>3 DEF Received
  <2> QED BY <2>1, MergeOK
<1> QED BY <1>1, <1>2, <1>3

-----------------------------------------------------------------------------
LEMMA NoMatchOK == NoMatch \in Answers
BY DEF NoMatch, Answers

LEMMA ToldOK ==
  ASSUME NEW j, NEW volume \in Volumes
  PROVE  Told(j, volume) \in Answers
<1>1. volume.says \subseteq Fields
  BY LookupAssumption
<1> QED BY <1>1 DEF Told, Answers

LEMMA FreshOK ==
  ASSUME NEW book \in BookSet
  PROVE  RunOK(Fresh(book))
<1> DEFINE source == [f \in Fields |-> None]
           heard == [p \in Providers |-> {}]
<1>1. source \in [Fields -> 0..Last] /\ source["isbn"] = None
  BY LookupAssumption DEF None
<1>2. heard \in [Providers -> SUBSET Fields]
  OBVIOUS
<1>3. 0 \in 0..Last /\ 0 \in 0..Attempts
  BY LookupAssumption
<1>4. book.missing \in SUBSET Fields /\ ("isbn" \in book.missing => book.isbn = NoISBN)
  <2>1. book.missing \subseteq Fields
    BY LookupAssumption
  <2>2. "isbn" \in book.missing => book.isbn = NoISBN
    BY LookupAssumption
  <2> QED BY <2>1, <2>2
<1>5. Fresh(book) = [phase |-> "ask", book |-> book, missing |-> book.missing, at |-> 0, via |-> "none",
                     attempt |-> 0, until |-> 0, cut |-> FALSE, list |-> NoMatch, source |-> source,
                     asked |-> 0, failed |-> 0, heard |-> heard, searched |-> {}]
  BY DEF Fresh
<1> HIDE DEF source, heard
<1> QED BY <1>1, <1>2, <1>3, <1>4, <1>5, NoMatchOK DEF RunOK, Runs, Active

LEMMA JobOf ==
  ASSUME JobsOK, NEW c \in Callers, job[c].phase # "idle"
  PROVE  JobOK(job[c]) /\ job[c] \in Runs
BY DEF JobsOK, Jobs, Idle

LEMMA SetOK ==
  ASSUME JobsOK, NEW c \in Callers, NEW j, JobOK(j) \/ j = Idle, Set(c, j)
  PROVE  JobsOK'
<1>1. j \in Jobs
  BY DEF Jobs, JobOK, RunOK
<1> QED BY <1>1 DEF Set, JobsOK

(* A caller that does not wait any longer only shrinks the waiting set       *)
LEMMA SetWaiting ==
  ASSUME JobsOK, NEW c \in Callers, NEW j, j.phase # "wait", Set(c, j)
  PROVE  \A p \in Providers : Waiting(p)' = Waiting(p) \ {c}
BY DEF Set, JobsOK, Waiting, Running

(* A step that takes no slot keeps the limiter's invariant                   *)
LEMMA LimiterQuiet ==
  ASSUME LimiterOK, UNCHANGED limiterVars, now' \in Nat,
         \A p \in Providers : Waiting(p)' \subseteq Waiting(p)
  PROVE  LimiterOK'
<1>1. UNCHANGED <<next, slot, calls>>
  BY DEF limiterVars
<1>2. SlotsApart'
  BY <1>1 DEF LimiterOK, SlotsApart, Apart
<1> QED BY <1>1, <1>2 DEF LimiterOK, After

(* A step of one run that touches neither the limiter nor the cache          *)
LEMMA RunStep ==
  ASSUME IInv, NEW c \in Callers, NEW j, JobOK(j) \/ j = Idle, j.phase # "wait",
         Set(c, j), UNCHANGED <<now, limiterVars, cache>>
  PROVE  IInv'
<1>1. JobsOK'
  BY SetOK DEF IInv
<1>2. LimiterOK'
  <2>1. \A p \in Providers : Waiting(p)' = Waiting(p) \ {c}
    BY SetWaiting DEF IInv
  <2> QED BY <2>1, LimiterQuiet DEF IInv, LimiterOK
<1> QED BY <1>1, <1>2 DEF IInv, CacheOK

LEMMA ToFrontOK ==
  ASSUME CacheOK, NEW p \in Providers, NEW key \in {Key(j) : j \in Runs}, NEW answer \in Answers
  PROVE  ToFront(p, key, answer) \in Seq(Entries)
<1> DEFINE first == <<[key |-> key, answer |-> answer]>>
           i == CHOOSE i \in Cached(p, key) : TRUE
           rest == IF Cached(p, key) = {} THEN cache[p]
                   ELSE SubSeq(cache[p], 1, i - 1) \o SubSeq(cache[p], i + 1, Len(cache[p]))
<1>1. ToFront(p, key, answer) = first \o rest
  BY DEF ToFront
<1>2. first \in Seq(Entries)
  BY DEF Entries
<1>3. cache[p] \in Seq(Entries)
  BY DEF CacheOK
<1>4. rest \in Seq(Entries)
  <2>1. CASE Cached(p, key) = {}
    BY <1>3, <2>1
  <2>2. CASE Cached(p, key) # {}
    <3>1. i \in 1..Len(cache[p])
      BY <2>2 DEF Cached
    <3> HIDE DEF i
    <3>2. SubSeq(cache[p], 1, i - 1) \in Seq(Entries)
      BY <1>3, <3>1, SubSeqProperties
    <3>3. SubSeq(cache[p], i + 1, Len(cache[p])) \in Seq(Entries)
      BY <1>3, <3>1, SubSeqProperties
    <3> QED BY <2>2, <3>2, <3>3, ConcatProperties
  <2> QED BY <2>1, <2>2
<1> HIDE DEF first, rest
<1> QED BY <1>1, <1>2, <1>4, ConcatProperties

LEMMA PutOK ==
  ASSUME CacheOK, NEW p \in Providers, NEW key \in {Key(j) : j \in Runs}, NEW answer \in Answers
  PROVE  Put(p, key, answer) \in Seq(Entries)
<1> DEFINE s == ToFront(p, key, answer)
           n == IF Len(s) > CacheSize THEN CacheSize ELSE Len(s)
<1>1. s \in Seq(Entries)
  BY ToFrontOK
<1>2. Put(p, key, answer) = IF answer.partial THEN cache[p] ELSE SubSeq(s, 1, n)
  BY DEF Put
<1> HIDE DEF s
<1>3. n \in Nat /\ n <= Len(s)
  BY <1>1, LookupAssumption
<1> HIDE DEF n
<1>4. SubSeq(s, 1, n) \in Seq(Entries)
  BY <1>1, <1>3, SubSeqProperties
<1> QED BY <1>2, <1>4 DEF CacheOK

-----------------------------------------------------------------------------
(* The steps, one lemma each                                                 *)

LEMMA InitOK == Init => IInv
<1> SUFFICES ASSUME Init PROVE IInv
  OBVIOUS
<1>1. JobsOK
  BY DEF Init, JobsOK, Jobs
<1>2. CacheOK
  BY DEF Init, CacheOK
<1>3. \A p \in Providers : Waiting(p) = {} /\ calls[p] = {}
  BY DEF Init, Waiting, Running, Idle
<1>4. LimiterOK
  BY <1>3 DEF Init, LimiterOK, SlotsApart
<1> QED BY <1>1, <1>2, <1>4 DEF IInv

LEMMA BeginOK ==
  ASSUME IInv, NEW c \in Callers, Begin(c)
  PROVE  IInv'
<1>1. PICK book \in BookSet : Set(c, Approach(Fresh(book)))
  BY DEF Begin
<1>2. JobOK(Approach(Fresh(book))) /\ Approach(Fresh(book)).phase # "wait"
  BY FreshOK, ApproachOK
<1> QED BY <1>1, <1>2, RunStep DEF Begin

(* What a run that has its answer leaves: the limiter, and a typed cache     *)
LEMMA AnswerStep ==
  ASSUME IInv, NEW c \in Callers, NEW j, JobOK(j), j.phase \in Active, NEW answer \in Answers,
         Set(c, Received(j, answer)), CacheOK', UNCHANGED <<now, limiterVars>>
  PROVE  IInv'
<1>1. JobOK(Received(j, answer)) /\ Received(j, answer).phase # "wait"
  BY ReceivedOK DEF JobOK
<1>2. JobsOK'
  BY <1>1, SetOK DEF IInv
<1>3. \A p \in Providers : Waiting(p)' = Waiting(p) \ {c}
  BY <1>1, SetWaiting DEF IInv
<1>4. LimiterOK'
  BY <1>3, LimiterQuiet DEF IInv, LimiterOK
<1> QED BY <1>2, <1>4 DEF IInv

LEMMA AskOK ==
  ASSUME IInv, NEW c \in Callers, Ask(c)
  PROVE  IInv'
<1> DEFINE j == job[c]
           key == Key(j)
           found == Cached(j.at, key)
<1>1. JobOK(j) /\ j.phase = "ask" /\ j \in Runs
  BY JobOf DEF Ask, IInv
<1>2. j.at \in Providers
  BY <1>1 DEF JobOK, Asking, Active
<1>3. CASE found = {}
  <2> DEFINE k == [j EXCEPT !.phase = "limit", !.attempt = 1]
  <2>1. Set(c, k) /\ UNCHANGED <<now, limiterVars, cache>>
    BY <1>3 DEF Ask
  <2>2. /\ k \in Runs /\ k.phase = "limit" /\ k.attempt = 1 /\ k.at = j.at /\ k.via = j.via
        /\ k.missing = j.missing /\ k.book = j.book /\ k.source = j.source
    <3>1. 1 \in 0..Attempts
      BY LookupAssumption
    <3> QED BY <1>1, <3>1 DEF Runs, Active
  <2>3. JobOK(k)
    <3> HIDE DEF k
    <3> QED BY <1>1, <2>2, LookupAssumption DEF JobOK, RunOK, Asking, Active
  <2> HIDE DEF k
  <2> QED BY <2>1, <2>2, <2>3, RunStep
<1>4. CASE found # {}
  <2>1. PICK i \in found : /\ cache' = [cache EXCEPT ![j.at] = ToFront(j.at, key, cache[j.at][i].answer)]
                           /\ Set(c, Received(j, cache[j.at][i].answer))
    BY <1>4 DEF Ask
  <2> DEFINE answer == cache[j.at][i].answer
  <2>2. answer \in Answers
    <3>1. cache[j.at] \in Seq(Entries) /\ i \in 1..Len(cache[j.at])
      BY <1>2 DEF IInv, CacheOK, Cached
    <3>2. cache[j.at][i] \in Entries
      BY <3>1
    <3> QED BY <3>2 DEF Entries
  <2> HIDE DEF answer
  <2>3. ToFront(j.at, key, answer) \in Seq(Entries)
    BY <1>1, <1>2, <2>2, ToFrontOK DEF IInv
  <2>4. CacheOK'
    <3>1. cache' = [cache EXCEPT ![j.at] = ToFront(j.at, key, answer)]
      BY <2>1 DEF answer
    <3> QED BY <1>2, <2>3, <3>1 DEF IInv, CacheOK
  <2>5. Set(c, Received(job[c], answer)) /\ UNCHANGED <<now, limiterVars>>
    BY <2>1 DEF Ask, answer
  <2> QED BY <1>1, <2>2, <2>4, <2>5, AnswerStep DEF Active
<1> QED BY <1>3, <1>4

LEMMA TakeOK ==
  ASSUME IInv, NEW c \in Callers, job[c].phase \in Active, NEW answer \in Answers, Take(c, answer)
  PROVE  IInv'
<1> DEFINE j == job[c]
           k == [j EXCEPT !.list = NoMatch]
<1>1. JobOK(j) /\ j \in Runs
  BY JobOf DEF IInv, Active
<1>2. /\ k \in Runs /\ k.phase = j.phase /\ k.attempt = j.attempt /\ k.at = j.at /\ k.via = j.via
      /\ k.missing = j.missing /\ k.book = j.book /\ k.source = j.source
  BY <1>1, NoMatchOK DEF Runs
<1>3. /\ cache' = [cache EXCEPT ![k.at] = Put(k.at, Key(k), answer)]
      /\ Set(c, Received(k, answer)) /\ UNCHANGED <<now, limiterVars>>
  BY DEF Take
<1> HIDE DEF k
<1>4. JobOK(k) /\ k.phase \in Active
  BY <1>1, <1>2 DEF JobOK, RunOK, Asking
<1>5. k.at \in Providers
  BY <1>4 DEF JobOK, Asking
<1>6. Put(k.at, Key(k), answer) \in Seq(Entries)
  BY <1>2, <1>5, PutOK DEF IInv
<1>7. CacheOK'
  BY <1>3, <1>5, <1>6 DEF IInv, CacheOK
<1> QED BY <1>3, <1>4, <1>7, AnswerStep

LEMMA FoundOK ==
  ASSUME IInv, NEW c \in Callers, NEW volume \in Volumes, Found(c, volume)
  PROVE  IInv'
<1> DEFINE j == job[c]
           told == Told(j, volume)
           k == [j EXCEPT !.phase = "detail", !.list = told]
<1>1. JobOK(j) /\ j.phase = "call" /\ j \in Runs
  BY JobOf DEF Found, IInv
<1>2. told \in Answers
  BY ToldOK
<1>3. CASE Client[j.at] = "googlebooks" /\ volume.named
  <2>1. Set(c, k) /\ UNCHANGED <<now, limiterVars, cache>>
    BY <1>3 DEF Found
  <2> HIDE DEF told
  <2>2. /\ k \in Runs /\ k.phase = "detail" /\ k.attempt = j.attempt /\ k.at = j.at /\ k.via = j.via
        /\ k.missing = j.missing /\ k.book = j.book /\ k.source = j.source
    BY <1>1, <1>2 DEF Runs, Active
  <2> HIDE DEF k
  <2>3. JobOK(k)
    BY <1>1, <2>2 DEF JobOK, RunOK, Asking, Active
  <2> QED BY <2>1, <2>2, <2>3, RunStep
<1>4. CASE ~(Client[j.at] = "googlebooks" /\ volume.named)
  <2>1. Take(c, told)
    BY <1>4 DEF Found
  <2> QED BY <1>1, <1>2, <2>1, TakeOK DEF Active
<1> QED BY <1>3, <1>4

LEMMA DetailOK ==
  ASSUME IInv, NEW c \in Callers,
         DetailFails(c) \/ \E more \in SUBSET DetailFields : Detailed(c, more)
  PROVE  IInv'
<1> DEFINE told == job[c].list
<1>1. job[c].phase = "detail" /\ job[c].phase \in Active
  BY DEF DetailFails, Detailed, Active
<1>2. told \in Answers
  BY <1>1, JobOf DEF IInv, Runs
<1>3. CASE DetailFails(c)
  <2>1. [told EXCEPT !.partial = TRUE] \in Answers
    BY <1>2 DEF Answers
  <2> QED BY <1>1, <1>3, <2>1, TakeOK DEF DetailFails
<1>4. ASSUME NEW more \in SUBSET DetailFields, Detailed(c, more)
      PROVE  IInv'
  <2>1. [told EXCEPT !.says = told.says \cup more] \in Answers
    BY <1>2 DEF Answers, DetailFields
  <2> QED BY <1>1, <1>4, <2>1, TakeOK DEF Detailed
<1> QED BY <1>3, <1>4

LEMMA FailedStep ==
  ASSUME IInv, NEW c \in Callers, job[c].phase # "idle", Set(c, Failed(job[c])),
         UNCHANGED <<now, limiterVars, cache>>
  PROVE  IInv'
<1>1. JobOK(Failed(job[c])) /\ Failed(job[c]).phase # "wait"
  BY JobOf, FailedOK DEF IInv, JobOK
<1> QED BY <1>1, RunStep

LEMMA TryAgainOK ==
  ASSUME IInv, NEW c \in Callers, job[c].phase = "call", TryAgain(c)
  PROVE  IInv'
<1> DEFINE j == job[c]
<1>1. JobOK(j) /\ j.phase = "call" /\ j \in Runs
  BY JobOf DEF IInv
<1>2. CASE j.attempt = Attempts
  BY <1>1, <1>2, FailedStep DEF TryAgain
<1>3. CASE j.attempt # Attempts
  <2> DEFINE until == now + Backoff[j.attempt]
             k == [j EXCEPT !.phase = "backoff", !.until = until]
  <2>1. j.attempt \in 1..(Attempts - 1)
    BY <1>1, <1>3, LookupAssumption DEF JobOK, Asking
  <2>2. until \in Int
    BY <2>1, LookupAssumption DEF IInv, LimiterOK
  <2>3. Set(c, k) /\ UNCHANGED <<now, limiterVars, cache>>
    BY <1>3 DEF TryAgain
  <2> HIDE DEF until
  <2>4. /\ k \in Runs /\ k.phase = "backoff" /\ k.attempt = j.attempt /\ k.at = j.at /\ k.via = j.via
        /\ k.missing = j.missing /\ k.book = j.book /\ k.source = j.source
    BY <1>1, <2>2 DEF Runs, Active
  <2> HIDE DEF k
  <2>5. JobOK(k)
    BY <1>1, <2>1, <2>4 DEF JobOK, RunOK, Asking, Active
  <2> QED BY <2>3, <2>4, <2>5, RunStep
<1> QED BY <1>2, <1>3

LEMMA BackoffEndsOK ==
  ASSUME IInv, NEW c \in Callers, BackoffEnds(c)
  PROVE  IInv'
<1> DEFINE j == job[c]
           k == [j EXCEPT !.phase = "limit", !.attempt = j.attempt + 1]
<1>1. JobOK(j) /\ j.phase = "backoff" /\ j \in Runs
  BY JobOf DEF BackoffEnds, IInv
<1>2. j.attempt + 1 \in 1..Attempts /\ j.attempt + 1 \in 0..Attempts
  BY <1>1, LookupAssumption DEF JobOK, Asking
<1>3. Set(c, k) /\ UNCHANGED <<now, limiterVars, cache>>
  BY DEF BackoffEnds
<1>4. /\ k \in Runs /\ k.phase = "limit" /\ k.attempt = j.attempt + 1 /\ k.at = j.at /\ k.via = j.via
      /\ k.missing = j.missing /\ k.book = j.book /\ k.source = j.source
  BY <1>1, <1>2 DEF Runs, Active
<1> HIDE DEF k
<1>5. JobOK(k)
  BY <1>1, <1>2, <1>4 DEF JobOK, RunOK, Asking, Active
<1> QED BY <1>3, <1>4, <1>5, RunStep

(* The context ending moves nobody, so whoever waits keeps its slot          *)
LEMMA CutOK ==
  ASSUME IInv, NEW c \in Callers, Cut(c)
  PROVE  IInv'
<1> DEFINE j == job[c]
           k == [j EXCEPT !.cut = TRUE]
<1>1. JobOK(j) /\ j \in Runs
  BY JobOf DEF Cut, IInv
<1>2. Set(c, k)
  BY DEF Cut
<1>3. k \in Runs
  BY <1>1 DEF Runs
<1>4. /\ k.phase = j.phase /\ k.attempt = j.attempt /\ k.at = j.at /\ k.via = j.via
      /\ k.missing = j.missing /\ k.book = j.book /\ k.source = j.source
  BY <1>1 DEF Runs
<1> HIDE DEF k
<1>5. JobOK(k)
  BY <1>1, <1>3, <1>4 DEF JobOK, RunOK, Asking
<1>6. JobsOK'
  BY <1>2, <1>5, SetOK DEF IInv
<1>7. \A p \in Providers : Waiting(p)' \subseteq Waiting(p)
  BY <1>2, <1>4 DEF Set, IInv, JobsOK, Waiting, Running
<1>8. LimiterOK'
  BY <1>7, LimiterQuiet DEF Cut, IInv, LimiterOK
<1> QED BY <1>6, <1>8 DEF IInv, CacheOK, Cut

(* A new slot starts no earlier than the next free one, after all others     *)
LEMMA QueueOK ==
  ASSUME IInv, NEW c \in Callers, Queue(c)
  PROVE  IInv'
<1> DEFINE j == job[c]
           p == j.at
           s == FreeSlot(p)
           phase == IF s = now THEN "call" ELSE "wait"
           k == [j EXCEPT !.phase = phase]
<1>1. JobOK(j) /\ j.phase = "limit" /\ j \in Runs
  BY JobOf DEF Queue, IInv
<1>2. p \in Providers
  BY <1>1 DEF JobOK, Asking, Active
<1>3. s \in Nat /\ next[p] <= s /\ next[p] \in Nat
  BY <1>2 DEF FreeSlot, IInv, LimiterOK
<1>4. /\ next' = [next EXCEPT ![p] = After(s)]
      /\ slot' = [slot EXCEPT ![c] = s]
      /\ calls' = IF s = now THEN [calls EXCEPT ![p] = @ \cup {s}] ELSE calls
      /\ Set(c, k) /\ UNCHANGED <<now, cache>>
  BY DEF Queue
<1> HIDE DEF s
<1>5. k \in Runs /\ k.phase = phase /\ k.attempt = j.attempt /\ k.at = p /\ k.via = j.via
      /\ k.missing = j.missing /\ k.book = j.book /\ k.source = j.source
  BY <1>1 DEF Runs, Active
<1>6. phase = (IF s = now THEN "call" ELSE "wait")
  OBVIOUS
<1> HIDE DEF k, phase
<1>7. JobOK(k)
  BY <1>1, <1>5, <1>6 DEF JobOK, RunOK, Asking, Active
<1>8. JobsOK'
  BY <1>4, <1>7, SetOK DEF IInv
<1>9. /\ job' = [job EXCEPT ![c] = k] /\ c \in DOMAIN job
  BY <1>4 DEF Set, IInv, JobsOK
<1>10. \A q \in Providers : Waiting(q)' = IF q = p /\ s # now THEN Waiting(q) \cup {c} ELSE Waiting(q)
  <2>1. c \notin Waiting(p) /\ \A q \in Providers : c \notin Waiting(q)
    BY <1>1 DEF Waiting
  <2> QED BY <1>5, <1>6, <1>9, <2>1 DEF Waiting, Running
<1>11. \A q \in Providers : \A d \in Waiting(q) : d # c /\ d \in Callers /\ slot'[d] = slot[d]
  BY <1>1, <1>4 DEF Waiting, Running, IInv, LimiterOK
<1>12. slot'[c] = s /\ slot' \in [Callers -> Nat]
  BY <1>3, <1>4 DEF IInv, LimiterOK
<1>13. /\ next' \in [Providers -> Nat] /\ next'[p] = s + Every
       /\ \A q \in Providers : q # p => next'[q] = next[q]
  BY <1>2, <1>3, <1>4, LookupAssumption DEF IInv, LimiterOK, After
<1>14. /\ calls' \in [Providers -> SUBSET Nat]
       /\ \A q \in Providers : q # p => calls'[q] = calls[q]
       /\ calls'[p] = IF s = now THEN calls[p] \cup {s} ELSE calls[p]
  BY <1>2, <1>3, <1>4 DEF IInv, LimiterOK
<1>15. \A q \in Providers : /\ \A t \in calls[q] : t \in Nat /\ t + Every <= next[q]
                            /\ \A d \in Waiting(q) : slot[d] \in Nat /\ slot[d] + Every <= next[q]
  <2>1. \A q \in Providers : Waiting(q) \subseteq Callers
    BY DEF Waiting, Running
  <2> QED BY <2>1 DEF IInv, LimiterOK, After
<1>16. SlotsApart'
  <2> SUFFICES ASSUME NEW q \in Providers
               PROVE  /\ \A t, u \in calls'[q] : t = u \/ Apart(t, u)
                      /\ \A d \in Waiting(q)' : \A t \in calls'[q] : Apart(slot'[d], t)
                      /\ \A d, e \in Waiting(q)' : d = e \/ Apart(slot'[d], slot'[e])
    BY DEF SlotsApart, Apart
  <2>1. /\ \A t, u \in calls[q] : t = u \/ Apart(t, u)
        /\ \A d \in Waiting(q) : \A t \in calls[q] : Apart(slot[d], t)
        /\ \A d, e \in Waiting(q) : d = e \/ Apart(slot[d], slot[e])
    BY DEF IInv, LimiterOK, SlotsApart
  <2>2. CASE q # p
    BY <1>10, <1>11, <1>14, <2>1, <2>2
  <2>3. CASE q = p /\ s = now
    <3>1. \A t \in calls[p] : Apart(t, s) /\ Apart(s, t)
      BY <1>2, <1>3, <1>15, LookupAssumption DEF Apart
    <3>2. \A d \in Waiting(p) : Apart(slot[d], s)
      BY <1>2, <1>3, <1>15, LookupAssumption DEF Apart
    <3> QED BY <1>10, <1>11, <1>14, <2>1, <2>3, <3>1, <3>2
  <2>4. CASE q = p /\ s # now
    <3>1. \A t \in calls[p] : Apart(s, t)
      BY <1>2, <1>3, <1>15, LookupAssumption DEF Apart
    <3>2. \A d \in Waiting(p) : Apart(slot[d], s) /\ Apart(s, slot[d])
      BY <1>2, <1>3, <1>15, LookupAssumption DEF Apart
    <3> QED BY <1>10, <1>11, <1>12, <1>14, <2>1, <2>4, <3>1, <3>2
  <2> QED BY <2>2, <2>3, <2>4
<1>17. \A q \in Providers : /\ \A t \in calls'[q] : t + Every <= next'[q]
                            /\ \A d \in Waiting(q)' : slot'[d] + Every <= next'[q]
  <2> SUFFICES ASSUME NEW q \in Providers
               PROVE  /\ \A t \in calls'[q] : t + Every <= next'[q]
                      /\ \A d \in Waiting(q)' : slot'[d] + Every <= next'[q]
    OBVIOUS
  <2>1. CASE q # p
    BY <1>10, <1>11, <1>13, <1>14, <1>15, <2>1
  <2>2. CASE q = p
    <3>1. \A t \in calls[p] : t + Every <= s + Every
      BY <1>2, <1>3, <1>15, LookupAssumption
    <3>2. \A d \in Waiting(p) : slot[d] + Every <= s + Every
      BY <1>2, <1>3, <1>15, LookupAssumption
    <3>3. s + Every <= s + Every
      BY <1>3, LookupAssumption
    <3>4. \A t \in calls'[p] : t + Every <= next'[p]
      BY <1>13, <1>14, <3>1, <3>3
    <3>5. \A d \in Waiting(q)' : slot'[d] + Every <= next'[q]
      <4>1. \A d \in Waiting(q)' : d \in Waiting(q) \/ d = c
        BY <1>10
      <4>2. next'[q] = s + Every /\ slot'[c] = s
        BY <1>12, <1>13, <2>2
      <4> QED BY <1>11, <2>2, <3>2, <3>3, <4>1, <4>2
    <3> QED BY <2>2, <3>4, <3>5
  <2> QED BY <2>1, <2>2
<1>18. LimiterOK'
  BY <1>4, <1>12, <1>13, <1>14, <1>16, <1>17 DEF IInv, LimiterOK, After
<1> QED BY <1>4, <1>8, <1>18 DEF IInv, CacheOK

(* A slot that has come moves from those awaited to those called             *)
LEMMA CallOK ==
  ASSUME IInv, NEW c \in Callers, Call(c)
  PROVE  IInv'
<1> DEFINE j == job[c]
           p == j.at
           k == [j EXCEPT !.phase = "call"]
<1>1. JobOK(j) /\ j.phase = "wait" /\ j \in Runs
  BY JobOf DEF Call, IInv
<1>2. p \in Providers /\ c \in Waiting(p)
  BY <1>1 DEF JobOK, Asking, Active, Waiting, Running
<1>3. Set(c, k)
  BY DEF Call
<1>4. k \in Runs /\ k.phase = "call" /\ k.attempt = j.attempt /\ k.at = p /\ k.via = j.via
      /\ k.missing = j.missing /\ k.book = j.book /\ k.source = j.source
  BY <1>1 DEF Runs, Active
<1> HIDE DEF k
<1>5. JobOK(k)
  BY <1>1, <1>4 DEF JobOK, RunOK, Asking, Active
<1>6. JobsOK'
  BY <1>3, <1>5, SetOK DEF IInv
<1>7. \A q \in Providers : Waiting(q)' = Waiting(q) \ {c}
  BY <1>3, <1>4, SetWaiting DEF IInv
<1>8. /\ calls' \in [Providers -> SUBSET Nat] /\ calls'[p] = calls[p] \cup {slot[c]}
      /\ \A q \in Providers : q # p => calls'[q] = calls[q]
  BY <1>2 DEF Call, IInv, LimiterOK
<1>9. UNCHANGED <<now, next, slot, cache>>
  BY DEF Call
<1>10. SlotsApart'
  <2> SUFFICES ASSUME NEW q \in Providers
               PROVE  /\ \A t, u \in calls'[q] : t = u \/ Apart(t, u)
                      /\ \A d \in Waiting(q)' : \A t \in calls'[q] : Apart(slot[d], t)
                      /\ \A d, e \in Waiting(q)' : d = e \/ Apart(slot[d], slot[e])
    BY <1>9 DEF SlotsApart, Apart
  <2>1. /\ \A t, u \in calls[q] : t = u \/ Apart(t, u)
        /\ \A d \in Waiting(q) : \A t \in calls[q] : Apart(slot[d], t)
        /\ \A d, e \in Waiting(q) : d = e \/ Apart(slot[d], slot[e])
    BY DEF IInv, LimiterOK, SlotsApart
  <2>2. \A s, t : Apart(s, t) => Apart(t, s)
    BY DEF Apart
  <2>3. CASE q # p
    BY <1>7, <1>8, <2>1, <2>3
  <2>4. CASE q = p
    BY <1>2, <1>7, <1>8, <2>1, <2>2, <2>4
  <2> QED BY <2>3, <2>4
<1>11. LimiterOK'
  BY <1>2, <1>7, <1>8, <1>9, <1>10 DEF IInv, LimiterOK, After
<1> QED BY <1>6, <1>9, <1>11 DEF IInv, CacheOK

(* The slot handed back is the last one taken, so it is the next one free    *)
LEMMA GiveUpOK ==
  ASSUME IInv, NEW c \in Callers, GiveUp(c)
  PROVE  IInv'
<1> DEFINE j == job[c]
           p == j.at
<1>1. JobOK(j) /\ j.phase = "wait" /\ j \in Runs
  BY JobOf DEF GiveUp, IInv
<1>2. p \in Providers /\ c \in Waiting(p)
  BY <1>1 DEF JobOK, Asking, Active, Waiting, Running
<1>3. JobOK(Failed(j)) /\ Failed(j).phase # "wait" /\ Set(c, Failed(j))
  BY <1>1, FailedOK DEF JobOK, GiveUp
<1>4. JobsOK'
  BY <1>3, SetOK DEF IInv
<1>5. \A q \in Providers : Waiting(q)' = Waiting(q) \ {c}
  BY <1>3, SetWaiting DEF IInv
<1>6. UNCHANGED <<now, slot, calls, cache>>
  BY DEF GiveUp
<1>7. SlotsApart'
  BY <1>5, <1>6 DEF IInv, LimiterOK, SlotsApart, Apart
<1>8. CASE next[p] # After(slot[c])
  <2>1. next' = next
    BY <1>8 DEF GiveUp, Release
  <2> QED BY <1>4, <1>5, <1>6, <1>7, <2>1 DEF IInv, CacheOK, LimiterOK, After
<1>9. CASE next[p] = After(slot[c])
  <2>1. slot[c] \in Nat
    BY DEF IInv, LimiterOK
  <2>2. /\ next' \in [Providers -> Nat] /\ next'[p] = slot[c]
        /\ \A q \in Providers : q # p => next'[q] = next[q]
    BY <1>2, <1>9, <2>1 DEF GiveUp, Release, IInv, LimiterOK
  <2>3. \A t \in calls[p] : t + Every <= slot[c]
    <3> SUFFICES ASSUME NEW t \in calls[p] PROVE t + Every <= slot[c]
      OBVIOUS
    <3>1. t \in Nat /\ t + Every <= slot[c] + Every /\ Apart(slot[c], t)
      BY <1>2, <1>9 DEF IInv, LimiterOK, SlotsApart, After
    <3> QED BY <2>1, <3>1, LookupAssumption DEF Apart
  <2>4. \A d \in Waiting(p) \ {c} : slot[d] + Every <= slot[c]
    <3> SUFFICES ASSUME NEW d \in Waiting(p) \ {c} PROVE slot[d] + Every <= slot[c]
      OBVIOUS
    <3>1. slot[d] \in Nat
      BY DEF Waiting, Running, IInv, LimiterOK
    <3>2. slot[d] + Every <= slot[c] + Every /\ Apart(slot[c], slot[d])
      BY <1>2, <1>9 DEF IInv, LimiterOK, SlotsApart, After
    <3> QED BY <2>1, <3>1, <3>2, LookupAssumption DEF Apart
  <2>5. LimiterOK'
    BY <1>2, <1>5, <1>6, <1>7, <2>2, <2>3, <2>4 DEF IInv, LimiterOK, After
  <2> QED BY <1>4, <1>6, <2>5 DEF IInv, CacheOK
<1> QED BY <1>8, <1>9

-----------------------------------------------------------------------------
LEMMA NextOK == IInv /\ [Next]_vars => IInv'
<1> SUFFICES ASSUME IInv, [Next]_vars PROVE IInv'
  OBVIOUS
<1>1. CASE Tick
  <2>1. UNCHANGED <<limiterVars, cache, job>> /\ now' \in Nat
    BY <1>1 DEF Tick, IInv, LimiterOK
  <2>2. \A p \in Providers : Waiting(p)' \subseteq Waiting(p)
    BY <2>1 DEF Waiting, Running
  <2> QED BY <2>1, <2>2, LimiterQuiet DEF IInv, JobsOK, CacheOK
<1>2. ASSUME NEW c \in Callers, Begin(c) \/ Ask(c) \/ Queue(c) \/ Call(c) \/ GiveUp(c)
      PROVE  IInv'
  BY <1>2, BeginOK, AskOK, QueueOK, CallOK, GiveUpOK
<1>3. ASSUME NEW c \in Callers,
             \/ NotFound(c)
             \/ \E volume \in Volumes : Found(c, volume)
             \/ \E more \in SUBSET DetailFields : Detailed(c, more)
             \/ DetailFails(c)
      PROVE  IInv'
  <2>1. CASE NotFound(c)
    BY <2>1, NoMatchOK, TakeOK DEF NotFound, Active
  <2> QED BY <1>3, <2>1, FoundOK, DetailOK
<1>4. ASSUME NEW c \in Callers, BackoffEnds(c) \/ Cut(c)
      PROVE  IInv'
  BY <1>4, BackoffEndsOK, CutOK
<1>5. ASSUME NEW c \in Callers, Throttled(c) \/ TornBody(c) \/ Refused(c) \/ BackoffCut(c)
      PROVE  IInv'
  <2>1. \/ job[c].phase = "call" /\ TryAgain(c)
        \/ job[c].phase # "idle" /\ Fail(c)
    BY <1>5 DEF Throttled, TornBody, Refused, BackoffCut
  <2> QED BY <2>1, TryAgainOK, FailedStep DEF Fail
<1>6. ASSUME NEW c \in Callers, Finish(c)
      PROVE  IInv'
  <2>1. Set(c, Idle) /\ Idle.phase # "wait" /\ UNCHANGED <<now, limiterVars, cache>>
    BY <1>6 DEF Finish, Idle
  <2> QED BY <2>1, RunStep
<1>7. CASE UNCHANGED vars
  <2>1. UNCHANGED <<now, limiterVars, cache, job>> /\ now' \in Nat
    BY <1>7 DEF vars, IInv, LimiterOK
  <2>2. \A p \in Providers : Waiting(p)' \subseteq Waiting(p)
    BY <2>1 DEF Waiting, Running
  <2> QED BY <2>1, <2>2, LimiterQuiet DEF IInv, JobsOK, CacheOK
<1> QED BY <1>1, <1>2, <1>3, <1>4, <1>5, <1>6, <1>7 DEF Next

LEMMA InvariantHolds == Spec => []IInv
BY InitOK, NextOK, PTL DEF Spec

(* Calls to one provider, and those on their way to it, have slots an        *)
(* interval apart, whoever waits, gives up or hands a slot back              *)
(* (rateLimiter.wait, release).                                              *)
THEOREM SlotsStayApart == Spec => []SlotsApart
<1>1. IInv => SlotsApart
  BY DEF IInv, LimiterOK
<1> QED BY <1>1, InvariantHolds, PTL

(* No run fills an ISBN, by whatever route an answer was reached (Resolve).  *)
THEOREM ISBNNeverFilled == Spec => []ISBNUnfilled
<1>1. IInv => ISBNUnfilled
  BY JobOf DEF IInv, ISBNUnfilled, Running, JobOK, RunOK
<1> QED BY <1>1, InvariantHolds, PTL
-----------------------------------------------------------------------------
(* The result.  What a run has so far follows from what it heard: of the     *)
(* providers before the one it asks, and nothing yet of that one.            *)

Said(j, f) == {p \in Providers : f \in j.heard[p]}

Silent(j) == \A f \in Fields : j.source[f] = None

(* A field but the ISBN is missing while nobody has said it, and filled by   *)
(* the first who did                                                         *)
FilledRight(j) ==
  \A f \in Fields \ {"isbn"} :
    /\ f \in j.missing <=> f \in j.book.missing /\ Said(j, f) = {}
    /\ IF f \in j.book.missing /\ Said(j, f) # {}
       THEN j.source[f] \in Said(j, f) /\ \A q \in Said(j, f) : j.source[f] <= q
       ELSE j.source[f] = None

(* What was kept of a search matched                                         *)
Earned(j) == \A answer \in j.searched : plausibleMatch(j.book.title, j.book.authors, answer)

(* Between two providers ...                                                 *)
Between(j) ==
  /\ j.failed <= j.asked /\ (j.failed = j.asked => Silent(j))
  /\ \A p \in Providers : p > j.at => j.heard[p] = {}
  /\ FilledRight(j) /\ Earned(j)

(* ... and while one is asked, which has not failed yet                      *)
Amid(j) ==
  /\ j.failed < j.asked /\ (j.failed = j.asked - 1 => Silent(j))
  /\ \A p \in Providers : p >= j.at => j.heard[p] = {}
  /\ FilledRight(j) /\ Earned(j)

ResultOK(j) == IF j.phase = "done" THEN Between(j) ELSE Amid(j)

Same(j, k) ==
  /\ k.book = j.book /\ k.missing = j.missing /\ k.source = j.source /\ k.heard = j.heard
  /\ k.at = j.at /\ k.asked = j.asked /\ k.failed = j.failed /\ k.searched = j.searched

LEMMA SameKeeps ==
  ASSUME NEW j, NEW k, Same(j, k)
  PROVE  /\ Amid(j) => Amid(k)
         /\ Between(j) => Between(k)
BY DEF Same, Amid, Between, FilledRight, Said, Silent, Earned

LEMMA ApproachResult ==
  ASSUME NEW j \in Runs, Between(j)
  PROVE  ResultOK(Approach(j))
<1>1. CASE j.missing = {} \/ j.at = Last \/ (j.book.isbn = NoISBN /\ j.book.title = <<>>)
  <2> DEFINE k == Done(j)
  <2>1. Approach(j) = k /\ k.phase = "done" /\ Same(j, k)
    BY <1>1 DEF Approach, Done, Same, Runs
  <2> HIDE DEF k
  <2> QED BY <2>1, SameKeeps DEF ResultOK
<1>2. CASE ~(j.missing = {} \/ j.at = Last \/ (j.book.isbn = NoISBN /\ j.book.title = <<>>))
  <2> DEFINE via == IF j.book.isbn # NoISBN THEN "isbn" ELSE "search"
             k == [j EXCEPT !.phase = "ask", !.at = j.at + 1, !.asked = j.asked + 1, !.via = via]
  <2>1. Approach(j) = k
    BY <1>2 DEF Approach
  <2>2. /\ k.phase = "ask" /\ k.at = j.at + 1 /\ k.asked = j.asked + 1 /\ k.failed = j.failed
        /\ k.book = j.book /\ k.missing = j.missing /\ k.source = j.source /\ k.heard = j.heard
        /\ k.searched = j.searched
    BY DEF Runs
  <2> HIDE DEF k
  <2>3. FilledRight(k) /\ Earned(k) /\ (Silent(j) => Silent(k))
    BY <2>2 DEF Between, FilledRight, Said, Silent, Earned
  <2>4. k.failed < k.asked /\ (k.failed = k.asked - 1 => Silent(k))
    BY <2>2, <2>3 DEF Between, Runs
  <2>5. \A p \in Providers : p >= k.at => k.heard[p] = {}
    BY <2>2 DEF Between, Runs, Providers
  <2> QED BY <2>1, <2>2, <2>3, <2>4, <2>5 DEF ResultOK, Amid
<1> QED BY <1>1, <1>2

(* Dropping the ISBN from what is missing moves no other field               *)
LEMMA LeaveResult ==
  ASSUME NEW j \in Runs, Amid(j), NEW failed \in {j.failed, j.failed + 1}
  PROVE  LET k == [j EXCEPT !.missing = StillMissing(j), !.failed = failed]
         IN  k \in Runs /\ Between(k)
<1> DEFINE missing == StillMissing(j)
           k == [j EXCEPT !.missing = missing, !.failed = failed]
<1>1. missing \in SUBSET Fields /\ missing \ {"isbn"} = j.missing \ {"isbn"}
  BY DEF StillMissing, Runs
<1>2. failed \in Int /\ failed <= j.asked /\ (failed = j.asked => Silent(j))
  BY DEF Amid, Runs
<1> HIDE DEF missing
<1>3. /\ k \in Runs /\ k.missing = missing /\ k.failed = failed /\ k.asked = j.asked
      /\ k.at = j.at /\ k.book = j.book /\ k.source = j.source /\ k.heard = j.heard
      /\ k.searched = j.searched
  BY <1>1, <1>2 DEF Runs
<1> HIDE DEF k
<1>4. FilledRight(k) /\ Earned(k) /\ (Silent(j) => Silent(k))
  BY <1>1, <1>3 DEF Amid, FilledRight, Said, Silent, Earned
<1>5. \A p \in Providers : p > k.at => k.heard[p] = {}
  BY <1>3 DEF Amid, Runs, Providers
<1>6. Between(k)
  BY <1>2, <1>3, <1>4, <1>5 DEF Between
<1> QED BY <1>3, <1>6 DEF missing, k

(* The answer of the provider asked comes after all others, so it fills what *)
(* nobody said before and no more                                            *)
LEMMA MergeResult ==
  ASSUME NEW j, RunOK(j), Asking(j), j.phase \in Active, Amid(j), NEW answer \in Answers,
         j.via = "search" /\ answer.says # {} => plausibleMatch(j.book.title, j.book.authors, answer)
  PROVE  ResultOK(Merge(j, answer))
<1> DEFINE still == StillMissing(j)
           filled == answer.says \cap still
           left == still \ filled
           source == [f \in Fields |-> IF f \in filled THEN j.at ELSE j.source[f]]
           searched == IF j.via = "search" /\ answer.says # {} THEN j.searched \cup {answer} ELSE j.searched
           heard == [j.heard EXCEPT ![j.at] = answer.says]
           k == [j EXCEPT !.missing = left, !.source = source, !.heard = heard, !.searched = searched]
<1>0. j \in Runs /\ j.at \in Providers /\ answer.says \in SUBSET Fields
  BY DEF RunOK, Asking, Answers
<1>1. Merge(j, answer) = Approach(k)
  BY <1>0 DEF Merge, Runs
<1>2. left \in SUBSET Fields
  BY <1>0 DEF StillMissing, Runs
<1>3. still \ {"isbn"} = j.missing \ {"isbn"}
  BY DEF StillMissing
<1>4. source \in [Fields -> 0..Last]
  <2> HIDE DEF filled
  <2> QED BY <1>0 DEF Runs
<1>5. heard \in [Providers -> SUBSET Fields] /\ searched \in SUBSET Answers
  BY <1>0 DEF Runs
<1>6. \A p \in Providers : heard[p] = IF p = j.at THEN answer.says ELSE j.heard[p]
  BY <1>0 DEF Runs
<1>7. \A f \in Fields : source[f] = IF f \in answer.says \cap still THEN j.at ELSE j.source[f]
  OBVIOUS
<1>8. left = still \ answer.says
  OBVIOUS
<1>e. \A a \in searched : plausibleMatch(j.book.title, j.book.authors, a)
  BY DEF Amid, Earned
<1> HIDE DEF left, source, searched, heard, filled, still
<1>9. /\ k \in Runs /\ k.missing = left /\ k.source = source /\ k.heard = heard
      /\ k.at = j.at /\ k.book = j.book /\ k.asked = j.asked /\ k.failed = j.failed
      /\ k.searched = searched
  BY <1>0, <1>2, <1>4, <1>5 DEF Runs
<1> HIDE DEF k
<1>10. \A f \in Fields : Said(k, f) = IF f \in answer.says THEN Said(j, f) \cup {j.at} ELSE Said(j, f)
  <2>1. j.heard[j.at] = {}
    BY <1>0 DEF Amid, Providers
  <2> QED BY <1>0, <1>6, <1>9, <2>1 DEF Said
<1>11. \A f \in Fields : \A q \in Said(j, f) : q < j.at
  BY <1>0 DEF Said, Amid, Providers
<1>12. FilledRight(k)
  <2> SUFFICES ASSUME NEW f \in Fields \ {"isbn"}
               PROVE  /\ f \in k.missing <=> f \in k.book.missing /\ Said(k, f) = {}
                      /\ IF f \in k.book.missing /\ Said(k, f) # {}
                         THEN k.source[f] \in Said(k, f) /\ \A q \in Said(k, f) : k.source[f] <= q
                         ELSE k.source[f] = None
    BY DEF FilledRight
  <2>1. /\ f \in j.missing <=> f \in j.book.missing /\ Said(j, f) = {}
        /\ IF f \in j.book.missing /\ Said(j, f) # {}
           THEN j.source[f] \in Said(j, f) /\ \A q \in Said(j, f) : j.source[f] <= q
           ELSE j.source[f] = None
    BY DEF Amid, FilledRight
  <2>2. f \in k.missing <=> f \in j.missing /\ f \notin answer.says
    BY <1>3, <1>8, <1>9
  <2>3. k.source[f] = IF f \in answer.says /\ f \in j.missing THEN j.at ELSE j.source[f]
    BY <1>3, <1>7, <1>9
  <2>4. Said(k, f) = IF f \in answer.says THEN Said(j, f) \cup {j.at} ELSE Said(j, f)
    BY <1>10
  <2>5. CASE f \notin answer.says
    BY <1>9, <2>1, <2>2, <2>3, <2>4, <2>5
  <2>6. CASE f \in answer.says /\ f \notin j.book.missing
    BY <1>9, <2>1, <2>2, <2>3, <2>6
  <2>7. CASE f \in answer.says /\ f \in j.book.missing /\ Said(j, f) = {}
    <3>1. Said(k, f) = {j.at} /\ k.source[f] = j.at /\ f \notin k.missing
      BY <2>1, <2>2, <2>3, <2>4, <2>7
    <3>2. j.at <= j.at
      BY <1>0 DEF Providers
    <3> QED BY <1>9, <2>7, <3>1, <3>2
  <2>8. CASE f \in answer.says /\ f \in j.book.missing /\ Said(j, f) # {}
    <3>1. k.source[f] = j.source[f] /\ f \notin k.missing /\ Said(k, f) = Said(j, f) \cup {j.at}
      BY <2>1, <2>2, <2>3, <2>4, <2>8
    <3>2. j.source[f] \in Said(j, f) /\ \A q \in Said(j, f) : j.source[f] <= q
      BY <2>1, <2>8
    <3>3. j.source[f] < j.at /\ j.source[f] \in Int /\ j.at \in Int
      BY <1>0, <1>11, <3>2 DEF Said, Providers
    <3>4. j.source[f] <= j.at
      BY <3>3
    <3> QED BY <1>9, <2>8, <3>1, <3>2, <3>4
  <2> QED BY <2>5, <2>6, <2>7, <2>8
<1>13. k.failed <= k.asked /\ k.failed # k.asked
  BY <1>0, <1>9 DEF Amid, Runs
<1>14. \A p \in Providers : p > k.at => k.heard[p] = {}
  BY <1>0, <1>6, <1>9 DEF Amid, Providers
<1>15. Between(k)
  BY <1>e, <1>9, <1>12, <1>13, <1>14 DEF Between, Earned
<1> QED BY <1>1, <1>9, <1>15, ApproachResult

LEMMA ReceivedResult ==
  ASSUME NEW j, RunOK(j), Asking(j), j.phase \in Active, Amid(j), NEW answer \in Answers
  PROVE  ResultOK(Received(j, answer))
<1>0. j \in Runs
  BY DEF RunOK
<1>1. CASE j.via = "isbn" /\ IsEmpty(answer) /\ j.book.title # <<>>
  <2> DEFINE k == [j EXCEPT !.phase = "ask", !.via = "search"]
  <2>1. Received(j, answer) = k
    BY <1>1 DEF Received
  <2>2. k.phase = "ask" /\ Same(j, k)
    BY <1>0 DEF Runs, Same
  <2> HIDE DEF k
  <2> QED BY <2>1, <2>2, SameKeeps DEF ResultOK
<1>2. CASE /\ ~(j.via = "isbn" /\ IsEmpty(answer) /\ j.book.title # <<>>)
           /\ j.via = "search" /\ ~IsEmpty(answer)
           /\ ~plausibleMatch(j.book.title, j.book.authors, answer)
  <2> DEFINE k == [j EXCEPT !.missing = StillMissing(j), !.failed = j.failed]
  <2>1. k = [j EXCEPT !.missing = StillMissing(j)]
    BY <1>0 DEF Runs
  <2>2. Received(j, answer) = Approach(k)
    BY <1>2, <2>1 DEF Received
  <2>3. k \in Runs /\ Between(k)
    BY <1>0, LeaveResult
  <2> HIDE DEF k
  <2> QED BY <2>2, <2>3, ApproachResult
<1>3. CASE /\ ~(j.via = "isbn" /\ IsEmpty(answer) /\ j.book.title # <<>>)
           /\ ~(j.via = "search" /\ ~IsEmpty(answer)
                /\ ~plausibleMatch(j.book.title, j.book.authors, answer))
  <2>1. Received(j, answer) = Merge(j, answer)
    BY <1>3 DEF Received
  <2>2. j.via = "search" /\ answer.says # {} => plausibleMatch(j.book.title, j.book.authors, answer)
    BY <1>3 DEF IsEmpty
  <2> QED BY <2>1, <2>2, MergeResult
<1> QED BY <1>1, <1>2, <1>3

LEMMA FailedResult ==
  ASSUME NEW j \in Runs, Amid(j)
  PROVE  ResultOK(Failed(j))
<1> DEFINE k == [j EXCEPT !.missing = StillMissing(j), !.failed = j.failed + 1]
<1>1. Failed(j) = Approach(k)
  BY DEF Failed
<1>2. k \in Runs /\ Between(k)
  BY LeaveResult
<1> HIDE DEF k
<1> QED BY <1>1, <1>2, ApproachResult

LEMMA FreshResult ==
  ASSUME NEW book \in BookSet
  PROVE  ResultOK(Approach(Fresh(book)))
<1> DEFINE j == Fresh(book)
<1>1. j \in Runs
  BY FreshOK DEF RunOK
<1>2. /\ j.failed = 0 /\ j.asked = 0 /\ j.missing = book.missing /\ j.book = book
      /\ \A f \in Fields : j.source[f] = None
      /\ \A p \in Providers : j.heard[p] = {}
      /\ j.searched = {}
  BY DEF Fresh
<1> HIDE DEF j
<1>3. Between(j)
  BY <1>2 DEF Between, Silent, FilledRight, Said, Earned
<1> QED BY <1>1, <1>3, ApproachResult DEF j

Results == \A c \in Callers : job[c].phase # "idle" => ResultOK(job[c])

LEMMA SetResult ==
  ASSUME JobsOK, Results, NEW c \in Callers, NEW j, Set(c, j), j.phase # "idle" => ResultOK(j)
  PROVE  Results'
BY DEF JobsOK, Results, Set

(* A step that changes where a run is and nothing of what it has             *)
LEMMA QuietResult ==
  ASSUME JobsOK, Results, NEW c \in Callers, job[c].phase \in Active,
         NEW j, Set(c, j), Same(job[c], j), j.phase \in Active
  PROVE  Results'
<1>1. Amid(job[c])
  BY DEF Results, ResultOK, Active
<1>2. ResultOK(j)
  BY <1>1, SameKeeps DEF ResultOK, Active
<1> QED BY <1>2, SetResult

LEMMA TakeResult ==
  ASSUME JobsOK, Results, NEW c \in Callers, job[c].phase \in Active,
         NEW answer \in Answers, Take(c, answer)
  PROVE  Results'
<1> DEFINE j == job[c]
           k == [j EXCEPT !.list = NoMatch]
<1>1. JobOK(j) /\ j \in Runs /\ Amid(j)
  BY JobOf DEF Results, ResultOK, Active
<1>2. Set(c, Received(k, answer))
  BY DEF Take
<1>3. /\ k \in Runs /\ k.phase = j.phase /\ k.attempt = j.attempt /\ k.at = j.at /\ k.via = j.via
      /\ Same(j, k)
  BY <1>1, NoMatchOK DEF Runs, Same
<1> HIDE DEF k
<1>4. RunOK(k) /\ Asking(k) /\ k.phase \in Active /\ Amid(k)
  BY <1>1, <1>3, SameKeeps DEF JobOK, RunOK, Asking, Same
<1>5. ResultOK(Received(k, answer))
  BY <1>4, ReceivedResult
<1> QED BY <1>2, <1>5, SetResult

LEMMA FailedStepResult ==
  ASSUME JobsOK, Results, NEW c \in Callers, job[c].phase \in Active, Set(c, Failed(job[c]))
  PROVE  Results'
<1>1. job[c] \in Runs /\ Amid(job[c])
  BY JobOf DEF Results, ResultOK, Active
<1> QED BY <1>1, FailedResult, SetResult

LEMMA AskResult ==
  ASSUME IInv, Results, NEW c \in Callers, Ask(c)
  PROVE  Results'
<1> DEFINE j == job[c]
           found == Cached(j.at, Key(j))
<1>1. JobOK(j) /\ j \in Runs /\ j.phase = "ask" /\ Amid(j)
  BY JobOf DEF IInv, Ask, Results, ResultOK
<1>2. j.at \in Providers
  BY <1>1 DEF JobOK, Asking, Active
<1>3. CASE found = {}
  <2> DEFINE k == [j EXCEPT !.phase = "limit", !.attempt = 1]
  <2>1. Set(c, k)
    BY <1>3 DEF Ask
  <2>2. Same(j, k) /\ k.phase = "limit"
    BY <1>1 DEF Same, Runs
  <2> HIDE DEF k
  <2> QED BY <1>1, <2>1, <2>2, QuietResult DEF IInv, Active
<1>4. CASE found # {}
  <2>1. PICK i \in found : Set(c, Received(j, cache[j.at][i].answer))
    BY <1>4 DEF Ask
  <2>2. cache[j.at][i].answer \in Answers
    <3>1. cache[j.at] \in Seq(Entries) /\ i \in 1..Len(cache[j.at])
      BY <1>2 DEF IInv, CacheOK, Cached
    <3>2. cache[j.at][i] \in Entries
      BY <3>1
    <3> QED BY <3>2 DEF Entries
  <2>3. ResultOK(Received(j, cache[j.at][i].answer))
    BY <1>1, <2>2, ReceivedResult DEF JobOK, Active
  <2> QED BY <2>1, <2>3, SetResult DEF IInv
<1> QED BY <1>3, <1>4

LEMMA FoundResult ==
  ASSUME IInv, Results, NEW c \in Callers, NEW volume \in Volumes, Found(c, volume)
  PROVE  Results'
<1> DEFINE j == job[c]
           told == Told(j, volume)
           k == [j EXCEPT !.phase = "detail", !.list = told]
<1>1. j.phase = "call" /\ j \in Runs /\ told \in Answers
  BY JobOf, ToldOK DEF IInv, Found
<1>2. CASE Client[j.at] = "googlebooks" /\ volume.named
  <2>1. Set(c, k)
    BY <1>2 DEF Found
  <2> HIDE DEF told
  <2>2. Same(j, k) /\ k.phase = "detail"
    BY <1>1 DEF Same, Runs
  <2> HIDE DEF k
  <2> QED BY <1>1, <2>1, <2>2, QuietResult DEF IInv, Active
<1>3. CASE ~(Client[j.at] = "googlebooks" /\ volume.named)
  <2>1. Take(c, told)
    BY <1>3 DEF Found
  <2> QED BY <1>1, <2>1, TakeResult DEF IInv, Active
<1> QED BY <1>2, <1>3

LEMMA DetailResult ==
  ASSUME IInv, Results, NEW c \in Callers,
         DetailFails(c) \/ \E more \in SUBSET DetailFields : Detailed(c, more)
  PROVE  Results'
<1> DEFINE told == job[c].list
<1>1. job[c].phase = "detail" /\ told \in Answers
  BY JobOf DEF DetailFails, Detailed, IInv, Runs
<1>2. CASE DetailFails(c)
  <2>1. [told EXCEPT !.partial = TRUE] \in Answers
    BY <1>1 DEF Answers
  <2> QED BY <1>1, <1>2, <2>1, TakeResult DEF DetailFails, IInv, Active
<1>3. ASSUME NEW more \in SUBSET DetailFields, Detailed(c, more)
      PROVE  Results'
  <2>1. [told EXCEPT !.says = told.says \cup more] \in Answers
    BY <1>1 DEF Answers, DetailFields
  <2> QED BY <1>1, <1>3, <2>1, TakeResult DEF Detailed, IInv, Active
<1> QED BY <1>2, <1>3

(* Waiting, calling, a try that is repeated and the end of the context       *)
LEMMA PatienceResult ==
  ASSUME IInv, Results, NEW c \in Callers,
         \/ Queue(c) \/ Call(c) \/ BackoffEnds(c) \/ Cut(c)
         \/ job[c].phase = "call" /\ TryAgain(c) /\ job[c].attempt # Attempts
  PROVE  Results'
<1> DEFINE j == job[c]
<1>1. j.phase \in Active
  BY DEF Queue, Call, BackoffEnds, Cut, Active
<1>2. j \in Runs
  BY <1>1, JobOf DEF IInv, Active
<1>3. CASE Queue(c)
  <2>1. PICK phase \in {"call", "wait"} : Set(c, [j EXCEPT !.phase = phase])
    BY <1>3 DEF Queue
  <2> DEFINE k == [j EXCEPT !.phase = phase]
  <2>2. Set(c, k)
    BY <2>1
  <2>3. Same(j, k) /\ k.phase = phase
    BY <1>2 DEF Same, Runs
  <2> HIDE DEF k
  <2> QED BY <1>1, <2>2, <2>3, QuietResult DEF IInv, Active
<1>4. CASE Call(c)
  <2> DEFINE k == [j EXCEPT !.phase = "call"]
  <2>1. Set(c, k)
    BY <1>4 DEF Call
  <2>2. Same(j, k) /\ k.phase = "call"
    BY <1>2 DEF Same, Runs
  <2> HIDE DEF k
  <2> QED BY <1>1, <2>1, <2>2, QuietResult DEF IInv, Active
<1>5. CASE BackoffEnds(c)
  <2> DEFINE k == [j EXCEPT !.phase = "limit", !.attempt = j.attempt + 1]
  <2>1. Set(c, k)
    BY <1>5 DEF BackoffEnds
  <2>2. Same(j, k) /\ k.phase = "limit"
    BY <1>2 DEF Same, Runs
  <2> HIDE DEF k
  <2> QED BY <1>1, <2>1, <2>2, QuietResult DEF IInv, Active
<1>6. CASE Cut(c)
  <2> DEFINE k == [j EXCEPT !.cut = TRUE]
  <2>1. Set(c, k)
    BY <1>6 DEF Cut
  <2>2. Same(j, k) /\ k.phase = j.phase
    BY <1>2 DEF Same, Runs
  <2> HIDE DEF k
  <2> QED BY <1>1, <2>1, <2>2, QuietResult DEF IInv, Active
<1>7. CASE TryAgain(c) /\ j.attempt # Attempts
  <2> DEFINE until == now + Backoff[j.attempt]
             k == [j EXCEPT !.phase = "backoff", !.until = until]
  <2>1. Set(c, k)
    BY <1>7 DEF TryAgain
  <2> HIDE DEF until
  <2>2. Same(j, k) /\ k.phase = "backoff"
    BY <1>2 DEF Same, Runs
  <2> HIDE DEF k
  <2> QED BY <1>1, <2>1, <2>2, QuietResult DEF IInv, Active
<1> QED BY <1>3, <1>4, <1>5, <1>6, <1>7

LEMMA NextResult == IInv /\ Results /\ [Next]_vars => Results'
<1> SUFFICES ASSUME IInv, Results, [Next]_vars PROVE Results'
  OBVIOUS
<1>1. CASE Tick \/ UNCHANGED vars
  BY <1>1 DEF Tick, vars, Results
<1>2. ASSUME NEW c \in Callers, Begin(c)
      PROVE  Results'
  <2>1. PICK book \in BookSet : Set(c, Approach(Fresh(book)))
    BY <1>2 DEF Begin
  <2> QED BY <2>1, FreshResult, SetResult DEF IInv
<1>3. ASSUME NEW c \in Callers,
             GiveUp(c) \/ Throttled(c) \/ TornBody(c) \/ Refused(c) \/ BackoffCut(c)
      PROVE  Results'
  <2>1. job[c].phase \in Active
    BY <1>3 DEF GiveUp, Throttled, TornBody, Refused, BackoffCut, Active
  <2>2. TryAgain(c) => Set(c, Failed(job[c])) \/ job[c].attempt # Attempts
    BY DEF TryAgain
  <2>3. Set(c, Failed(job[c])) \/ (job[c].phase = "call" /\ TryAgain(c))
    BY <1>3 DEF GiveUp, Throttled, TornBody, Refused, BackoffCut, Fail
  <2> QED BY <2>1, <2>2, <2>3, FailedStepResult, PatienceResult DEF IInv
<1>4. ASSUME NEW c \in Callers,
             \/ NotFound(c)
             \/ \E volume \in Volumes : Found(c, volume)
             \/ \E more \in SUBSET DetailFields : Detailed(c, more)
             \/ DetailFails(c)
      PROVE  Results'
  <2>1. CASE NotFound(c)
    BY <2>1, NoMatchOK, TakeResult DEF NotFound, Active, IInv
  <2> QED BY <1>4, <2>1, FoundResult, DetailResult
<1>5. ASSUME NEW c \in Callers, Ask(c) \/ Queue(c) \/ Call(c) \/ BackoffEnds(c) \/ Cut(c)
      PROVE  Results'
  BY <1>5, AskResult, PatienceResult
<1>6. ASSUME NEW c \in Callers, Finish(c)
      PROVE  Results'
  <2>1. Set(c, Idle) /\ Idle.phase = "idle"
    BY <1>6 DEF Finish, Idle
  <2> QED BY <2>1, SetResult DEF IInv
<1> QED BY <1>1, <1>2, <1>3, <1>4, <1>5, <1>6 DEF Next

LEMMA ResultsHold == Spec => [](IInv /\ Results)
<1>1. Init => Results
  BY DEF Init, Results, Idle
<1> QED BY <1>1, InitOK, NextOK, NextResult, PTL DEF Spec

(* A run of which every provider has failed has nothing from any of them     *)
(* (Resolution.Failed).                                                      *)
THEOREM FailureIsSilence == Spec => []FailedMeansSilent
<1>1. IInv /\ Results => FailedMeansSilent
  <2> SUFFICES ASSUME IInv, Results, NEW c \in Running
               PROVE  /\ job[c].failed <= job[c].asked
                      /\ job[c].asked > 0 /\ job[c].failed = job[c].asked
                           => \A f \in Fields : job[c].source[f] = None
    BY DEF FailedMeansSilent
  <2>1. ResultOK(job[c]) /\ job[c] \in Runs
    BY JobOf DEF Running, Results, IInv
  <2> QED BY <2>1 DEF ResultOK, Between, Amid, Silent, Runs
<1> QED BY <1>1, ResultsHold, PTL

(* A field is filled by the first provider that had it, if the book missed   *)
(* it, and the ISBN by none (Resolve).                                       *)
THEOREM FirstWins == Spec => []FirstAnswerWins
<1>1. IInv /\ Results => FirstAnswerWins
  <2> SUFFICES ASSUME IInv, Results PROVE FirstAnswerWins
    OBVIOUS
  <2>1. ISBNUnfilled
    BY JobOf DEF IInv, ISBNUnfilled, Running, JobOK, RunOK
  <2>2. ASSUME NEW c \in Running, NEW f \in Fields \ {"isbn"}
        PROVE  LET j == job[c]
                   said == {p \in Providers : f \in j.heard[p]} IN
               j.source[f] = IF f \notin j.book.missing \/ said = {} THEN None
                             ELSE CHOOSE p \in said : \A q \in said : p <= q
    <3> DEFINE j == job[c]
               said == {p \in Providers : f \in j.heard[p]}
    <3>1. FilledRight(j)
      BY DEF Running, Results, ResultOK, Between, Amid
    <3>2. Said(j, f) = said /\ said \subseteq Int
      BY DEF Said, Providers
    <3>3. CASE f \notin j.book.missing \/ said = {}
      BY <3>1, <3>2, <3>3 DEF FilledRight
    <3>4. CASE f \in j.book.missing /\ said # {}
      <4>1. j.source[f] \in said /\ \A q \in said : j.source[f] <= q
        BY <3>1, <3>2, <3>4 DEF FilledRight
      <4>2. \A p \in said : (\A q \in said : p <= q) => p = j.source[f]
        BY <3>2, <4>1
      <4> DEFINE least == CHOOSE p \in said : \A q \in said : p <= q
      <4> HIDE DEF said
      <4>3. least \in said /\ \A q \in said : least <= q
        BY <4>1
      <4>4. least = j.source[f]
        BY <4>2, <4>3
      <4> USE DEF said
      <4> QED BY <3>4, <4>4
    <3> QED BY <3>3, <3>4
  <2> QED BY <2>1, <2>2 DEF FirstAnswerWins
<1> QED BY <1>1, ResultsHold, PTL
-----------------------------------------------------------------------------
(* Titles.  The n-th segment is the one with n - 1 cuts before it: counting  *)
(* the cuts before each numbers the cuts without a gap                       *)

LEMMA CutsFinite ==
  ASSUME NEW t, Len(t) \in Nat
  PROVE  IsFiniteSet(Cuts(t)) /\ Cardinality(Cuts(t)) \in Nat /\ Cuts(t) \subseteq Nat
<1>1. IsFiniteSet(1..Len(t))
  BY FS_Interval
<1>2. Cuts(t) \subseteq 1..Len(t)
  BY DEF Cuts
<1> QED BY <1>1, <1>2, FS_Subset, FS_CardinalityType

LEMMA EveryRank ==
  ASSUME NEW S, S \subseteq Nat, IsFiniteSet(S), NEW n \in 1..Cardinality(S)
  PROVE  \E i \in S : Cardinality({j \in S : j < i}) = n - 1
<1> DEFINE Below(i) == {j \in S : j < i}
           T == 1..Cardinality(S)
           rank == [i \in S |-> Cardinality(Below(i)) + 1]
<1>1. Cardinality(S) \in Nat
  BY FS_CardinalityType
<1>2. IsFiniteSet(T) /\ Cardinality(T) = Cardinality(S)
  BY <1>1, FS_Interval
<1>3. ASSUME NEW i \in S
      PROVE  IsFiniteSet(Below(i)) /\ Cardinality(Below(i)) \in Nat /\ Cardinality(Below(i)) < Cardinality(S)
  <2>1. Below(i) \subseteq S /\ Below(i) # S
    OBVIOUS
  <2> HIDE DEF Below
  <2>2. IsFiniteSet(Below(i)) /\ Cardinality(Below(i)) <= Cardinality(S)
        /\ Cardinality(Below(i)) # Cardinality(S)
    BY <2>1, FS_Subset
  <2>3. Cardinality(Below(i)) \in Nat
    BY <2>2, FS_CardinalityType
  <2> QED BY <1>1, <2>2, <2>3
<1>4. ASSUME NEW i \in S, NEW k \in S, i < k
      PROVE  Cardinality(Below(i)) # Cardinality(Below(k))
  <2>1. Below(i) \subseteq Below(k) /\ i \in Below(k) /\ i \notin Below(i)
    <3>1. i \in Nat /\ k \in Nat /\ \A j \in S : j \in Nat
      OBVIOUS
    <3>2. \A j \in S : j < i => j < k
      BY <1>4, <3>1
    <3>3. ~(i < i)
      BY <3>1
    <3> QED BY <1>4, <3>2, <3>3
  <2>2. IsFiniteSet(Below(k))
    BY <1>3
  <2> HIDE DEF Below
  <2> QED BY <2>1, <2>2, FS_Subset
<1> HIDE DEF Below
<1>5. rank \in [S -> T]
  BY <1>1, <1>3
<1>6. ASSUME NEW i \in S, NEW k \in S, rank[i] = rank[k] PROVE i = k
  <2>1. Cardinality(Below(i)) = Cardinality(Below(k))
    BY <1>3, <1>6
  <2>2. i \in Nat /\ k \in Nat
    OBVIOUS
  <2> QED BY <1>4, <2>1, <2>2
<1>7. rank \in Injection(S, T)
  BY <1>5, <1>6 DEF Injection, IsInjective
<1>8. rank \in Surjection(S, T)
  BY <1>2, <1>7, FS_Injection
<1>9. PICK i \in S : rank[i] = n
  BY <1>8 DEF Surjection
<1>10. Cardinality(Below(i)) = n - 1
  BY <1>3, <1>9
<1> QED BY <1>10 DEF Below

LEMMA SegmentsAreSegments ==
  ASSUME NEW t, Len(t) \in Nat, segmentsOf(t) # <<>>
  PROVE  /\ Len(segmentsOf(t)) = Cardinality(Cuts(t)) /\ Cardinality(Cuts(t)) # 0
         /\ \A n \in 1..Cardinality(Cuts(t)) :
              \E i \in Cuts(t) : segmentsOf(t)[n] = Segment(t, i)
<1> DEFINE At(n) == CHOOSE i \in Cuts(t) : Cardinality({j \in Cuts(t) : j < i}) = n - 1
<1>1. segmentsOf(t) = [n \in 1..Cardinality(Cuts(t)) |-> Segment(t, At(n))]
  BY DEF segmentsOf
<1>2. IsFiniteSet(Cuts(t)) /\ Cardinality(Cuts(t)) \in Nat /\ Cuts(t) \subseteq Nat
  BY CutsFinite
<1>3. ASSUME NEW n \in 1..Cardinality(Cuts(t)) PROVE At(n) \in Cuts(t)
  <2>1. \E i \in Cuts(t) : Cardinality({j \in Cuts(t) : j < i}) = n - 1
    BY <1>2, EveryRank
  <2> QED BY <2>1
<1> HIDE DEF At
<1>4. Len(segmentsOf(t)) = Cardinality(Cuts(t))
  BY <1>1, <1>2
<1>5. \A n \in 1..Cardinality(Cuts(t)) : segmentsOf(t)[n] = Segment(t, At(n))
  BY <1>1
<1>6. Cardinality(Cuts(t)) # 0
  <2> DEFINE S == {Segment(t, i) : i \in Cuts(t)}
  <2>1. segmentsOf(t) \in Seq(S)
    BY <1>1, <1>2, <1>3
  <2> HIDE DEF S
  <2> QED BY <1>4, <2>1, EmptySeq
<1> QED BY <1>3, <1>4, <1>5, <1>6

LEMMA MatchShares ==
  ASSUME NEW a, NEW b, Len(a) \in Nat, Len(b) \in Nat, titlesMatch(a, b)
  PROVE  /\ \E i \in Cuts(b), k \in Cuts(a) :
              withoutArticle(Segment(b, i)) = withoutArticle(Segment(a, k))
         /\ \/ Cardinality(Cuts(b)) <= Cardinality(Cuts(a))
            \/ Cardinality(Cuts(b)) <= MaxSegments
<1> DEFINE as == segmentsOf(a)
           bs == segmentsOf(b)
           m == Cardinality(Cuts(a))
           n == Cardinality(Cuts(b))
<1>1. as # <<>> /\ bs # <<>>
  BY DEF titlesMatch
<1>2. /\ Len(as) = m /\ \A x \in 1..m : \E k \in Cuts(a) : as[x] = Segment(a, k)
      /\ Len(bs) = n /\ \A y \in 1..n : \E i \in Cuts(b) : bs[y] = Segment(b, i)
  BY <1>1, SegmentsAreSegments
<1>3. m \in Nat /\ n \in Nat
  BY CutsFinite
<1>4. ASSUME NEW x \in 1..m, NEW y \in 1..n, segmentsMatch(as[x], bs[y]) \/ segmentsMatch(bs[y], as[x])
      PROVE  \E i \in Cuts(b), k \in Cuts(a) :
               withoutArticle(Segment(b, i)) = withoutArticle(Segment(a, k))
  <2>1. PICK k \in Cuts(a) : as[x] = Segment(a, k)
    BY <1>2
  <2>2. PICK i \in Cuts(b) : bs[y] = Segment(b, i)
    BY <1>2
  <2>3. withoutArticle(as[x]) = withoutArticle(bs[y])
    BY <1>4 DEF segmentsMatch
  <2> QED BY <2>1, <2>2, <2>3
<1>5. CASE Len(as) = Len(bs) /\ \A x \in 1..Len(as) : segmentsMatch(as[x], bs[x])
  <2>1. m = n /\ \A x \in 1..m : segmentsMatch(as[x], bs[x])
    BY <1>2, <1>5
  <2>2. 1 \in 1..m
    BY <1>1, <1>3, SegmentsAreSegments
  <2> QED BY <1>3, <1>4, <2>1, <2>2
<1>6. CASE segmentMatch(as, bs)
  <2>1. m = 1 /\ n \in 1..MaxSegments /\ \E y \in 1..n : segmentsMatch(as[1], bs[y])
    BY <1>2, <1>6 DEF segmentMatch
  <2> QED BY <1>3, <1>4, <2>1, MatchAssumption
<1>7. CASE segmentMatch(bs, as)
  <2>1. n = 1 /\ m \in 1..MaxSegments /\ \E x \in 1..m : segmentsMatch(bs[1], as[x])
    BY <1>2, <1>7 DEF segmentMatch
  <2> QED BY <1>3, <1>4, <2>1, MatchAssumption
<1> HIDE DEF as, bs, m, n
<1> QED BY <1>5, <1>6, <1>7 DEF titlesMatch, as, bs, m, n

(* What a search brought in is about the book: for any titles the catalogues *)
(* hold (titlesMatch, plausibleMatch).                                       *)
THEOREM SearchIsEarned == Spec => []SearchEarnsMerge
<1>1. IInv /\ Results => SearchEarnsMerge
  <2> SUFFICES ASSUME IInv, Results, NEW c \in Running, NEW answer \in job[c].searched
               PROVE  LET book == job[c].book
                          Shared(i, k) == withoutArticle(Segment(answer.title, i))
                                            = withoutArticle(Segment(book.title, k)) IN
                      /\ \E i \in Cuts(answer.title), k \in Cuts(book.title) : Shared(i, k)
                      /\ \/ Cardinality(Cuts(answer.title)) <= Cardinality(Cuts(book.title))
                         \/ Cardinality(Cuts(answer.title)) <= MaxSegments
                      /\ book.authors # {} /\ answer.authors # {} => book.authors \cap answer.authors # {}
    BY DEF SearchEarnsMerge
  <2>1. job[c] \in Runs /\ Earned(job[c])
    BY JobOf DEF Running, Results, ResultOK, Between, Amid, IInv
  <2>2. plausibleMatch(job[c].book.title, job[c].book.authors, answer)
    BY <2>1 DEF Earned
  <2>3. Len(job[c].book.title) \in Nat /\ Len(answer.title) \in Nat
    <3>1. job[c].book \in BookSet /\ answer \in Answers
      BY <2>1 DEF Runs
    <3>2. answer.title = <<>> \/ \E v \in Volumes : answer.title = v.title
      BY <3>1 DEF Answers
    <3> QED BY <3>1, <3>2, LookupAssumption
  <2> QED BY <2>2, <2>3, MatchShares DEF plausibleMatch
<1> QED BY <1>1, ResultsHold, PTL
=============================================================================
