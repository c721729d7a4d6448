------------------------------- MODULE Lookup ------------------------------
(* One run of the providers for a book: Resolve (internal/enrich/resolver.go)*)
(* over the clients of internal/openlibrary and internal/googlebooks, each   *)
(* wrapped, by compose (internal/providers), in a cache, a retry and a rate  *)
(* limiter (internal/enrich/decorator.go).                                   *)
(*                                                                           *)
(* The decorators lock for callers that run concurrently, so Callers may     *)
(* hold more than the one worker main starts.  Time is a count of ticks; a   *)
(* timer that is due may still fire late.                                    *)
EXTENDS Integers, TitleMatch

CONSTANTS Callers,
          Last,            \* the providers are 1..Last, in the order asked
          Fields,          \* what can be missing; "isbn" and the cover among them
          BookSet,         \* what is asked about: isbn, title, authors, missing fields
          NoISBN,
          Client,          \* of each provider: which of the two clients it is
          Volumes,         \* what a reply can hold: title, authors, fields, named
          Every,           \* the interval of a limiter
          Attempts,        \* tries WithRetry makes
          Backoff,         \* the delay before try n + 1
          CacheSize,
          MaxTime, MaxRuns

ASSUME LookupAssumption ==
  /\ Last \in Nat /\ Every \in Nat /\ Attempts \in Nat \ {0}
  /\ CacheSize \in Nat \ {0} /\ MaxTime \in Nat /\ MaxRuns \in Nat
  /\ \A n \in 1..(Attempts - 1) : Backoff[n] \in Nat
  /\ "isbn" \in Fields
  /\ \A book \in BookSet : /\ book.missing \subseteq Fields
                           /\ "isbn" \in book.missing => book.isbn = NoISBN
  /\ Client \in [1..Last -> {"openlibrary", "googlebooks"}]
  /\ \A volume \in Volumes : volume.says \subseteq Fields
  /\ \A x \in BookSet \cup Volumes : Len(x.title) \in Nat

VARIABLES now,
          next,            \* of each provider's limiter: the earliest next slot
          slot,            \* the slot each caller waits for or took last
          calls,           \* slots handed to a client call, by provider
          cache,           \* of each provider: entries, the latest used first
          job,             \* the run each caller is in
          runs             \* how many runs were begun

limiterVars == <<next, slot, calls>>
vars == <<now, limiterVars, cache, job, runs>>

Providers == 1..Last
None == 0                  \* no provider

Idle == [phase |-> "idle"]

-----------------------------------------------------------------------------
(* The limiter.  A caller takes the next free slot, and hands it back if it  *)
(* gives up before it is due and nobody has queued behind it.                *)

FreeSlot(p) == IF next[p] < now THEN now ELSE next[p]

(* Mutant: the slot after is counted from the clock, not from the slot       *)
FromNow(s) == now + Every

After(s) == s + Every

Release(c, p) ==
  next' = IF next[p] = After(slot[c]) THEN [next EXCEPT ![p] = slot[c]] ELSE next

-----------------------------------------------------------------------------
(* The cache.  get and put move an entry to the front; put drops the last.   *)

Key(j) ==
  [via |-> j.via,
   isbn |-> IF j.via = "isbn" THEN j.book.isbn ELSE NoISBN,
   title |-> IF j.via = "search" THEN j.book.title ELSE <<>>,
   authors |-> IF j.via = "search" THEN j.book.authors ELSE {}]

Cached(p, key) == {i \in 1..Len(cache[p]) : cache[p][i].key = key}

ToFront(p, key, answer) ==
  <<[key |-> key, answer |-> answer]>> \o
    (IF Cached(p, key) = {} THEN cache[p]
     ELSE LET i == CHOOSE i \in Cached(p, key) : TRUE
          IN SubSeq(cache[p], 1, i - 1) \o SubSeq(cache[p], i + 1, Len(cache[p])))

Put(p, key, answer) ==
  LET s == ToFront(p, key, answer)
  IN IF answer.partial THEN cache[p]
     ELSE SubSeq(s, 1, IF Len(s) > CacheSize THEN CacheSize ELSE Len(s))

-----------------------------------------------------------------------------
(* What the clients tell: Metadata, marked partial when a part of it could   *)
(* not be asked for.  search.json speaks of the work, never of the edition.  *)

Answers ==
  [title : {<<>>} \cup {v.title : v \in Volumes},
   authors : {{}} \cup {v.authors : v \in Volumes},
   says : SUBSET Fields, partial : BOOLEAN]

NoMatch == [title |-> <<>>, authors |-> {}, says |-> {}, partial |-> FALSE]

EditionOnly == {"language", "published_date", "description"}
DetailFields == Fields \cap {"cover", "description"}

Told(j, volume) ==
  [title |-> volume.title, authors |-> volume.authors,
   says |-> IF Client[j.at] = "openlibrary" /\ j.via = "search"
            THEN volume.says \ EditionOnly ELSE volume.says,
   partial |-> FALSE]

-----------------------------------------------------------------------------
(* Resolve.  A run holds what is still missing, whom it is asking and how,   *)
(* and what it has so far: who filled each field, and how many were asked    *)
(* and failed.  heard and searched are history: what was accepted of each    *)
(* provider, and the answers accepted from a search.                         *)
(* list is what a googlebooks search told, while its detail is asked for.    *)

IsEmpty(answer) == answer.title = <<>> /\ answer.authors = {} /\ answer.says = {}

Fresh(book) ==
  [phase |-> "ask", book |-> book, missing |-> book.missing, at |-> 0, via |-> "none",
   attempt |-> 0, until |-> 0, cut |-> FALSE, list |-> NoMatch,
   source |-> [f \in Fields |-> None], asked |-> 0, failed |-> 0,
   heard |-> [p \in Providers |-> {}], searched |-> {}]

Done(j) == [j EXCEPT !.phase = "done"]

(* The next provider is asked by ISBN when there is one, else by title       *)
Approach(j) ==
  IF j.missing = {} \/ j.at = Last \/ (j.book.isbn = NoISBN /\ j.book.title = <<>>)
  THEN Done(j)
  ELSE [j EXCEPT !.phase = "ask", !.at = @ + 1, !.asked = @ + 1,
                 !.via = IF j.book.isbn # NoISBN THEN "isbn" ELSE "search"]

(* Taking the title path drops the ISBN from what is missing                 *)
StillMissing(j) == IF j.via = "search" THEN j.missing \ {"isbn"} ELSE j.missing

(* Mutant: an ISBN lookup that failed is followed by a search                *)
FailedOver(j) ==
  IF j.via = "isbn" /\ j.book.title # <<>>
  THEN [j EXCEPT !.phase = "ask", !.via = "search", !.failed = @ + 1]
  ELSE Approach([j EXCEPT !.missing = StillMissing(j), !.failed = @ + 1])

Failed(j) == Approach([j EXCEPT !.missing = StillMissing(j), !.failed = @ + 1])

(* Mutant: a filled field stays in the missing set                           *)
MergeAgain(j, answer) ==
  LET filled == answer.says \cap StillMissing(j) IN
  Approach([j EXCEPT !.missing = StillMissing(j),
                     !.source = [f \in Fields |-> IF f \in filled THEN j.at ELSE @[f]],
                     !.heard[j.at] = answer.says,
                     !.searched = IF j.via = "search" /\ answer.says # {} THEN @ \cup {answer} ELSE @])

Merge(j, answer) ==
  LET filled == answer.says \cap StillMissing(j) IN
  Approach([j EXCEPT !.missing = StillMissing(j) \ filled,
                     !.source = [f \in Fields |-> IF f \in filled THEN j.at ELSE @[f]],
                     !.heard[j.at] = answer.says,
                     !.searched = IF j.via = "search" /\ answer.says # {} THEN @ \cup {answer} ELSE @])

Received(j, answer) ==
  IF j.via = "isbn" /\ IsEmpty(answer) /\ j.book.title # <<>>
  THEN [j EXCEPT !.phase = "ask", !.via = "search"]
  ELSE IF j.via = "search" /\ ~IsEmpty(answer)
          /\ ~plausibleMatch(j.book.title, j.book.authors, answer)
  THEN Approach([j EXCEPT !.missing = StillMissing(j)])
  ELSE Merge(j, answer)

-----------------------------------------------------------------------------
(* The steps of a run                                                        *)

Set(c, j) == job' = [job EXCEPT ![c] = j]

(* Resolve is called for a book                                              *)
Begin(c) ==
  /\ job[c].phase = "idle" /\ runs < MaxRuns
  /\ \E book \in BookSet : Set(c, Approach(Fresh(book)))
  /\ runs' = runs + 1
  /\ UNCHANGED <<now, limiterVars, cache>>

(* The cache answers, or the call goes on to the retry                       *)
Ask(c) ==
  LET j == job[c]
      found == Cached(j.at, Key(j)) IN
  /\ j.phase = "ask"
  /\ IF found = {}
     THEN Set(c, [j EXCEPT !.phase = "limit", !.attempt = 1]) /\ UNCHANGED cache
     ELSE \E i \in found :
            /\ cache' = [cache EXCEPT ![j.at] = ToFront(j.at, Key(j), @[i].answer)]
            /\ Set(c, Received(j, cache[j.at][i].answer))
  /\ UNCHANGED <<now, limiterVars, runs>>

(* An attempt takes the next slot.  One that is due is not waited for,       *)
(* whatever has become of the context.                                       *)
Queue(c) ==
  LET j == job[c]
      s == FreeSlot(j.at) IN
  /\ j.phase = "limit"
  /\ next' = [next EXCEPT ![j.at] = After(s)]
  /\ slot' = [slot EXCEPT ![c] = s]
  /\ IF s = now THEN /\ calls' = [calls EXCEPT ![j.at] = @ \cup {s}]
                     /\ Set(c, [j EXCEPT !.phase = "call"])
     ELSE UNCHANGED calls /\ Set(c, [j EXCEPT !.phase = "wait"])
  /\ UNCHANGED <<now, cache, runs>>

(* The slot has come and the client is called                                *)
Call(c) ==
  /\ job[c].phase = "wait" /\ slot[c] <= now
  /\ calls' = [calls EXCEPT ![job[c].at] = @ \cup {slot[c]}]
  /\ Set(c, [job[c] EXCEPT !.phase = "call"])
  /\ UNCHANGED <<now, next, slot, cache, runs>>

(* The context ends while a caller waits                                     *)
GiveUp(c) ==
  /\ job[c].phase = "wait" /\ job[c].cut
  /\ Release(c, job[c].at)
  /\ Set(c, Failed(job[c]))
  /\ UNCHANGED <<now, slot, calls, cache, runs>>

(* An answer without error goes through the cache to the run                 *)
Take(c, answer) ==
  LET j == [job[c] EXCEPT !.list = NoMatch] IN
  /\ cache' = [cache EXCEPT ![j.at] = Put(j.at, Key(j), answer)]
  /\ Set(c, Received(j, answer))
  /\ UNCHANGED <<now, limiterVars, runs>>

(* A 404, or a body with nothing in it, is no error                          *)
NotFound(c) == job[c].phase = "call" /\ Take(c, NoMatch)

(* googlebooks goes on to ask for the detail of a volume the list named      *)
Found(c, volume) ==
  LET j == job[c] IN
  /\ j.phase = "call"
  /\ IF Client[j.at] = "googlebooks" /\ volume.named
     THEN /\ Set(c, [j EXCEPT !.phase = "detail", !.list = Told(j, volume)])
          /\ UNCHANGED <<now, limiterVars, cache, runs>>
     ELSE Take(c, Told(j, volume))

(* The detail is of the volume asked for, and holds more                     *)
Detailed(c, more) ==
  job[c].phase = "detail" /\ Take(c, [job[c].list EXCEPT !.says = @ \cup more])

(* Whatever fails of the detail, the list's answer stands, marked            *)
DetailFails(c) ==
  job[c].phase = "detail" /\ Take(c, [job[c].list EXCEPT !.partial = TRUE])

TryAgain(c) ==
  LET j == job[c] IN
  /\ Set(c, IF j.attempt = Attempts THEN Failed(j)
            ELSE [j EXCEPT !.phase = "backoff", !.until = now + Backoff[j.attempt]])
  /\ UNCHANGED <<now, limiterVars, cache, runs>>

Fail(c) ==
  /\ Set(c, Failed(job[c]))
  /\ UNCHANGED <<now, limiterVars, cache, runs>>

(* No reply, a 429 or a 5xx: tried again after a delay                       *)
Throttled(c) == job[c].phase = "call" /\ TryAgain(c)

(* A body that breaks off: openlibrary reads it whole before it parses it,   *)
(* googlebooks parses it as it comes and takes the break for bad JSON        *)
TornBody(c) ==
  /\ job[c].phase = "call"
  /\ IF Client[job[c].at] = "openlibrary" THEN TryAgain(c) ELSE Fail(c)

BackoffEnds(c) ==
  /\ job[c].phase = "backoff" /\ job[c].until <= now
  /\ Set(c, [job[c] EXCEPT !.phase = "limit", !.attempt = @ + 1])
  /\ UNCHANGED <<now, limiterVars, cache, runs>>

BackoffCut(c) ==
  job[c].phase = "backoff" /\ job[c].cut /\ Fail(c)

(* A refused redirect, any other status and a body of another shape are final*)
Refused(c) == job[c].phase = "call" /\ Fail(c)

(* The caller's context ends                                                 *)
Cut(c) ==
  /\ job[c].phase \in {"limit", "wait", "call", "detail", "backoff"} /\ ~job[c].cut
  /\ Set(c, [job[c] EXCEPT !.cut = TRUE])
  /\ UNCHANGED <<now, limiterVars, cache, runs>>

(* The worker takes the result and its next job                              *)
Finish(c) ==
  /\ job[c].phase = "done"
  /\ Set(c, Idle)
  /\ UNCHANGED <<now, limiterVars, cache, runs>>

Tick ==
  /\ now < MaxTime /\ now' = now + 1
  /\ UNCHANGED <<limiterVars, cache, job, runs>>

Init ==
  /\ now = 0
  /\ next = [p \in Providers |-> 0]
  /\ slot = [c \in Callers |-> 0]
  /\ calls = [p \in Providers |-> {}]
  /\ cache = [p \in Providers |-> <<>>]
  /\ job = [c \in Callers |-> Idle]
  /\ runs = 0

Next ==
  \/ Tick
  \/ \E c \in Callers :
       \/ Begin(c) \/ Ask(c) \/ Queue(c) \/ Call(c) \/ GiveUp(c)
       \/ NotFound(c) \/ \E volume \in Volumes : Found(c, volume)
       \/ \E more \in SUBSET DetailFields : Detailed(c, more)
       \/ DetailFails(c) \/ Throttled(c) \/ TornBody(c) \/ Refused(c)
       \/ BackoffEnds(c) \/ BackoffCut(c)
       \/ Cut(c) \/ Finish(c)

Spec == Init /\ [][Next]_vars
=============================================================================
