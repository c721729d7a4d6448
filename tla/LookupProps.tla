---------------------------- MODULE LookupProps ----------------------------
(* What a run of the providers may be relied on for.                         *)
EXTENDS Lookup

Running == {c \in Callers : job[c].phase # "idle"}
Waiting(p) == {c \in Running : job[c].phase = "wait" /\ job[c].at = p}

Apart(s, t) == s + Every <= t \/ t + Every <= s

(* However callers queue, give up and hand slots back, the calls a provider  *)
(* gets and those on their way to it have slots an interval apart            *)
(* (rateLimiter.wait, release).                                              *)
SlotsApart ==
  \A p \in Providers :
    /\ \A s, t \in calls[p] : s = t \/ Apart(s, t)
    /\ \A c \in Waiting(p) : \A s \in calls[p] : Apart(slot[c], s)
    /\ \A c, d \in Waiting(p) : c = d \/ Apart(slot[c], slot[d])

(* Enrichment cannot write isbn by any route (Resolve).                      *)
ISBNUnfilled == \A c \in Running : job[c].source["isbn"] = None

(* A field is filled only if the book missed it, by the first provider whose *)
(* accepted answer held it, and no accepted answer to a missing field is     *)
(* lost: stopping early saves calls, never values (Resolve).  The ISBN is    *)
(* filled by none.                                                           *)
FirstAnswerWins ==
  /\ ISBNUnfilled
  /\ \A c \in Running : \A f \in Fields \ {"isbn"} :
       LET j == job[c]
           said == {p \in Providers : f \in j.heard[p]} IN
       j.source[f] = IF f \notin j.book.missing \/ said = {} THEN None
                     ELSE CHOOSE p \in said : \A q \in said : p <= q

(* A run in which every provider asked has failed has nothing from any of    *)
(* them, so the worker may call it failed (Resolution.Failed, process).      *)
FailedMeansSilent ==
  \A c \in Running :
    /\ job[c].failed <= job[c].asked
    /\ job[c].asked > 0 /\ job[c].failed = job[c].asked
         => \A f \in Fields : job[c].source[f] = None

(* Nothing reached by title is kept unless the two titles share a whole      *)
(* segment, and not as one entry of a longer list of contents (neither Dune  *)
(* Messiah nor a trilogy is Dune), nor against the authors both sides name   *)
(* (titlesMatch, plausibleMatch).                                            *)
SearchEarnsMerge ==
  \A c \in Running : \A answer \in job[c].searched :
    LET book == job[c].book
        Shared(i, k) == withoutArticle(Segment(answer.title, i)) = withoutArticle(Segment(book.title, k)) IN
    /\ \E i \in Cuts(answer.title), k \in Cuts(book.title) : Shared(i, k)
    /\ \/ Cardinality(Cuts(answer.title)) <= Cardinality(Cuts(book.title))
       \/ Cardinality(Cuts(answer.title)) <= MaxSegments
    /\ book.authors # {} /\ answer.authors # {} => book.authors \cap answer.authors # {}
=============================================================================
