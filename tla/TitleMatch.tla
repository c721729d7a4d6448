----------------------------- MODULE TitleMatch ----------------------------
(* Whether an answer reached by title is about the book that was asked for   *)
(* (internal/enrich/match.go).                                               *)
(*                                                                           *)
(* A title is a sequence of tokens: a word, folded, and the separator that   *)
(* stands before it.                                                         *)
EXTENDS Naturals, Sequences, FiniteSets

CONSTANTS Articles,        \* leadingArticles
          MaxSegments,
          MaxTitleTokens

ASSUME MatchAssumption == MaxSegments \in Nat /\ MaxTitleTokens \in Nat

(* A colon delimits a subtitle; a hyphen only with space around it (a dash)  *)
IsBoundary(sep) == sep \in {"colon", "dash"}

(* Where a segment of the title begins                                       *)
Cuts(title) == {i \in 1..Len(title) : i = 1 \/ IsBoundary(title[i].sep)}

(* The segment that begins at i                                              *)
Segment(title, i) ==
  LET end == {j \in i..Len(title) : \A k \in (i + 1)..j : k \notin Cuts(title)}
  IN [k \in 1..Cardinality(end) |-> title[i + k - 1].word]

segmentsOf(title) ==
  IF Len(title) > MaxTitleTokens THEN <<>>
  ELSE [n \in 1..Cardinality(Cuts(title)) |->
          Segment(title, CHOOSE i \in Cuts(title) :
                           Cardinality({j \in Cuts(title) : j < i}) = n - 1)]

withoutArticle(seg) == IF Len(seg) > 1 /\ seg[1] \in Articles THEN Tail(seg) ELSE seg

segmentsMatch(a, b) == withoutArticle(a) = withoutArticle(b)

(* A title of one segment names the book of a title of at most MaxSegments   *)
segmentMatch(single, whole) ==
  /\ Len(single) = 1 /\ Len(whole) \in 1..MaxSegments
  /\ \E n \in 1..Len(whole) : segmentsMatch(single[1], whole[n])

(* Mutant: a title names the book when it contains the book's words          *)
titlesContain(a, b) ==
  LET words == withoutArticle([k \in 1..Len(a) |-> a[k].word]) IN
  \E from \in 1..Len(b) :
    words = [k \in 1..Len(words) |-> IF from + k - 1 <= Len(b) THEN b[from + k - 1].word ELSE ""]

titlesMatch(a, b) ==
  LET as == segmentsOf(a)
      bs == segmentsOf(b) IN
  /\ as # <<>> /\ bs # <<>>
  /\ \/ Len(as) = Len(bs) /\ \A n \in 1..Len(as) : segmentsMatch(as[n], bs[n])
     \/ segmentMatch(as, bs)
     \/ segmentMatch(bs, as)

(* The title must match; authors can only veto, and only when both sides     *)
(* name some                                                                 *)
plausibleMatch(title, authors, answer) ==
  /\ titlesMatch(title, answer.title)
  /\ authors = {} \/ answer.authors = {} \/ authors \cap answer.authors # {}
=============================================================================
