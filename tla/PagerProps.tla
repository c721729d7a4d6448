---------------------------- MODULE PagerProps -----------------------------
(* What a reader of the shelf may rely on.                                   *)
EXTENDS Pager

TypeOK ==
  /\ books \in [Ids -> Books \cup {NoBook}]
  /\ \A id \in Ids : fts[id] \subseteq Fields \X (Words \cup {NoWord})
  /\ owner \in [Paths -> Ids \cup {0}]
  /\ lastId \in 0..MaxId /\ writes \in 0..MaxWrites
  /\ asked \in [id : Ids \cup {0}, missing : SUBSET Fields]
  /\ reader \in [query : Words \cup {NoQuery}, cursor : Nat \X Nat, open : BOOLEAN]
  /\ steady \subseteq Nat \X Nat /\ shown \subseteq Nat \X Nat /\ again \subseteq shown

(* The search row of every book says what the book says, whichever of a      *)
(* sweep, a person and a provider wrote it last and whatever it inherited,   *)
(* and a deleted book leaves none (syncBookFTSTx, books_fts_ad).             *)
RowIsIndexed == \A id \in Ids : fts[id] = IF Exists(id) THEN Index(books[id]) ELSE NoRow

(* However the shelf changes between two pages, no row is shown twice in the *)
(* place it has, and a row that stays where it is throughout has been shown  *)
(* once the reader is told there is no more (BookPage, pageOf).              *)
PagesAreExact ==
  /\ again = {}
  /\ ~reader.open => steady \subseteq shown

(* What is stored keeps the limit, and a one-line field comes back from its  *)
(* editor as it was shown.  What a person saved can be saved again unchanged,*)
(* also after it moved to another book; of what a file or a provider gave,   *)
(* only two things are refused: a title without a word, and a description    *)
(* whose breaks came back as two bytes each (CapField, normalizeField).      *)
EditorCanHoldIt ==
  \A id \in Ids : \A f \in Scalars :
    LET v == books[id][f]
        back == Submitted(f, v)
    IN  /\ Size(v) <= FieldLimit(f)
        /\ f # "description" => back = v
        /\ Exists(id) /\ ~Accepts(f, back) =>
             /\ books[id].source[f] # "manual"
             /\ \/ f = "title" /\ v.word = NoWord
                \/ f = "description" /\ v.breaks > 0 /\ ~v.crlf

(* What the comment on the limits promises: a value one writer stored is one *)
(* the editor can save back unchanged (MaxTitleBytes, normalizeField).       *)
SavesBack ==
  \A id \in Ids : \A f \in Scalars :
    Exists(id) => Accepts(f, Submitted(f, books[id][f]))
=============================================================================
