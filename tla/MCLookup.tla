------------------------------ MODULE MCLookup -----------------------------
(* A book with an ISBN, one without, and one with neither ISBN nor title;    *)
(* two providers.                                                            *)
EXTENDS LookupProps, TLC

CONSTANTS c1, c2, i1, herbert, other

Token(sep, word) == [sep |-> sep, word |-> word]
TheDune == <<Token("space", "the"), Token("space", "dune")>>
DuneNovel == <<Token("space", "dune"), Token("dash", "novel")>>
Trilogy == <<Token("space", "dune"), Token("colon", "messiah"), Token("colon", "children")>>

Book(isbn, title, authors, missing) ==
  [isbn |-> isbn, title |-> title, authors |-> authors, missing |-> missing]
Volume(title, authors, says, named) ==
  [title |-> title, authors |-> authors, says |-> says, named |-> named]

MCBooks == {Book(i1, TheDune, {other}, {"description", "cover"}),
            Book(NoISBN, TheDune, {}, {"isbn", "description"}),
            Book(NoISBN, <<>>, {}, {"isbn", "description"})}
MCVolumes == {Volume(DuneNovel, {herbert}, {"isbn", "description"}, TRUE),
              Volume(Trilogy, {}, {"cover"}, FALSE)}
MCClient == <<"openlibrary", "googlebooks">>
Sym == Permutations(Callers)
MCBackoff == [n \in 1..3 |-> n]
=============================================================================
