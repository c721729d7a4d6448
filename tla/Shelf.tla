------------------------------- MODULE Shelf -------------------------------
(* What is shown of a book and where it comes from: the metadata columns of  *)
(* books and book_authors, their provenance in field_sources, and the        *)
(* books_fts row the search reads (internal/storage), with the three writers *)
(* of a field: a sweep that finds a file (internal/scanner), a person's edit *)
(* (internal/service and the form of internal/web) and a provider's answer   *)
(* (internal/enrich).  Every writer runs in one transaction of the single    *)
(* write connection, so each is one step; what is read before is not.        *)
(*                                                                           *)
(* A scalar value is the word it is known by, its bytes, and its line        *)
(* breaks, of one byte or, from a form, of two.                              *)
EXTENDS Integers, FiniteSets

CONSTANTS MaxId,        \* the last id AUTOINCREMENT gives out
          Paths,        \* file locations
          Words, NoWord,
          SortKey,      \* SortTitle: what a title files under; not injective
          Files,        \* what a file can be called and have embedded in it
          Typed,        \* values people type and providers answer
          AuthorLists,  \* sets of names, likewise
          TitleLimit, TextLimit,
          MaxWrites     \* transactions in all

ASSUME ShelfAssumption ==
  /\ MaxId \in Nat /\ MaxWrites \in Nat /\ NoWord \notin Words
  /\ SortKey \in [Words \cup {NoWord} -> Nat]
  /\ TitleLimit \in Nat /\ TextLimit \in Nat
  /\ AuthorLists \subseteq SUBSET Words

VARIABLES books,        \* the row of each id, or NoBook
          fts,          \* the words books_fts has for each rowid, by column
          owner,        \* the id each path belongs to, 0 for none
          lastId,       \* the last id given out
          asked,        \* a lookup in flight: the book and its missing fields
          writes

shelfVars == <<books, fts, owner, lastId, asked, writes>>

Ids == 1..MaxId
Scalars == {"title", "description"}
Fields == Scalars \cup {"authors"}
Sources == {"none", "embedded", "manual", "provider"}
Values == [word : Words \cup {NoWord}, bytes : Int, breaks : Nat, crlf : BOOLEAN]
Books == [title : Values, description : Values, authors : SUBSET Words,
          source : [Fields -> Sources]]

ASSUME InputsAssumption ==
  /\ Typed \subseteq Values
  /\ Files \subseteq [name : Values, title : Values, description : Values,
                     authors : SUBSET Words]

Blank == [word |-> NoWord, bytes |-> 0, breaks |-> 0, crlf |-> FALSE]
NoBook == [title |-> Blank, description |-> Blank, authors |-> {},
           source |-> [f \in {} |-> "none"]]

Exists(id) == books[id] # NoBook
Empty(b, f) == IF f = "authors" THEN b.authors = {} ELSE b[f].word = NoWord

-----------------------------------------------------------------------------
(* Lengths.  CapField cuts what a file or a provider offers, normalizeField  *)
(* refuses what a person submits, and both draw the line at FieldLimit.      *)

FieldLimit(f) == IF f = "title" THEN TitleLimit ELSE TextLimit

Size(v) == v.bytes + v.breaks * (IF v.crlf THEN 2 ELSE 1)

(* Mutant: breaks are kept in every field                                    *)
FlatKeepsBreaks(f, v) == [v EXCEPT !.crlf = FALSE]

(* A description keeps its breaks, folded to one byte; in any other field a  *)
(* break becomes a space                                                     *)
Flat(f, v) ==
  IF f = "description" THEN [v EXCEPT !.crlf = FALSE]
  ELSE [v EXCEPT !.bytes = @ + v.breaks, !.breaks = 0, !.crlf = FALSE]

CapField(f, v) ==
  LET flat == Flat(f, v) IN
  IF Size(flat) <= FieldLimit(f) THEN flat
  ELSE [flat EXCEPT !.bytes = FieldLimit(f) - flat.breaks]

Accepts(f, v) ==
  /\ f # "description" => v.breaks = 0
  /\ f = "title" => v.word # NoWord
  /\ Size(v) <= FieldLimit(f)

(* What a browser submits of a value it was shown: a text input has no       *)
(* breaks, a textarea sends each as CR LF                                    *)
Submitted(f, v) ==
  IF f = "description" THEN [v EXCEPT !.crlf = (v.breaks > 0)]
  ELSE [v EXCEPT !.breaks = 0, !.crlf = FALSE]

-----------------------------------------------------------------------------
(* The search row: recomputed from the book, whoever wrote it                *)

Index(b) == {<<"title", b.title.word>>, <<"description", b.description.word>>}
              \cup {<<"authors", n>> : n \in b.authors}

NoRow == {}

SyncFTS(id, b) == [fts EXCEPT ![id] = Index(b)]

-----------------------------------------------------------------------------
(* A sweep finds content it has not seen at a path (createBook and           *)
(* CreateBookWithFile)                                                       *)

Embedded(file) ==
  LET title == IF file.title.word = NoWord THEN file.name ELSE file.title
      b == [title |-> CapField("title", title),
            description |-> CapField("description", file.description),
            authors |-> file.authors]
  IN [title |-> b.title, description |-> b.description, authors |-> b.authors,
      source |-> [f \in Fields |-> IF Empty(b, f) THEN "none" ELSE "embedded"]]

(* What a person put into the book a path belonged to moves to the one that  *)
(* takes its place, an emptied field included                                *)
Inherited(new, old) ==
  LET m == {f \in Fields : old.source[f] = "manual"}
      Field(f) == IF f \in m THEN old[f] ELSE new[f]
  IN [title |-> Field("title"), description |-> Field("description"),
      authors |-> Field("authors"),
      source |-> [f \in Fields |-> IF f \in m THEN "manual" ELSE new.source[f]]]

(* Taking path from its owner leaves that book without a location            *)
Orphans(path, id) ==
  {i \in Ids : /\ Exists(i) /\ i = owner[path] /\ i # id
               /\ \A q \in Paths \ {path} : owner[q] # i}

(* Deleting a book deletes its search row by a trigger                       *)
Without(f, gone, none) == [i \in Ids |-> IF i \in gone THEN none ELSE f[i]]

(* Mutant: the search row is synced as soon as the book is inserted          *)
FindFileSyncsFirst(path, file) ==
  LET id == lastId + 1
      replaced == Orphans(path, id)
      new == IF replaced = {} THEN Embedded(file)
             ELSE Inherited(Embedded(file), books[CHOOSE i \in replaced : TRUE])
  IN
  /\ lastId < MaxId
  /\ books' = [Without(books, replaced, NoBook) EXCEPT ![id] = new]
  /\ fts' = [Without(fts, replaced, NoRow) EXCEPT ![id] = Index(Embedded(file))]
  /\ owner' = [owner EXCEPT ![path] = id]
  /\ lastId' = id
  /\ UNCHANGED asked

FindFile(path, file) ==
  LET id == lastId + 1
      replaced == Orphans(path, id)
      new == IF replaced = {} THEN Embedded(file)
             ELSE Inherited(Embedded(file), books[CHOOSE i \in replaced : TRUE])
  IN
  /\ lastId < MaxId
  /\ books' = [Without(books, replaced, NoBook) EXCEPT ![id] = new]
  /\ fts' = [Without(fts, replaced, NoRow) EXCEPT ![id] = Index(new)]
  /\ owner' = [owner EXCEPT ![path] = id]
  /\ lastId' = id
  /\ UNCHANGED asked

(* A path turns out to hold the content of a book there already is, and the  *)
(* book it belonged to is pruned if that was its last                        *)
MoveFile(path, id) ==
  /\ Exists(id) /\ owner[path] # id
  /\ books' = Without(books, Orphans(path, id), NoBook)
  /\ fts' = Without(fts, Orphans(path, id), NoRow)
  /\ owner' = [owner EXCEPT ![path] = id]
  /\ UNCHANGED <<lastId, asked>>

(* A location is pruned or forgotten                                         *)
DropFile(path) ==
  /\ owner[path] # 0
  /\ books' = Without(books, Orphans(path, 0), NoBook)
  /\ fts' = Without(fts, Orphans(path, 0), NoRow)
  /\ owner' = [owner EXCEPT ![path] = 0]
  /\ UNCHANGED <<lastId, asked>>

-----------------------------------------------------------------------------
(* A person saves a field: what the editor was opened with or what they      *)
(* typed, refused or stored as it was submitted                              *)

SaveField(id, f, shown) ==
  LET v == Submitted(f, shown)
      b == [books[id] EXCEPT ![f] = v, !.source[f] = "manual"] IN
  /\ Exists(id) /\ Accepts(f, v)
  /\ books' = [books EXCEPT ![id] = b]
  /\ fts' = SyncFTS(id, b)
  /\ UNCHANGED <<owner, lastId, asked>>

SaveAuthors(id, names) ==
  LET b == [books[id] EXCEPT !.authors = names, !.source["authors"] = "manual"] IN
  /\ Exists(id)
  /\ books' = [books EXCEPT ![id] = b]
  /\ fts' = SyncFTS(id, b)
  /\ UNCHANGED <<owner, lastId, asked>>

-----------------------------------------------------------------------------
(* A lookup takes a snapshot of what is missing; minutes later its answer is *)
(* applied to what is missing by then                                        *)

Missing(b) == {f \in Fields : Empty(b, f) /\ b.source[f] # "manual"}

Ask(id) ==
  /\ Exists(id) /\ asked.id = 0
  /\ asked' = [id |-> id, missing |-> Missing(books[id])]
  /\ UNCHANGED <<books, fts, owner, lastId>>

ApplyAnswer(answer, names) ==
  LET id == asked.id
      capped == [f \in Scalars |-> CapField(f, answer[f])]
      old == books[id]
      filled == {f \in asked.missing \cap Missing(old) :
                   IF f = "authors" THEN names # {} ELSE capped[f].word # NoWord}
      Field(f) == IF f \in filled THEN capped[f] ELSE old[f]
      b == [title |-> Field("title"), description |-> Field("description"),
            authors |-> IF "authors" \in filled THEN names ELSE old.authors,
            source |-> [f \in Fields |-> IF f \in filled THEN "provider" ELSE old.source[f]]]
  IN
  /\ id # 0
  /\ asked' = [id |-> 0, missing |-> {}]
  /\ IF Exists(id)
     THEN books' = [books EXCEPT ![id] = b] /\ fts' = SyncFTS(id, b)
     ELSE UNCHANGED <<books, fts>>
  /\ UNCHANGED <<owner, lastId>>

-----------------------------------------------------------------------------
ShelfInit ==
  /\ books = [i \in Ids |-> NoBook] /\ fts = [i \in Ids |-> NoRow]
  /\ owner = [p \in Paths |-> 0] /\ lastId = 0
  /\ asked = [id |-> 0, missing |-> {}]
  /\ writes = 0

Sweep == \E p \in Paths : \/ DropFile(p)
                          \/ (\E file \in Files : FindFile(p, file))
                          \/ (\E id \in Ids : MoveFile(p, id))

Edit == \E id \in Ids :
          \/ \E f \in Scalars : \E v \in Typed \cup {books[id][f]} : SaveField(id, f, v)
          \/ \E names \in AuthorLists : SaveAuthors(id, names)

Enrich == \/ \E id \in Ids : Ask(id)
          \/ \E answer \in [Scalars -> Typed], names \in AuthorLists : ApplyAnswer(answer, names)

ShelfStep == writes < MaxWrites /\ writes' = writes + 1 /\ (Sweep \/ Edit \/ Enrich)
=============================================================================
