---------------------------- MODULE PagerProofs ----------------------------
(* For every size of page and shelf: the rows are well formed, the search    *)
(* row says what the book says, the editor refuses of what is stored only    *)
(* what EditorCanHoldIt names, and paging neither repeats nor skips a row    *)
(* that stays where it is.                                                   *)
EXTENDS PagerProps, TLAPS

KnownWords == Words \cup {NoWord}
RowSet == Books \cup {NoBook}

-----------------------------------------------------------------------------
(* Values                                                                    *)

LEMMA BlankIsValue == Blank \in Values
BY DEF Blank, Values

LEMMA Unbroken ==
  ASSUME NEW v \in Values PROVE [v EXCEPT !.breaks = 0, !.crlf = FALSE] \in Values
<1> DEFINE u == [v EXCEPT !.breaks = 0]
<1>1. u \in Values
  BY DEF Values
<1>2. [v EXCEPT !.breaks = 0, !.crlf = FALSE] = [u EXCEPT !.crlf = FALSE]
  OBVIOUS
<1> HIDE DEF u
<1> QED BY <1>1, <1>2 DEF Values

LEMMA SubmittedIsValue ==
  ASSUME NEW f, NEW v \in Values PROVE Submitted(f, v) \in Values
<1>1. CASE f = "description"
  <2> DEFINE c == v.breaks > 0
  <2>1. c \in BOOLEAN
    OBVIOUS
  <2>2. Submitted(f, v) = [v EXCEPT !.crlf = c]
    BY <1>1 DEF Submitted
  <2> HIDE DEF c
  <2> QED BY <2>1, <2>2 DEF Values
<1>2. CASE f # "description"
  BY <1>2, Unbroken DEF Submitted
<1> QED BY <1>1, <1>2

LEMMA FlatIsValue ==
  ASSUME NEW f, NEW v \in Values PROVE Flat(f, v) \in Values
<1>1. CASE f = "description"
  BY <1>1 DEF Flat, Values
<1>2. CASE f # "description"
  <2> DEFINE n == v.bytes + v.breaks
  <2>1. n \in Int
    BY DEF Values
  <2>2. Flat(f, v) = [v EXCEPT !.bytes = n, !.breaks = 0, !.crlf = FALSE]
    BY <1>2 DEF Flat
  <2> HIDE DEF n
  <2>3. [v EXCEPT !.bytes = n] \in Values
    BY <2>1 DEF Values
  <2>4. Flat(f, v) = [[v EXCEPT !.bytes = n] EXCEPT !.breaks = 0, !.crlf = FALSE]
    BY <2>2
  <2> QED BY <2>3, <2>4, Unbroken
<1> QED BY <1>1, <1>2

LEMMA CapIsValue ==
  ASSUME NEW f \in Scalars, NEW v \in Values PROVE CapField(f, v) \in Values
<1> DEFINE flat == Flat(f, v)
<1>1. flat \in Values
  BY FlatIsValue
<1>2. FieldLimit(f) \in Int
  BY ShelfAssumption DEF FieldLimit
<1>3. FieldLimit(f) - flat.breaks \in Int
  BY <1>1, <1>2 DEF Values
<1> HIDE DEF flat
<1>4. [flat EXCEPT !.bytes = FieldLimit(f) - flat.breaks] \in Values
  BY <1>1, <1>3 DEF Values
<1> QED BY <1>1, <1>4 DEF CapField, flat

LEMMA EmbeddedIsBook ==
  ASSUME NEW file \in Files PROVE Embedded(file) \in Books
<1> DEFINE title == IF file.title.word = NoWord THEN file.name ELSE file.title
           b == [title |-> CapField("title", title),
                 description |-> CapField("description", file.description),
                 authors |-> file.authors]
           source == [f \in Fields |-> IF Empty(b, f) THEN "none" ELSE "embedded"]
<1>1. title \in Values /\ file.description \in Values /\ file.authors \in SUBSET Words
  BY InputsAssumption
<1>2. CapField("title", title) \in Values
  BY <1>1, CapIsValue DEF Scalars
<1>3. CapField("description", file.description) \in Values
  BY <1>1, CapIsValue DEF Scalars
<1>4. source \in [Fields -> Sources]
  BY DEF Sources
<1>5. Embedded(file) = [title |-> CapField("title", title),
                        description |-> CapField("description", file.description),
                        authors |-> file.authors, source |-> source]
  BY DEF Embedded
<1> HIDE DEF title, b, source
<1> QED BY <1>1, <1>2, <1>3, <1>4, <1>5 DEF Books

LEMMA InheritedIsBook ==
  ASSUME NEW new \in Books, NEW old \in Books PROVE Inherited(new, old) \in Books
<1> DEFINE m == {f \in Fields : old.source[f] = "manual"}
           source == [f \in Fields |-> IF f \in m THEN "manual" ELSE new.source[f]]
<1>1. source \in [Fields -> Sources]
  BY DEF Books, Sources
<1>2. Inherited(new, old).title \in Values /\ Inherited(new, old).description \in Values
  BY DEF Inherited, Books
<1>3. Inherited(new, old).authors \in SUBSET Words
  BY DEF Inherited, Books
<1>4. Inherited(new, old) = [title |-> Inherited(new, old).title,
                             description |-> Inherited(new, old).description,
                             authors |-> Inherited(new, old).authors,
                             source |-> source]
  BY DEF Inherited
<1> HIDE DEF m, source
<1> QED BY <1>1, <1>2, <1>3, <1>4 DEF Books

LEMMA BookIsNotNoBook ==
  ASSUME NEW b \in Books PROVE b # NoBook
<1>1. DOMAIN b.source = Fields
  BY DEF Books
<1>2. DOMAIN NoBook.source = {}
  BY DEF NoBook
<1>3. "title" \in Fields
  BY DEF Fields, Scalars
<1> QED BY <1>1, <1>2, <1>3

LEMMA IndexIsRow ==
  ASSUME NEW b \in Books PROVE Index(b) \in SUBSET (Fields \X KnownWords)
BY DEF Index, Books, Values, Fields, Scalars, KnownWords

-----------------------------------------------------------------------------
(* Rows: putting one, or removing some, keeps the tables well formed and the *)
(* search rows in step                                                       *)

Tables(bs, fs) ==
  /\ bs \in [Ids -> RowSet]
  /\ fs \in [Ids -> SUBSET (Fields \X KnownWords)]
  /\ \A i \in Ids : fs[i] = IF bs[i] # NoBook THEN Index(bs[i]) ELSE NoRow

ShelfInv ==
  /\ Tables(books, fts)
  /\ owner \in [Paths -> Ids \cup {0}]
  /\ lastId \in 0..MaxId
  /\ asked.id \in Ids \cup {0}

LEMMA Put ==
  ASSUME NEW bs, NEW fs, Tables(bs, fs), NEW id \in Ids, NEW b \in Books
  PROVE  Tables([bs EXCEPT ![id] = b], [fs EXCEPT ![id] = Index(b)])
<1>1. b \in RowSet /\ b # NoBook
  BY BookIsNotNoBook DEF RowSet
<1>2. Index(b) \in SUBSET (Fields \X KnownWords)
  BY IndexIsRow
<1>3. [bs EXCEPT ![id] = b] \in [Ids -> RowSet]
  BY <1>1 DEF Tables
<1>4. [fs EXCEPT ![id] = Index(b)] \in [Ids -> SUBSET (Fields \X KnownWords)]
  BY <1>2 DEF Tables
<1>5. ASSUME NEW i \in Ids
      PROVE  [fs EXCEPT ![id] = Index(b)][i]
               = IF [bs EXCEPT ![id] = b][i] # NoBook THEN Index([bs EXCEPT ![id] = b][i]) ELSE NoRow
  BY <1>1 DEF Tables
<1> QED BY <1>3, <1>4, <1>5 DEF Tables

LEMMA Removed ==
  ASSUME NEW bs, NEW fs, Tables(bs, fs), NEW gone
  PROVE  Tables(Without(bs, gone, NoBook), Without(fs, gone, NoRow))
<1>1. NoBook \in RowSet /\ NoRow \in SUBSET (Fields \X KnownWords)
  BY DEF RowSet, NoRow
<1>2. Without(bs, gone, NoBook) \in [Ids -> RowSet]
  BY <1>1 DEF Without, Tables
<1>3. Without(fs, gone, NoRow) \in [Ids -> SUBSET (Fields \X KnownWords)]
  BY <1>1 DEF Without, Tables
<1>4. ASSUME NEW i \in Ids
      PROVE  Without(fs, gone, NoRow)[i]
               = IF Without(bs, gone, NoBook)[i] # NoBook
                 THEN Index(Without(bs, gone, NoBook)[i]) ELSE NoRow
  BY DEF Without, Tables
<1> QED BY <1>2, <1>3, <1>4 DEF Tables

LEMMA RowIsBook ==
  ASSUME ShelfInv, NEW id \in Ids, Exists(id) PROVE books[id] \in Books
BY DEF ShelfInv, Tables, Exists, RowSet

LEMMA ValueIsValue ==
  ASSUME ShelfInv, NEW id \in Ids, NEW f \in Scalars PROVE books[id][f] \in Values
<1>1. books[id] \in Books \/ books[id] = NoBook
  BY DEF ShelfInv, Tables, RowSet
<1>2. ASSUME NEW b \in Books PROVE b[f] \in Values
  BY DEF Books, Scalars
<1>3. NoBook[f] \in Values
  BY BlankIsValue DEF NoBook, Scalars
<1> QED BY <1>1, <1>2, <1>3

-----------------------------------------------------------------------------
(* Each writer of the shelf                                                  *)

LEMMA FindFileKeeps ==
  ASSUME ShelfInv, NEW path \in Paths, NEW file \in Files, FindFile(path, file)
  PROVE  ShelfInv'
<1> DEFINE id == lastId + 1
           replaced == Orphans(path, id)
           old == books[CHOOSE i \in replaced : TRUE]
           new == IF replaced = {} THEN Embedded(file) ELSE Inherited(Embedded(file), old)
<1>1. id \in Ids /\ id \in 0..MaxId
  BY ShelfAssumption DEF FindFile, ShelfInv, Ids
<1>2. new \in Books
  <2>1. Embedded(file) \in Books
    BY EmbeddedIsBook
  <2>2. ASSUME replaced # {} PROVE old \in Books
    <3>1. PICK i \in replaced : i = CHOOSE j \in replaced : TRUE
      BY <2>2
    <3>2. i \in Ids /\ Exists(i)
      BY DEF Orphans
    <3> QED BY <3>1, <3>2, RowIsBook
  <2> QED BY <2>1, <2>2, InheritedIsBook
<1>3. /\ books' = [Without(books, replaced, NoBook) EXCEPT ![id] = new]
      /\ fts' = [Without(fts, replaced, NoRow) EXCEPT ![id] = Index(new)]
  BY DEF FindFile
<1>4. owner' \in [Paths -> Ids \cup {0}] /\ lastId' \in 0..MaxId /\ asked' = asked
  BY <1>1 DEF FindFile, ShelfInv
<1> HIDE DEF id, new, replaced, old
<1>5. Tables(Without(books, replaced, NoBook), Without(fts, replaced, NoRow))
  BY Removed DEF ShelfInv
<1>6. Tables(books', fts')
  BY <1>1, <1>2, <1>3, <1>5, Put
<1> QED BY <1>4, <1>6 DEF ShelfInv

LEMMA MoveFileKeeps ==
  ASSUME ShelfInv, NEW path \in Paths, NEW id \in Ids, MoveFile(path, id)
  PROVE  ShelfInv'
<1>1. Tables(books', fts')
  BY Removed DEF MoveFile, ShelfInv
<1>2. owner' \in [Paths -> Ids \cup {0}]
  BY DEF MoveFile, ShelfInv
<1> QED BY <1>1, <1>2 DEF MoveFile, ShelfInv

LEMMA DropFileKeeps ==
  ASSUME ShelfInv, NEW path \in Paths, DropFile(path)
  PROVE  ShelfInv'
<1>1. Tables(books', fts')
  BY Removed DEF DropFile, ShelfInv
<1>2. owner' \in [Paths -> Ids \cup {0}]
  BY DEF DropFile, ShelfInv
<1> QED BY <1>1, <1>2 DEF DropFile, ShelfInv

LEMMA SaveFieldKeeps ==
  ASSUME ShelfInv, NEW id \in Ids, NEW f \in Scalars, NEW shownValue \in Values,
         SaveField(id, f, shownValue)
  PROVE  ShelfInv'
<1> DEFINE v == Submitted(f, shownValue)
           b == [books[id] EXCEPT ![f] = v, !.source[f] = "manual"]
<1>1. books[id] \in Books
  BY RowIsBook DEF SaveField
<1>2. v \in Values
  BY SubmittedIsValue
<1>3. b \in Books
  <2> HIDE DEF v
  <2> DEFINE c == [books[id] EXCEPT ![f] = v]
  <2>1. c \in Books
    BY <1>1, <1>2 DEF Books, Scalars
  <2>2. b = [c EXCEPT !.source = [c.source EXCEPT ![f] = "manual"]]
    BY <1>1 DEF Books
  <2> HIDE DEF c, b
  <2>3. [c.source EXCEPT ![f] = "manual"] \in [Fields -> Sources]
    BY <2>1 DEF Books, Sources
  <2> QED BY <2>1, <2>2, <2>3 DEF Books
<1>4. books' = [books EXCEPT ![id] = b] /\ fts' = [fts EXCEPT ![id] = Index(b)]
  BY DEF SaveField, SyncFTS
<1> HIDE DEF b
<1>5. Tables(books', fts')
  BY <1>3, <1>4, Put DEF ShelfInv
<1> QED BY <1>5 DEF SaveField, ShelfInv

LEMMA SaveAuthorsKeeps ==
  ASSUME ShelfInv, NEW id \in Ids, NEW names \in AuthorLists, SaveAuthors(id, names)
  PROVE  ShelfInv'
<1> DEFINE b == [books[id] EXCEPT !.authors = names, !.source["authors"] = "manual"]
<1>1. books[id] \in Books
  BY RowIsBook DEF SaveAuthors
<1>2. b \in Books
  <2> DEFINE c == [books[id] EXCEPT !.authors = names]
  <2>1. c \in Books
    BY <1>1, ShelfAssumption DEF Books
  <2>2. b = [c EXCEPT !.source = [c.source EXCEPT !["authors"] = "manual"]]
    BY <1>1 DEF Books
  <2> HIDE DEF c, b
  <2>3. [c.source EXCEPT !["authors"] = "manual"] \in [Fields -> Sources]
    BY <2>1 DEF Books, Sources
  <2> QED BY <2>1, <2>2, <2>3 DEF Books
<1>3. books' = [books EXCEPT ![id] = b] /\ fts' = [fts EXCEPT ![id] = Index(b)]
  BY DEF SaveAuthors, SyncFTS
<1> HIDE DEF b
<1>4. Tables(books', fts')
  BY <1>2, <1>3, Put DEF ShelfInv
<1> QED BY <1>4 DEF SaveAuthors, ShelfInv

LEMMA ApplyAnswerKeeps ==
  ASSUME ShelfInv, NEW answer \in [Scalars -> Typed], NEW names \in AuthorLists,
         ApplyAnswer(answer, names)
  PROVE  ShelfInv'
<1> DEFINE id == asked.id
           capped == [f \in Scalars |-> CapField(f, answer[f])]
           old == books[id]
           filled == {f \in asked.missing \cap Missing(old) :
                        IF f = "authors" THEN names # {} ELSE capped[f].word # NoWord}
           Field(f) == IF f \in filled THEN capped[f] ELSE old[f]
           authors == IF "authors" \in filled THEN names ELSE old.authors
           source == [f \in Fields |-> IF f \in filled THEN "provider" ELSE old.source[f]]
           b == [title |-> Field("title"), description |-> Field("description"),
                 authors |-> authors, source |-> source]
<1>1. asked'.id \in Ids \cup {0} /\ UNCHANGED <<owner, lastId>>
  BY DEF ApplyAnswer
<1>2. CASE ~Exists(id)
  BY <1>1, <1>2 DEF ApplyAnswer, ShelfInv
<1>3. CASE Exists(id)
  <2>1. id \in Ids
    BY DEF ApplyAnswer, ShelfInv
  <2>2. old \in Books
    BY <1>3, <2>1, RowIsBook
  <2>3. \A f \in Scalars : capped[f] \in Values
    BY InputsAssumption, CapIsValue
  <2>4. /\ books' = [books EXCEPT ![id] = b]
        /\ fts' = [fts EXCEPT ![id] = Index(b)]
    BY <1>3 DEF ApplyAnswer, SyncFTS
  <2>5. b \in Books
    <3>1. Field("title") \in Values /\ Field("description") \in Values
      <4> HIDE DEF capped, filled
      <4> QED BY <2>2, <2>3 DEF Books, Scalars
    <3>2. authors \in SUBSET Words
      <4> HIDE DEF capped, filled
      <4> QED BY <2>2, ShelfAssumption DEF Books
    <3>3. source \in [Fields -> Sources]
      <4> HIDE DEF capped, filled
      <4> QED BY <2>2 DEF Books, Sources
    <3> HIDE DEF Field, authors, source
    <3> QED BY <3>1, <3>2, <3>3 DEF Books
  <2> HIDE DEF b, id
  <2>6. Tables(books', fts')
    BY <2>1, <2>4, <2>5, Put DEF ShelfInv
  <2> QED BY <1>1, <2>6 DEF ShelfInv
<1> QED BY <1>2, <1>3

LEMMA ShelfStepKeeps ==
  ASSUME ShelfInv, ShelfStep PROVE ShelfInv'
<1>1. CASE Sweep
  BY <1>1, DropFileKeeps, FindFileKeeps, MoveFileKeeps DEF Sweep
<1>2. CASE Edit
  <2>1. ASSUME NEW id \in Ids, NEW f \in Scalars, NEW v \in Typed \cup {books[id][f]},
               SaveField(id, f, v)
        PROVE  ShelfInv'
    <3>1. v \in Values
      BY ValueIsValue, InputsAssumption
    <3> QED BY <2>1, <3>1, SaveFieldKeeps
  <2> QED BY <1>2, <2>1, SaveAuthorsKeeps DEF Edit
<1>3. CASE Enrich
  <2>1. ASSUME NEW id \in Ids, Ask(id) PROVE ShelfInv'
    BY <2>1 DEF Ask, ShelfInv
  <2> QED BY <1>3, <2>1, ApplyAnswerKeeps DEF Enrich
<1> QED BY <1>1, <1>2, <1>3 DEF ShelfStep

-----------------------------------------------------------------------------
(* The pages.  Whatever is left to show of the steady rows is above the      *)
(* cursor, and nothing shown is.                                             *)

Positions == Nat \X Nat

LEMMA OrderIsStrict ==
  ASSUME NEW p \in Positions, NEW q \in Positions
  PROVE  ~(Before(p, q) /\ Before(q, p))
BY DEF Positions, Before

LEMMA OrderIsTransitive ==
  ASSUME NEW p \in Positions, NEW q \in Positions, NEW r \in Positions,
         Before(p, q), Before(q, r)
  PROVE  Before(p, r)
BY DEF Positions, Before

LEMMA OrderIsTotal ==
  ASSUME NEW p \in Positions, NEW q \in Positions
  PROVE  Before(p, q) \/ Before(q, p) \/ p = q
BY DEF Positions, Before

PageInv ==
  /\ reader \in [query : Words \cup {NoQuery}, cursor : Positions, open : BOOLEAN]
  /\ shown \subseteq Positions
  /\ steady \subseteq Listed
  /\ again = {}
  /\ \A p \in shown : ~Above(p, reader.cursor)
  /\ \A p \in steady : p \in shown \/ Above(p, reader.cursor)
  /\ ~reader.open => steady \subseteq shown

AllAboveStart == \A p \in Listed : p \in Positions /\ Above(p, Start)

LEMMA ListedAreAbove == ShelfInv => AllAboveStart
<1> SUFFICES ASSUME ShelfInv, NEW p \in Listed PROVE p \in Positions /\ Above(p, Start)
  BY DEF AllAboveStart
<1>1. PICK id \in Ids : Exists(id) /\ p = Position(id)
  BY DEF Listed
<1>2. books[id] \in Books
  BY <1>1, RowIsBook
<1>3. SortKey[books[id].title.word] \in Nat
  BY <1>2, ShelfAssumption DEF Books, Values
<1>4. id \in Nat /\ id > 0
  BY ShelfAssumption DEF Ids
<1>5. p = <<SortKey[books[id].title.word], id>>
  BY <1>1 DEF Position
<1> QED BY <1>3, <1>4, <1>5 DEF Positions, Above, Before, Start

LEMMA OpenKeeps ==
  ASSUME ShelfInv', NEW query \in Words \cup {NoQuery}, Open(query) PROVE PageInv'
<1>1. /\ reader' = [query |-> query, cursor |-> Start, open |-> TRUE]
      /\ shown' = {} /\ again' = {} /\ steady' = Listed'
  BY DEF Open
<1>2. Start \in Positions
  BY DEF Start, Positions
<1>3. AllAboveStart'
  BY ListedAreAbove, PTL
<1>4. \A p \in Listed' : Above(p, Start)
  BY <1>3 DEF AllAboveStart, Above, Start
<1> QED BY <1>1, <1>2, <1>4 DEF PageInv

LEMMA ChangeKeeps ==
  ASSUME PageInv, Change PROVE PageInv'
<1>1. reader' = reader /\ shown' = shown /\ again' = again
  BY DEF Change
<1>2. steady' \subseteq steady /\ steady' \subseteq Listed'
  BY DEF Change
<1> QED BY <1>1, <1>2 DEF PageInv, Above, Before

LEMMA NextPageKeeps ==
  ASSUME ShelfInv, PageInv, NextPage PROVE PageInv'
<1> DEFINE c == reader.cursor
           rows == {p \in Listed : Above(p, c)}
<1>1. PICK page \in SUBSET rows :
        /\ FirstRows(rows, PageSize, page)
        /\ \E d \in page \cup {c} :
             /\ page # {} => Last(page, d)
             /\ reader' = [reader EXCEPT !.cursor = d, !.open = (page # rows)]
        /\ shown' = shown \cup page
        /\ again' = again \cup (shown \cap page)
  BY DEF NextPage
<1>2. PICK d \in page \cup {c} :
        /\ page # {} => Last(page, d)
        /\ reader' = [reader EXCEPT !.cursor = d, !.open = (page # rows)]
  BY <1>1
<1>3. steady' = steady /\ books' = books /\ fts' = fts
  BY DEF NextPage, shelfVars
<1>4. Listed' = Listed
  BY <1>1, <1>2, <1>3 DEF Listed, PageInv, Exists, Matches, Position
<1>5. c \in Positions /\ rows \subseteq Positions /\ page \subseteq rows
  BY ListedAreAbove DEF AllAboveStart, PageInv
<1>6. d \in Positions
  BY <1>5
<1>7. page # {} => Last(page, d)
  BY <1>1, <1>2
<1>8. page = {} => d = c
  OBVIOUS
<1>9. /\ reader' \in [query : Words \cup {NoQuery}, cursor : Positions, open : BOOLEAN]
      /\ reader'.cursor = d /\ (reader'.open <=> page # rows)
  <2> HIDE DEF rows
  <2> DEFINE more == page # rows
  <2>1. more \in BOOLEAN /\ reader' = [reader EXCEPT !.cursor = d, !.open = more]
    BY <1>1, <1>2
  <2> HIDE DEF more
  <2>2. reader' \in [query : Words \cup {NoQuery}, cursor : Positions, open : BOOLEAN]
    BY <1>6, <2>1 DEF PageInv
  <2>3. reader'.cursor = d /\ reader'.open = more
    BY <2>1 DEF PageInv
  <2> QED BY <2>2, <2>3 DEF more
<1>10. again' = {} /\ shown' = shown \cup page /\ shown' \subseteq Positions
  BY <1>1, <1>2, <1>5 DEF PageInv
<1>11. \A p \in shown' : ~Above(p, d)
  <2>1. ASSUME NEW p \in page PROVE ~Above(p, d)
    BY <1>5, <1>6, <1>7, OrderIsStrict DEF Last, Above
  <2>2. ASSUME NEW p \in shown PROVE ~Above(p, d)
    <3>1. p \in Positions /\ ~Before(c, p)
      BY DEF PageInv, Above
    <3>2. d = c \/ Before(c, d)
      BY <1>5 DEF Above
    <3> QED BY <1>5, <1>6, <3>1, <3>2, OrderIsTransitive DEF Above
  <2> QED BY <1>10, <2>1, <2>2
<1>12. ASSUME NEW p \in steady PROVE p \in shown' \/ Above(p, d)
  <2>1. p \in Listed /\ (p \in shown \/ Above(p, c))
    BY DEF PageInv
  <2>2. CASE p \in shown
    BY <1>10, <2>2
  <2>3. CASE p \in rows /\ page = {}
    BY <1>8, <2>3
  <2>4. CASE p \in rows /\ page # {}
    <3>1. d \in page
      BY <1>7, <2>4 DEF Last
    <3>2. Before(p, d) \/ Before(d, p) \/ p = d
      BY <1>5, <1>6, <2>4, OrderIsTotal
    <3>3. Before(p, d) => p \in page
      BY <1>1, <1>2, <2>4, <3>1 DEF FirstRows
    <3> QED BY <1>10, <3>1, <3>2, <3>3 DEF Above
  <2> QED BY <2>1, <2>2, <2>3, <2>4
<1>13. page = rows => steady \subseteq shown'
  BY <1>10 DEF PageInv
<1>14. steady' \subseteq Listed'
  BY <1>3, <1>4 DEF PageInv
<1> QED BY <1>3, <1>9, <1>10, <1>11, <1>12, <1>13, <1>14 DEF PageInv, Above, Before

-----------------------------------------------------------------------------
LEMMA InitHolds == Init => ShelfInv /\ PageInv
<1> SUFFICES ASSUME Init PROVE ShelfInv /\ PageInv
  OBVIOUS
<1>1. ShelfInv
  BY ShelfAssumption DEF Init, ShelfInit, ShelfInv, Tables, RowSet, NoRow
<1>2. PageInv
  BY DEF Init, PageInv, Start, Positions
<1> QED BY <1>1, <1>2

LEMMA ReaderLeavesShelf ==
  ASSUME ShelfInv, UNCHANGED shelfVars PROVE ShelfInv'
BY DEF ShelfInv, shelfVars, Tables

LEMMA StepHolds == ShelfInv /\ PageInv /\ [Next]_vars => ShelfInv' /\ PageInv'
<1> SUFFICES ASSUME ShelfInv, PageInv, [Next]_vars PROVE ShelfInv' /\ PageInv'
  OBVIOUS
<1>1. CASE Change
  <2>1. ShelfInv'
    BY <1>1, ShelfStepKeeps DEF Change
  <2> QED BY <1>1, <2>1, ChangeKeeps
<1>2. CASE NextPage
  <2>1. ShelfInv'
    BY <1>2, ReaderLeavesShelf DEF NextPage
  <2> QED BY <1>2, <2>1, NextPageKeeps
<1>3. ASSUME NEW query \in Words \cup {NoQuery}, Open(query) PROVE ShelfInv' /\ PageInv'
  <2>1. ShelfInv'
    BY <1>3, ReaderLeavesShelf DEF Open
  <2> QED BY <1>3, <2>1, OpenKeeps
<1>4. CASE UNCHANGED vars
  <2>1. ShelfInv'
    BY <1>4, ReaderLeavesShelf DEF vars
  <2>2. Listed' = Listed
    BY <1>4 DEF vars, shelfVars, readerVars, Listed, Exists, Matches, Position
  <2>3. UNCHANGED <<reader, shown, again, steady>>
    BY <1>4 DEF vars, readerVars
  <2>4. PageInv'
    BY <2>2, <2>3 DEF PageInv, Above, Before
  <2> QED BY <2>1, <2>4
<1> QED BY <1>1, <1>2, <1>3, <1>4 DEF Next

(* Whoever writes a book last, the search row says what the book says, and   *)
(* a deleted book leaves none (syncBookFTSTx at the end of every writer).    *)
THEOREM Indexed == Spec => []RowIsIndexed
<1>1. ShelfInv => RowIsIndexed
  BY DEF ShelfInv, Tables, RowIsIndexed, Exists
<1> QED BY <1>1, InitHolds, StepHolds, PTL DEF Spec

(* For every page size and every shelf changing under the reader, paging     *)
(* shows no row twice and skips none that stays (BookPage.paginate, pageOf). *)
THEOREM PagingExact == Spec => []PagesAreExact
<1>1. PageInv => PagesAreExact
  BY DEF PageInv, PagesAreExact
<1> QED BY <1>1, InitHolds, StepHolds, PTL DEF Spec
-----------------------------------------------------------------------------
(* What the editor can hold: every writer of a scalar caps it or refuses it  *)
(* at the same limit, and what a person saved is, wherever it moves to, what *)
(* the form submits and the editor accepts                                   *)

Held(f, v) ==
  /\ f # "description" => v.breaks = 0 /\ v.crlf = FALSE
  /\ Size(v) <= FieldLimit(f)

Saved(f, v) == Submitted(f, v) = v /\ Accepts(f, v)

HeldRow(b) ==
  /\ \A f \in Scalars : Held(f, b[f])
  /\ b # NoBook => \A f \in Scalars : b.source[f] = "manual" => Saved(f, b[f])

LEMMA NothingIsHeld == HeldRow(NoBook)
BY ShelfAssumption DEF HeldRow, Held, NoBook, Blank, Scalars, Size, FieldLimit

(* A form submits what it submitted as it is                                 *)
LEMMA SubmittedTwice ==
  ASSUME NEW f, NEW v \in Values
  PROVE  /\ Submitted(f, Submitted(f, v)) = Submitted(f, v)
         /\ f # "description" => /\ Submitted(f, v).breaks = 0
                                 /\ Submitted(f, v).crlf = FALSE
<1>1. CASE f = "description"
  <2> DEFINE c == v.breaks > 0
             w == [v EXCEPT !.crlf = c]
  <2>1. Submitted(f, v) = w
    BY <1>1 DEF Submitted
  <2>2. Submitted(f, w) = [w EXCEPT !.crlf = (w.breaks > 0)]
    BY <1>1 DEF Submitted
  <2>3. (w.breaks > 0) = c /\ [w EXCEPT !.crlf = c] = w
    <3> HIDE DEF c
    <3>1. w.breaks = v.breaks /\ [w EXCEPT !.crlf = c] = w
      BY DEF Values
    <3> QED BY <3>1 DEF c
  <2> HIDE DEF w, c
  <2> QED BY <1>1, <2>1, <2>2, <2>3
<1>2. CASE f # "description"
  <2> DEFINE w == [v EXCEPT !.breaks = 0, !.crlf = FALSE]
  <2>1. Submitted(f, v) = w /\ Submitted(f, w) = [w EXCEPT !.breaks = 0, !.crlf = FALSE]
    BY <1>2 DEF Submitted
  <2>2. w.breaks = 0 /\ w.crlf = FALSE /\ [w EXCEPT !.breaks = 0, !.crlf = FALSE] = w
    BY DEF Values
  <2> HIDE DEF w
  <2> QED BY <2>1, <2>2
<1> QED BY <1>1, <1>2

(* What the form makes of a value that is held: a one-line field is as it    *)
(* was, and a description grows only by breaks of one byte                   *)
LEMMA HeldComesBack ==
  ASSUME NEW f \in Scalars, NEW v \in Values, Held(f, v)
  PROVE  /\ f # "description" => Submitted(f, v) = v
         /\ ~Accepts(f, Submitted(f, v)) =>
              \/ f = "title" /\ v.word = NoWord
              \/ f = "description" /\ v.breaks > 0 /\ ~v.crlf
<1>1. CASE f # "description"
  <2>1. v.breaks = 0 /\ v.crlf = FALSE /\ Size(v) <= FieldLimit(f)
    BY <1>1 DEF Held
  <2>2. [v EXCEPT !.breaks = 0, !.crlf = FALSE] = v
    BY <2>1 DEF Values
  <2>3. Submitted(f, v) = v
    BY <1>1, <2>2 DEF Submitted
  <2> QED BY <1>1, <2>1, <2>3 DEF Accepts
<1>2. CASE f = "description"
  <2>0. /\ v.breaks > 0 \/ v.breaks = 0
        /\ v.crlf = TRUE \/ ~v.crlf
    BY DEF Values
  <2>1. SUFFICES ASSUME v.breaks = 0 \/ v.crlf = TRUE PROVE Accepts(f, Submitted(f, v))
    BY <1>2, <2>0, Zenon
  <2> DEFINE c == v.breaks > 0
             w == [v EXCEPT !.crlf = c]
  <2>2. Submitted(f, v) = w
    BY <1>2 DEF Submitted
  <2>3. w.bytes = v.bytes /\ w.breaks = v.breaks /\ w.crlf = c
    BY DEF Values
  <2>4. v.bytes \in Int /\ v.breaks \in Nat
    BY DEF Values
  <2> HIDE DEF w
  <2>5. Size(w) = Size(v)
    <3>1. CASE v.breaks = 0
      BY <3>1, <2>3, <2>4 DEF Size
    <3>2. CASE v.breaks # 0
      <4>1. c = TRUE /\ v.crlf = TRUE
        BY <2>1, <2>4, <3>2
      <4> QED BY <2>3, <4>1 DEF Size
    <3> QED BY <3>1, <3>2
  <2> QED BY <1>2, <2>2, <2>5 DEF Accepts, Held
<1> QED BY <1>1, <1>2

LEMMA FlatSize ==
  ASSUME NEW f \in Scalars, NEW v \in Values
  PROVE  /\ f # "description" => Flat(f, v).breaks = 0
         /\ Flat(f, v).crlf = FALSE
<1>1. CASE f = "description"
  <2>1. Flat(f, v) = [v EXCEPT !.crlf = FALSE]
    BY <1>1 DEF Flat
  <2> QED BY <1>1, <2>1 DEF Values
<1>2. CASE f # "description"
  <2> DEFINE n == v.bytes + v.breaks
  <2>1. Flat(f, v) = [v EXCEPT !.bytes = n, !.breaks = 0, !.crlf = FALSE]
    BY <1>2 DEF Flat
  <2> HIDE DEF n
  <2> QED BY <2>1 DEF Values
<1> QED BY <1>1, <1>2

LEMMA CapIsHeld ==
  ASSUME NEW f \in Scalars, NEW v \in Values PROVE Held(f, CapField(f, v))
<1> DEFINE flat == Flat(f, v)
           n == FieldLimit(f) - flat.breaks
<1>1. flat \in Values /\ flat.crlf = FALSE /\ (f # "description" => flat.breaks = 0)
  BY FlatIsValue, FlatSize
<1>2. FieldLimit(f) \in Int
  BY ShelfAssumption DEF FieldLimit
<1>3. CapField(f, v) = IF Size(flat) <= FieldLimit(f) THEN flat ELSE [flat EXCEPT !.bytes = n]
  BY DEF CapField
<1>4. n \in Int /\ n + flat.breaks = FieldLimit(f)
  BY <1>1, <1>2 DEF Values
<1> HIDE DEF flat, n
<1>5. CASE Size(flat) <= FieldLimit(f)
  BY <1>1, <1>3, <1>5 DEF Held
<1>6. CASE ~(Size(flat) <= FieldLimit(f))
  <2> DEFINE w == [flat EXCEPT !.bytes = n]
  <2>1. w.bytes = n /\ w.breaks = flat.breaks /\ w.crlf = FALSE
    BY <1>1 DEF Values
  <2> HIDE DEF w
  <2>2. Size(w) = FieldLimit(f)
    BY <1>1, <1>4, <2>1 DEF Size, Values
  <2> QED BY <1>1, <1>2, <1>3, <1>6, <2>1, <2>2 DEF Held, w
<1> QED BY <1>5, <1>6

LEMMA EmbeddedIsHeld ==
  ASSUME NEW file \in Files PROVE HeldRow(Embedded(file))
<1> DEFINE title == IF file.title.word = NoWord THEN file.name ELSE file.title
<1>1. title \in Values /\ file.description \in Values
  BY InputsAssumption
<1>2. /\ Embedded(file).title = CapField("title", title)
      /\ Embedded(file).description = CapField("description", file.description)
  BY DEF Embedded
<1> HIDE DEF title
<1>3. Held("title", Embedded(file).title) /\ Held("description", Embedded(file).description)
  BY <1>1, <1>2, CapIsHeld DEF Scalars
<1>4. \A f \in Scalars : Embedded(file).source[f] # "manual"
  BY DEF Embedded, Fields
<1> QED BY <1>3, <1>4 DEF HeldRow, Scalars

LEMMA InheritedIsHeld ==
  ASSUME NEW new \in Books, NEW old \in Books, HeldRow(new), HeldRow(old)
  PROVE  HeldRow(Inherited(new, old))
<1>1. ASSUME NEW f \in Scalars
      PROVE  /\ Inherited(new, old)[f] = IF old.source[f] = "manual" THEN old[f] ELSE new[f]
             /\ Inherited(new, old).source[f]
                  = IF old.source[f] = "manual" THEN "manual" ELSE new.source[f]
  BY DEF Inherited, Scalars, Fields
<1>2. \A f \in Scalars : Held(f, old[f]) /\ Held(f, new[f])
  BY DEF HeldRow
<1>3. \A f \in Scalars : /\ old.source[f] = "manual" => Saved(f, old[f])
                         /\ new.source[f] = "manual" => Saved(f, new[f])
  BY BookIsNotNoBook DEF HeldRow
<1> QED BY <1>1, <1>2, <1>3 DEF HeldRow

LEMMA PutHeld ==
  ASSUME NEW bs \in [Ids -> RowSet], \A i \in Ids : HeldRow(bs[i]),
         NEW id \in Ids, NEW b, HeldRow(b), books' = [bs EXCEPT ![id] = b]
  PROVE  \A i \in Ids : HeldRow(books'[i])
OBVIOUS

LEMMA RemovedHeld ==
  ASSUME NEW gone, \A i \in Ids : HeldRow(books[i])
  PROVE  /\ Without(books, gone, NoBook) \in [Ids -> {books[i] : i \in Ids} \cup {NoBook}]
         /\ \A i \in Ids : HeldRow(Without(books, gone, NoBook)[i])
BY NothingIsHeld DEF Without

AllHeld == \A i \in Ids : HeldRow(books[i])

LEMMA FindFileHeld ==
  ASSUME ShelfInv, AllHeld, NEW path \in Paths, NEW file \in Files, FindFile(path, file)
  PROVE  AllHeld'
<1> DEFINE id == lastId + 1
           replaced == Orphans(path, id)
           old == books[CHOOSE i \in replaced : TRUE]
           new == IF replaced = {} THEN Embedded(file) ELSE Inherited(Embedded(file), old)
           left == Without(books, replaced, NoBook)
<1>1. id \in Ids
  BY ShelfAssumption DEF FindFile, ShelfInv, Ids
<1>2. HeldRow(new)
  <2>1. HeldRow(Embedded(file))
    BY EmbeddedIsHeld
  <2>2. ASSUME replaced # {} PROVE old \in Books /\ HeldRow(old)
    <3>1. PICK i \in replaced : i = CHOOSE j \in replaced : TRUE
      BY <2>2
    <3>2. i \in Ids /\ Exists(i)
      BY DEF Orphans
    <3> QED BY <3>1, <3>2, RowIsBook DEF AllHeld
  <2> HIDE DEF old, replaced
  <2> QED BY <2>1, <2>2, EmbeddedIsBook, InheritedIsHeld
<1>3. books' = [left EXCEPT ![id] = new]
  BY DEF FindFile
<1>4. left \in [Ids -> RowSet] /\ \A i \in Ids : HeldRow(left[i])
  <2>1. left \in [Ids -> RowSet]
    BY DEF Without, ShelfInv, Tables, RowSet
  <2> QED BY <2>1, RemovedHeld DEF AllHeld
<1> HIDE DEF id, new, left
<1> QED BY <1>1, <1>2, <1>3, <1>4, PutHeld DEF AllHeld

LEMMA SaveFieldHeld ==
  ASSUME ShelfInv, AllHeld, NEW id \in Ids, NEW f \in Scalars, NEW v \in Values,
         SaveField(id, f, v)
  PROVE  AllHeld'
<1> DEFINE w == Submitted(f, v)
           b == [books[id] EXCEPT ![f] = w, !.source[f] = "manual"]
<1>1. books[id] \in Books
  BY RowIsBook DEF SaveField
<1>2. Held(f, w) /\ Saved(f, w)
  BY SubmittedTwice DEF SaveField, Accepts, Held, Saved
<1>3. books' = [books EXCEPT ![id] = b]
  BY DEF SaveField
<1> HIDE DEF w
<1>4. b.title = (IF f = "title" THEN w ELSE books[id].title)
      /\ b.description = (IF f = "description" THEN w ELSE books[id].description)
      /\ \A g \in Scalars \ {f} : b.source[g] = books[id].source[g]
  BY <1>1 DEF Books, Scalars
<1> HIDE DEF b
<1>5. HeldRow(b)
  <2>1. HeldRow(books[id]) /\ books[id] # NoBook
    BY <1>1, BookIsNotNoBook DEF AllHeld
  <2>2. ASSUME NEW g \in Scalars PROVE b[g] = IF g = f THEN w ELSE books[id][g]
    BY <1>4 DEF Scalars
  <2> QED BY <1>2, <1>4, <2>1, <2>2 DEF HeldRow
<1>6. books \in [Ids -> RowSet] /\ \A i \in Ids : HeldRow(books[i])
  BY DEF ShelfInv, Tables, AllHeld
<1> QED BY <1>3, <1>5, <1>6, PutHeld DEF AllHeld

LEMMA SaveAuthorsHeld ==
  ASSUME ShelfInv, AllHeld, NEW id \in Ids, NEW names, SaveAuthors(id, names)
  PROVE  AllHeld'
<1> DEFINE b == [books[id] EXCEPT !.authors = names, !.source["authors"] = "manual"]
<1>1. books[id] \in Books
  BY RowIsBook DEF SaveAuthors
<1>2. /\ b.title = books[id].title /\ b.description = books[id].description
      /\ b.source["title"] = books[id].source["title"]
      /\ b.source["description"] = books[id].source["description"]
  BY <1>1 DEF Books
<1>3. books' = [books EXCEPT ![id] = b]
  BY DEF SaveAuthors
<1> HIDE DEF b
<1>4. HeldRow(b)
  BY <1>1, <1>2, BookIsNotNoBook DEF AllHeld, HeldRow, Scalars
<1>5. books \in [Ids -> RowSet] /\ \A i \in Ids : HeldRow(books[i])
  BY DEF ShelfInv, Tables, AllHeld
<1> QED BY <1>3, <1>4, <1>5, PutHeld DEF AllHeld

LEMMA ApplyAnswerHeld ==
  ASSUME ShelfInv, AllHeld, NEW answer \in [Scalars -> Typed], NEW names, ApplyAnswer(answer, names)
  PROVE  AllHeld'
<1> DEFINE id == asked.id
           capped == [f \in Scalars |-> CapField(f, answer[f])]
           old == books[id]
           filled == {f \in asked.missing \cap Missing(old) :
                        IF f = "authors" THEN names # {} ELSE capped[f].word # NoWord}
           Field(f) == IF f \in filled THEN capped[f] ELSE old[f]
           authors == IF "authors" \in filled THEN names ELSE old.authors
           source == [f \in Fields |-> IF f \in filled THEN "provider" ELSE old.source[f]]
           b == [title |-> Field("title"), description |-> Field("description"),
                 authors |-> authors, source |-> source]
<1>1. id \in Ids
  BY DEF ApplyAnswer, ShelfInv
<1>2. CASE ~Exists(id)
  BY <1>2 DEF ApplyAnswer, AllHeld
<1>3. CASE Exists(id)
  <2>1. \A f \in Scalars : Held(f, capped[f])
    BY InputsAssumption, CapIsHeld
  <2>2. HeldRow(old) /\ old # NoBook
    BY <1>1, <1>3 DEF AllHeld, Exists
  <2>3. books' = [books EXCEPT ![id] = b]
    BY <1>3 DEF ApplyAnswer
  <2>4. \A f \in Scalars :
          \/ b[f] = capped[f] /\ b.source[f] = "provider"
          \/ b[f] = old[f] /\ b.source[f] = old.source[f]
    <3> HIDE DEF capped, filled, old
    <3> QED BY DEF Scalars, Fields
  <2> HIDE DEF b, id, capped, old
  <2>5. HeldRow(b)
    BY <2>1, <2>2, <2>4 DEF HeldRow
  <2>6. books \in [Ids -> RowSet] /\ \A i \in Ids : HeldRow(books[i])
    BY DEF ShelfInv, Tables, AllHeld
  <2> QED BY <1>1, <2>3, <2>5, <2>6, PutHeld DEF AllHeld
<1> QED BY <1>2, <1>3

LEMMA HeldStep == ShelfInv /\ AllHeld /\ [Next]_vars => AllHeld'
<1> SUFFICES ASSUME ShelfInv, AllHeld, [Next]_vars PROVE AllHeld'
  OBVIOUS
<1>1. CASE UNCHANGED books
  BY <1>1 DEF AllHeld
<1>2. CASE Sweep
  <2>1. ASSUME NEW gone, books' = Without(books, gone, NoBook) PROVE AllHeld'
    BY <2>1, RemovedHeld DEF AllHeld
  <2>2. ASSUME NEW p \in Paths, DropFile(p) PROVE AllHeld'
    BY <2>1, <2>2 DEF DropFile
  <2>3. ASSUME NEW p \in Paths, NEW id \in Ids, MoveFile(p, id) PROVE AllHeld'
    BY <2>1, <2>3 DEF MoveFile
  <2> QED BY <1>2, <2>2, <2>3, FindFileHeld DEF Sweep
<1>3. CASE Edit
  <2>1. ASSUME NEW id \in Ids, NEW f \in Scalars, NEW v \in Typed \cup {books[id][f]},
               SaveField(id, f, v)
        PROVE  AllHeld'
    BY <2>1, InputsAssumption, ValueIsValue, SaveFieldHeld
  <2> QED BY <1>3, <2>1, SaveAuthorsHeld DEF Edit
<1>4. CASE Enrich
  BY <1>1, <1>4, ApplyAnswerHeld DEF Enrich, Ask
<1> QED
  BY <1>1, <1>2, <1>3, <1>4
  DEF Next, Change, ShelfStep, NextPage, Open, vars, shelfVars

(* Whoever writes a field, a file's metadata, a provider's answer, a person  *)
(* or an inheritance, it keeps the limit, a one-line field comes back from   *)
(* its editor as it was, and what a person saved can be saved again.  Of the *)
(* rest only an empty title and a description grown by CR LF are refused     *)
(* (CapField, normalizeField).                                               *)
THEOREM EditorHoldsAll == Spec => []EditorCanHoldIt
<1>1. Init => AllHeld
  BY NothingIsHeld DEF Init, ShelfInit, AllHeld
<1>2. ShelfInv /\ AllHeld => EditorCanHoldIt
  <2> SUFFICES ASSUME ShelfInv, AllHeld, NEW id \in Ids, NEW f \in Scalars
               PROVE  LET v == books[id][f]
                          back == Submitted(f, v)
                      IN  /\ Size(v) <= FieldLimit(f)
                          /\ f # "description" => back = v
                          /\ Exists(id) /\ ~Accepts(f, back) =>
                               /\ books[id].source[f] # "manual"
                               /\ \/ f = "title" /\ v.word = NoWord
                                  \/ f = "description" /\ v.breaks > 0 /\ ~v.crlf
    BY DEF EditorCanHoldIt
  <2> DEFINE v == books[id][f]
  <2>1. v \in Values /\ Held(f, v)
    BY ValueIsValue DEF AllHeld, HeldRow
  <2>2. Exists(id) /\ books[id].source[f] = "manual" => Accepts(f, Submitted(f, v))
    BY DEF AllHeld, HeldRow, Saved, Exists
  <2>3. Size(v) <= FieldLimit(f)
    BY <2>1 DEF Held
  <2> HIDE DEF v
  <2>4. /\ f # "description" => Submitted(f, v) = v
        /\ ~Accepts(f, Submitted(f, v)) =>
             \/ f = "title" /\ v.word = NoWord
             \/ f = "description" /\ v.breaks > 0 /\ ~v.crlf
    BY <2>1, HeldComesBack
  <2> QED BY <2>2, <2>3, <2>4 DEF v
<1> QED BY <1>1, <1>2, HeldStep, InitHolds, StepHolds, PTL DEF Spec
=============================================================================
