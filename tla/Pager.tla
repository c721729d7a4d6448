------------------------------- MODULE Pager -------------------------------
(* A reader pages through the grid, or through the matches of a search,      *)
(* while the shelf changes: BookPage.paginate, ListBooks and SearchBooks     *)
(* (internal/storage), pageOf (internal/service).                            *)
(*                                                                           *)
(* A page starts after a cursor naming the last row shown, (sort_title, id), *)
(* and nothing else is remembered between two pages.                         *)
EXTENDS Shelf

CONSTANTS PageSize,     \* BookPage.Limit
          NoQuery       \* no search: the whole library

ASSUME PagerAssumption == PageSize \in Nat \ {0} /\ NoQuery \notin Words

VARIABLES reader,       \* the search box, the cursor and whether pages are left
          shown, again, \* positions shown, and shown more than once
          steady        \* positions listed ever since the first page was asked

readerVars == <<reader, shown, again, steady>>
vars == <<shelfVars, readerVars>>

Start == <<0, 0>>       \* the zero cursor: before every row, as ids start at 1

(* The row-value comparison of the cursor, and the ORDER BY                  *)
Before(p, q) == p[1] < q[1] \/ (p[1] = q[1] /\ p[2] < q[2])

(* Mutant: the cursor compares titles alone                                  *)
AboveTitle(p, cursor) == p[1] > cursor[1] \/ cursor = Start

Above(p, cursor) == Before(cursor, p)

Position(id) == <<SortKey[books[id].title.word], id>>

Matches(id) == reader.query = NoQuery \/ \E c \in Fields : <<c, reader.query>> \in fts[id]

Listed == {Position(id) : id \in {i \in Ids : Exists(i) /\ Matches(i)}}

(* The first n rows of a set in the order                                    *)
FirstRows(rows, n, page) ==
  /\ page \subseteq rows
  /\ \A p \in page, q \in rows : Before(q, p) => q \in page
  /\ Cardinality(page) <= n /\ (Cardinality(page) < n => page = rows)

(* The cursor names the last row of the page                                 *)
Last(page, p) == p \in page /\ \A q \in page : q = p \/ Before(q, p)

-----------------------------------------------------------------------------
Open(query) ==
  /\ ~reader.open
  /\ reader' = [query |-> query, cursor |-> Start, open |-> TRUE]
  /\ shown' = {} /\ again' = {}
  /\ UNCHANGED shelfVars
  /\ steady' = Listed'

NextPage ==
  LET rows == {p \in Listed : Above(p, reader.cursor)} IN
  /\ reader.open
  /\ \E page \in SUBSET rows :
       /\ FirstRows(rows, PageSize, page)
       /\ \E cursor \in page \cup {reader.cursor} :
            /\ page # {} => Last(page, cursor)
            /\ reader' = [reader EXCEPT !.cursor = cursor, !.open = (page # rows)]
       /\ shown' = shown \cup page
       /\ again' = again \cup (shown \cap page)
  /\ UNCHANGED <<shelfVars, steady>>

Change ==
  /\ ShelfStep
  /\ UNCHANGED <<reader, shown, again>>
  /\ steady' = steady \cap Listed'

Init ==
  /\ ShelfInit
  /\ reader = [query |-> NoQuery, cursor |-> Start, open |-> FALSE]
  /\ shown = {} /\ again = {} /\ steady = {}

Next == Change \/ NextPage \/ \E query \in Words \cup {NoQuery} : Open(query)

Spec == Init /\ [][Next]_vars
=============================================================================
