------------------------------ MODULE MCPager ------------------------------
(* Three titles, two of which file under one key; a file that names nothing, *)
(* one with a break in its title and a description cut at the limit, and one *)
(* with an author.                                                           *)
EXTENDS PagerProps

CONSTANTS wa, wb, wc, p1, p2

Val(w, n, breaks) == [word |-> w, bytes |-> n, breaks |-> breaks, crlf |-> FALSE]
File(title, description, authors) ==
  [name |-> Blank, title |-> title, description |-> description, authors |-> authors]

MCWords == {wa, wb, wc}
MCSortKey == [w \in {wa, wb, wc, NoWord} |-> IF w = NoWord THEN 0 ELSE IF w = wc THEN 2 ELSE 1]
MCFiles == {File(Val(wa, 1, 0), Blank, {}),
            File(Val(wb, 1, 1), Val(wc, 4, 1), {}),
            File(Val(wc, 1, 0), Blank, {wa}),
            File(Blank, Blank, {})}
MCDescribed == {File(Val(wb, 1, 1), Val(wc, 4, 1), {})}
MCTyped == {Val(wc, 1, 0), Blank}
MCAuthorLists == {{}, {wb}}
=============================================================================
