---------------------------- MODULE MCIndexedGraph ----------------------------
(* Three cells of two sheets.  The menus hold single-cell and range edges,   *)
(* both across sheets, a formula that reads a range it lies in, a rectangle  *)
(* that is contained in another, a degenerate one, and every edge needed for *)
(* cycles of length 1 to 3.                                                  *)
EXTENDS IndexedGraph

CONSTANTS a, b, c, s1, s2, ab, bRow, cOnly, none

MCCell == {a, b, c}
MCRange == {ab, bRow, cOnly, none}
MCSheet == {s1, s2}
MCCellSheet == [x \in MCCell |-> IF x = c THEN s2 ELSE s1]
MCRangeSheet == [r \in MCRange |-> IF r = cOnly THEN s2 ELSE s1]
MCCovers == [r \in MCRange |-> CASE r = ab -> {a, b}
                                 [] r = bRow -> {b}
                                 [] r = cOnly -> {c}
                                 [] r = none -> {}]

R(t, u, l, r) == [top |-> t, bottom |-> u, left |-> l, right |-> r]
MCRectangle == [r \in MCRange |-> CASE r = ab -> R(0, 1, 0, 0)
                                    [] r = bRow -> R(1, 1, 0, 1)
                                    [] r = cOnly -> R(0, 0, 0, 0)
                                    [] r = none -> R(1, 0, 0, 1)]
MCPlace == [x \in MCCell |-> IF x = b THEN <<1, 0>> ELSE <<0, 0>>]
MCRank == [x \in MCCell |-> CASE x = a -> 1 [] x = b -> 2 [] x = c -> 3]

P(cs, rs) == [cells |-> cs, ranges |-> rs]
MCFormulas ==
  [x \in MCCell |->
     CASE x = a -> {P({c}, {}), P({}, {cOnly, none, bRow})}
       [] x = b -> {P({a}, {}), P({}, {ab})}
       [] x = c -> {P({b}, {}), P({a}, {ab})}]
MCFlaggable == {a}
=============================================================================
