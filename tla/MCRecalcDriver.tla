---------------------------- MODULE MCRecalcDriver ----------------------------
(* RecalcDriver on three cells of one sheet: a formula chain that may close  *)
(* into a cycle, a range over two cells, and one cell that may spill.        *)
EXTENDS RecalcDriver

CONSTANTS a, b, c, s1, ab

MCCell == {a, b, c}
MCRange == {ab}
MCSheet == {s1}
MCCellSheet == [x \in MCCell |-> s1]
MCRangeSheet == [r \in MCRange |-> s1]
MCCovers == [r \in MCRange |-> {a, b}]

P(cs, rs) == [cells |-> cs, ranges |-> rs]
MCFormulas ==
  [x \in MCCell |->
     CASE x = a -> {P({}, {}), P({c}, {})}
       [] x = b -> {P({a}, {})}
       [] x = c -> {P({}, {ab}), P({b}, {})}]
MCFlaggable == {a}
=============================================================================
