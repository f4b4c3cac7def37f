------------------------------ MODULE RangeIndex ------------------------------
(***************************************************************************)
(* The range index of one sheet: xl-graph's SheetRanges (range_index.rs),  *)
(* an array of <<rectangle, dependent>> entries that is sorted lazily, by  *)
(* the first query after an insertion, and searched by bisection.          *)
(*                                                                         *)
(* A binary search is modelled by what it may return on any array, sorted  *)
(* or not: an index with the predicate true just before it and false at    *)
(* it.  The callers are DepGraph's set_deps and detach_precedents, which   *)
(* replace all the ranges of a formula at once.                            *)
(***************************************************************************)
EXTENDS Integers, SequencesExt

CONSTANTS
  Row, Col,   \* the cells of the sheet
  Rect,       \* the rectangles, degenerate ones included
  Dependent   \* the formulas, as their ranks in CellId order

VARIABLES
  entries,  \* the array
  sorted,   \* FALSE when an insertion may have broken the order
  asked,    \* history: the cell of the last query, <<>> after a replacement
  scan      \* what that query appended to its result, in order

vars == <<entries, sorted, asked, scan>>

\* entry_order: the rectangle first, top edge foremost, then the dependent.
Key(e) == <<e[1].top, e[1].bottom, e[1].left, e[1].right, e[2]>>
Before(e, f) ==
  \E i \in 1 .. 5 : /\ Key(e)[i] < Key(f)[i]
                    /\ \A j \in 1 .. i - 1 : Key(e)[j] = Key(f)[j]

\* The entries of S in that order.
Arranged(S) ==
  [i \in 1 .. Cardinality(S) |->
     CHOOSE e \in S : Cardinality({f \in S : Before(f, e)}) = i - 1]

Init ==
  /\ entries = <<>>
  /\ sorted = FALSE
  /\ asked = <<>>
  /\ scan = <<>>

\* Fault: what an insertion appends is taken to be in order.
SortedAfter_Kept(kept, added) == sorted

\* An insertion clears the flag; an index left empty is dropped and made anew.
SortedAfter(kept, added) == sorted /\ added = <<>> /\ kept # <<>>

\* The entries of s at the places of I, in their order.
Picked(s, I) ==
  [n \in 1 .. Cardinality(I) |->
     s[CHOOSE i \in I : Cardinality({j \in I : j < i}) = n - 1]]

Retained(d) == Picked(entries, {i \in DOMAIN entries : entries[i][2] # d})

\* set_deps or remove_node of d: its entries go, those of R come, in the order
\* of the set of ranges that holds them.
Replace(d, R) ==
  LET added == Arranged(R \X {d})
  IN /\ entries' = Retained(d) \o added
     /\ sorted' = SortedAfter(Retained(d), added)
     /\ asked' = <<>>
     /\ scan' = <<>>

\* The cuts partition_point may find: entries before the cut start at or above
\* the row, the one at the cut does not.
Cuts(s, row) ==
  {k \in 0 .. Len(s) : /\ k > 0 => s[k][1].top <= row
                       /\ k < Len(s) => s[k + 1][1].top > row}

\* The tests of the scan, which the cut completes with the top edge.
Hit(e, row, col) ==
  row <= e[1].bottom /\ col >= e[1].left /\ col <= e[1].right

Scanned == IF sorted THEN entries ELSE Arranged(ToSet(entries))

Query(row, col) ==
  LET s == Scanned
  IN /\ entries' = s
     /\ sorted' = TRUE
     /\ asked' = <<row, col>>
     /\ \E k \in Cuts(s, row) :
          scan' = Picked(s, {i \in 1 .. k : Hit(s[i], row, col)})

\* The caller has used the answer; the history forgets it.
Forget ==
  /\ asked' = <<>>
  /\ scan' = <<>>
  /\ UNCHANGED <<entries, sorted>>

Next ==
  \/ \E d \in Dependent : \E R \in SUBSET Rect : Replace(d, R)
  \/ \E row \in Row, col \in Col : Query(row, col)
  \/ Forget

Spec == Init /\ [][Next]_vars
=============================================================================
