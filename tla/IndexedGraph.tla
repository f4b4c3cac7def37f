----------------------------- MODULE IndexedGraph -----------------------------
(***************************************************************************)
(* DepGraph with the range index of one sheet (crate xl-graph: the field   *)
(* DepGraph::ranges, a SheetRanges per sheet).  The graph's operations     *)
(* keep the array: set_deps and remove_node replace a formula's entries,   *)
(* and each turn of propagate that pops a cell of the sheet asks it.       *)
(* DepGraph answers from its edges instead; here the two must agree.       *)
(***************************************************************************)
EXTENDS DepGraph, Sequences

CONSTANTS
  Indexed,    \* the sheet whose index is modelled
  Rectangle,  \* [SheetRange -> the corners of each range]
  Place,      \* [Cell -> <<row, column>>]
  Rank        \* [Cell -> the place of a cell in CellId order]

ASSUME IndexedAssumption == Indexed \in Sheet

\* A formula names finitely many ranges.
ASSUME FiniteAssumption == \A x \in Cell : \A P \in Formulas[x] : IsFiniteSet(P.ranges)

ASSUME RankAssumption ==
  /\ Rectangle \in [SheetRange -> [top : Int, bottom : Int, left : Int, right : Int]]
  /\ Rank \in [Cell -> Int] /\ \A x, y \in Cell : Rank[x] = Rank[y] => x = y
ASSUME PlaceAssumption ==
  /\ Place \in [Cell -> Int \X Int]
  /\ \A x \in Cell, r \in SheetRange :
       x \in Covers[r] <=>
         /\ CellSheet[x] = RangeSheet[r]
         /\ Rectangle[r].top <= Place[x][1] /\ Place[x][1] <= Rectangle[r].bottom
         /\ Rectangle[r].left <= Place[x][2] /\ Place[x][2] <= Rectangle[r].right

VARIABLES entries, sorted, asked, scan
indexVars == <<entries, sorted, asked, scan>>

OnSheet == {x \in Cell : CellSheet[x] = Indexed}
Row == {Place[x][1] : x \in OnSheet}
Col == {Place[x][2] : x \in OnSheet}
Rect == {Rectangle[r] : r \in {q \in SheetRange : RangeSheet[q] = Indexed}}
Dependent == {Rank[x] : x \in Cell}
Index == INSTANCE RangeIndex

IndexedInit == Init /\ Index!Init

\* The rectangles of the indexed sheet among P's precedents.
Rects(P) == {Rectangle[r] : r \in {q \in P.ranges : RangeSheet[q] = Indexed}}

IndexedSet(x, P) == SetDeps(x, P) /\ Index!Replace(Rank[x], Rects(P))
IndexedRemove(x) == RemoveNode(x) /\ Index!Replace(Rank[x], {})

IndexedPropagate(x) ==
  /\ PropagateStep(x)
  /\ IF x \in OnSheet THEN Index!Query(Place[x][1], Place[x][2])
                      ELSE UNCHANGED indexVars

\* What neither reads nor changes a range.
IndexUnused ==
  /\ \/ \E x \in Flaggable, flag \in BOOLEAN : RegisterVolatile(x, flag)
     \/ \E x \in Flaggable, flag \in BOOLEAN : SetDynamicDeps(x, flag)
     \/ \E S \in SUBSET Cell : MarkDirty(S)
     \/ MarkVolatileDirty
     \/ MarkAllDirty
     \/ ClearDirty
     \/ TakeRecalcPlan
  /\ Index!Forget

IndexedNext ==
  \/ \E x \in Cell : \E P \in Formulas[x] : IndexedSet(x, P)
  \/ \E x \in Cell : IndexedRemove(x)
  \/ \E x \in Cell : IndexedPropagate(x)
  \/ IndexUnused

IndexedSpec ==
  /\ IndexedInit /\ [][IndexedNext]_<<vars, indexVars>>
  /\ WF_vars(\E x \in Cell : PropagateStep(x))

-----------------------------------------------------------------------------
(* Each query returns exactly the formulas with a range edge over the cell,  *)
(* whatever formulas were entered, rewired and removed before: the array     *)
(* keeps what the graph stores, and the bisection cuts off no entry that the *)
(* scan would keep (set_deps, detach_precedents, query).                     *)
Promised == INSTANCE RangeIndexSpec WITH
  registered <- {<<Rectangle[e[1]], Rank[e[2]]>> : e \in ranges[Indexed]},
  answer <- {scan[i][2] : i \in DOMAIN scan}

AnswersExactly == Promised!Spec
=============================================================================
