---------------------------- MODULE RangeIndexSpec ----------------------------
(***************************************************************************)
(* What the range index of one sheet promises (the header of xl-graph's    *)
(* range_index.rs): it maps a cell to the formulas with a range that       *)
(* covers it.                                                              *)
(***************************************************************************)
EXTENDS Integers

CONSTANTS
  Row, Col,    \* the cells of the sheet
  Rect,        \* the rectangles, records with fields top, bottom, left, right
  Dependent    \* the formulas

VARIABLES
  registered,  \* the <<rectangle, formula>> pairs
  asked,       \* the cell of the query, <<>> once its answer was used
  answer       \* the formulas the query returned

CoversCell(r, row, col) ==
  /\ r.top <= row /\ row <= r.bottom
  /\ r.left <= col /\ col <= r.right

Init == registered = {} /\ asked = <<>> /\ answer = {}

Forget == asked' = <<>> /\ answer' = {} /\ UNCHANGED registered

Ask(row, col) ==
  /\ asked' = <<row, col>>
  /\ UNCHANGED registered
  /\ answer' = {e[2] : e \in {f \in registered : CoversCell(f[1], row, col)}}

Replace(d, R) ==
  /\ asked' = <<>>
  /\ answer' = {}
  /\ registered' = {e \in registered : e[2] # d} \cup (R \X {d})

Next ==
  \/ Forget
  \/ \E row \in Row, col \in Col : Ask(row, col)
  \/ \E d \in Dependent : \E R \in SUBSET Rect : Replace(d, R)

Spec == Init /\ [][Next]_<<registered, asked, answer>>
=============================================================================
