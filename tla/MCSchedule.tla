------------------------------ MODULE MCSchedule ------------------------------
(* Schedule on every graph of four formulas, with and without a formula that *)
(* reads itself and input cells before and after the formulas.               *)
EXTENDS Schedule

MCCell == 0 .. 5
Formula == 1 .. 4
NoLoops == SUBSET {e \in Formula \X Formula : e[1] # e[2]}

\* Input cells on either side, and a formula that reads itself; iteration on.
Extras == {{}, {<<2, 2>>, <<1, 0>>, <<4, 5>>}}
MCWorkbooks == {[reads |-> E \cup X, iterate |-> X # {}] : E \in NoLoops, X \in Extras}
=============================================================================
