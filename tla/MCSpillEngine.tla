---------------------------- MODULE MCSpillEngine -----------------------------
(* SpillEngine on a sheet of 3 rows and 2 columns, from two workbooks.       *)
(*                                                                           *)
(*   0 1   Oscillation: 0 and 1 spill downwards, and each one's size depends *)
(*   2 3   on a cell of the other.  2 and 3 lie in their way, 4 reads them;  *)
(*   4 5   edits make arrays race for cells, run off the sheet, spill        *)
(*         blanks, hold lambdas, fall into a cycle.                          *)
(*                                                                           *)
(*         Chain: 2 spills into 3, which 0 reads, and 0 spills into 1: one   *)
(*         pass more than the cap.  5 reads the array refused.               *)
EXTENDS SpillEngine, RecalcOrder

F(op, S) == [op |-> op, src |-> S]

MCMenu ==
  [c \in Cell |->
     CASE c = 0 -> {F("grow", {3, 5}), F("fill", {4})}
       [] c = 1 -> {F("shrink", {2}), F("fill", {4})}
       [] c = 2 -> {F("row", {4})}
       [] c = 3 -> {F("unparsed", {})}
       [] c = 4 -> {F("hash", {0}), F("lambdas", {}), F("ref", {2})}
       [] c = 5 -> {F("shrink", {3})}]
MCTypable ==
  [c \in Cell |->
     CASE c = 2 -> {1, Blank}
       [] c \in {3, 4, 5} -> {1}
       [] OTHER -> {}]

Book(f, t) ==
  [programs |-> [c \in Cell |-> IF c \in DOMAIN f THEN f[c] ELSE NoProgram],
   typed |-> [c \in Cell |-> IF c \in DOMAIN t THEN t[c] ELSE Absent]]

Oscillation ==
  Book([c \in {0, 1} |-> IF c = 0 THEN F("grow", {3, 5}) ELSE F("shrink", {2})], <<>>)
Chain ==
  Book([c \in {0, 2, 5} |-> CASE c = 0 -> F("row", {3})
                              [] c = 2 -> F("row", {4})
                              [] c = 5 -> F("ref", {0})],
       [c \in {4} |-> 1])

MCWorkbooks == {Oscillation, Chain}

\* The program tables that edits lead to, each with its canonical plan.
MCPrograms ==
  FoldSet(LAMBDA c, T : T \cup {[t EXCEPT ![c] = p] : t \in T, p \in MCMenu[c] \cup {NoProgram}},
          {w.programs : w \in MCWorkbooks}, Cell)
Plans ==
  [t \in MCPrograms |->
     LET formulas == {c \in Cell : t[c] # NoProgram}
     IN CanonicalPlan(formulas, UNION {{c} \X t[c].src : c \in formulas})]
MCFullPlanOf(t) == Plans[t]
=============================================================================
