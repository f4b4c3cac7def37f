--------------------------- MODULE MCParallelRecalc ---------------------------
(* A sheet of 3 rows and 2 columns where the operation "row" is missing from *)
(* the list of array functions.                                              *)
(*                                                                           *)
(*   0 1   0 counts cells below, 1 counts 3, 2 depends on 4.  In the second  *)
(*   2 3   workbook 2 spills into 3, unless a literal blocks it; once the    *)
(*   4 5   literal is cleared, the next recalculation finds no region and an *)
(*         array to come.  Edits make 1 read 0, 0 an array of the list, 4    *)
(*         and 5, or 5 alone, circular.                                      *)
EXTENDS ParallelRecalc, RecalcOrder

F(op, S) == [op |-> op, src |-> S]

MCMenu ==
  [c \in Cell |->
     CASE c = 0 -> {F("grow", {4})}
       [] c = 1 -> {F("ref", {0})}
       [] c = 2 -> {F("row", {4})}
       [] c = 4 -> {F("ref", {5})}
       [] c = 5 -> {F("ref", {4}), F("ref", {5})}
       [] OTHER -> {}]
MCTypable ==
  [c \in Cell |-> CASE c = 3 -> {1, Blank} [] c = 4 -> {Blank} [] OTHER -> {}]

Book(second) ==
  [programs |-> [c \in Cell |-> CASE c = 0 -> F("count", {2, 3, 4})
                                  [] c = 1 -> F("count", {3})
                                  [] c = 2 -> F(second, {4})
                                  [] OTHER -> NoProgram],
   typed |-> [c \in Cell |-> IF c = 4 THEN 1 ELSE Absent]]

MCWorkbooks == {Book("count"), Book("row")}

\* The program tables that edits lead to, each with its canonical plan.
MCPrograms ==
  FoldSet(LAMBDA c, T : T \cup {[t EXCEPT ![c] = p] : t \in T, p \in MCMenu[c] \cup {NoProgram}},
          {w.programs : w \in MCWorkbooks}, Cell)
Plans ==
  [t \in MCPrograms |->
     LET formulas == {c \in Cell : t[c] # NoProgram}
     IN CanonicalPlan(formulas, UNION {{c} \X t[c].src : c \in formulas})]
MCFullPlanOf(t) == Plans[t]
=============================================================================
