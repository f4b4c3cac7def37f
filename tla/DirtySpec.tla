------------------------------- MODULE DirtySpec ------------------------------
(***************************************************************************)
(* What the dependency graph promises its caller about dirtiness, in the   *)
(* words of mark_dirty's documentation: marking cells makes them and all   *)
(* their transitive dependents dirty at once, and the plan taken next      *)
(* schedules the dirty formulas, no more and no fewer.  There is no        *)
(* worklist, no reverse edge and no index here.                            *)
(***************************************************************************)
CONSTANT Cell

VARIABLES
  formulas,  \* the formula cells
  reads,     \* the pairs <<c, x>>: formula c reads cell x
  dirty,     \* the formulas awaiting a plan
  planned    \* the cells the last plan scheduled

vars == <<formulas, reads, dirty, planned>>

\* The least set that holds the readers of S and the readers of its own cells.
Downstream(S) ==
  {c \in Cell : \A T \in SUBSET Cell :
     (\A e \in reads : e[2] \in S \cup T => e[1] \in T) => c \in T}

Init == formulas = {} /\ reads = {} /\ dirty = {} /\ planned = {}

\* Formula c is entered and reads the cells of X from now on.
Enter(c, X) ==
  /\ formulas' = formulas \cup {c}
  /\ reads' = {e \in reads : e[1] # c} \cup {<<c, x>> : x \in X}
  /\ UNCHANGED <<dirty, planned>>

\* Cell c is a formula no more.
Clear(c) ==
  /\ formulas' = formulas \ {c}
  /\ reads' = {e \in reads : e[1] # c}
  /\ dirty' = dirty \ {c}
  /\ UNCHANGED planned

Mark(S) ==
  /\ dirty' = dirty \cup (S \cap formulas) \cup Downstream(S)
  /\ UNCHANGED <<formulas, reads, planned>>

TakePlan ==
  /\ planned' = dirty
  /\ dirty' = {}
  /\ UNCHANGED <<formulas, reads>>

\* A plan of every formula, whatever is dirty; the dirty set is then emptied.
PlanAll ==
  /\ planned' = formulas
  /\ UNCHANGED <<formulas, reads, dirty>>

Discard == dirty' = {} /\ UNCHANGED <<formulas, reads, planned>>

Next ==
  \/ \E c \in Cell, X \in SUBSET Cell : Enter(c, X)
  \/ \E c \in Cell : Clear(c)
  \/ \E S \in SUBSET Cell : Mark(S)
  \/ TakePlan
  \/ PlanAll
  \/ Discard

Spec == Init /\ [][Next]_vars
=============================================================================
