\* Every digraph on four formulas.
CONSTANTS
  Cell <- MCCell
  Node <- Formula
  Workbooks <- MCWorkbooks
SPECIFICATION Spec
INVARIANTS
  PlanRespectsEdges
  PlanIsComplete
  PlanIsCanonical
PROPERTY EmitsComponents
\* Planning is over when every step has its wave.
CHECK_DEADLOCK FALSE
