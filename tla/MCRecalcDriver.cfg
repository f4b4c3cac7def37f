\* The engine's use of the graph: loads, edits and recalculations.
CONSTANTS
  a = a
  b = b
  c = c
  s1 = s1
  ab = ab
  Cell <- MCCell
  SheetRange <- MCRange
  Sheet <- MCSheet
  CellSheet <- MCCellSheet
  RangeSheet <- MCRangeSheet
  Covers <- MCCovers
  Formulas <- MCFormulas
  Flaggable <- MCFlaggable
  Cap = 1
SPECIFICATION FairDriverSpec
INVARIANTS
  NothingStale
  RewiredAreMarked
  NeverDropsPending
PROPERTIES
  CallsReturn
  DirtinessSpec
