CONSTANTS
  MaxRow = 3
  MaxCol = 4
  MaxElems = 6
  MaxDepth = 2
  ColumnCap = 5
  NameTable <- MCNameTable
  Formulas <- MCFormulas
  Home <- D3
  Positions <- MCPositions
  Inputs <- MCInputs
  SpillAnchor <- C2
  SpillSizes = {1, 2}
SPECIFICATION Spec
INVARIANTS
  ReadsArePrecedents
  ScopeIsLexical
  ArraysAreCellwise
  ViewsAgree
  WalksArePositionFree
