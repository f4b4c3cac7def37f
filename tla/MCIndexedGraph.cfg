\* Free use of the graph's interface.
CONSTANTS
  a = a
  b = b
  c = c
  s1 = s1
  s2 = s2
  ab = ab
  bRow = bRow
  cOnly = cOnly
  none = none
  Cell <- MCCell
  SheetRange <- MCRange
  Sheet <- MCSheet
  CellSheet <- MCCellSheet
  RangeSheet <- MCRangeSheet
  Covers <- MCCovers
  Formulas <- MCFormulas
  Flaggable <- MCFlaggable
  Indexed = s1
  Rectangle <- MCRectangle
  Place <- MCPlace
  Rank <- MCRank
SPECIFICATION IndexedSpec
INVARIANTS
  EdgesMirror
  DirtyClosed
  EditsReachReaders
PROPERTIES
  AnswersExactly
