\* Three runs, two process ids, one report path; six cells of two sheets.
CONSTANTS
  Run = {r1, r2, r3}
  Pid = {p1, p2}
  NoPid = NoPid
  NoFile = NoFile
  MaxRow = 2
  MaxCol = 1
  SheetMap <- MCSheetMap
  External = {"[1]X"}
  Spans = {}
  LooksLikeR1C1 = {1}
  Menu <- MCMenu
  OffGrid = OffGrid
  None = None
SYMMETRY MCSymmetry
SPECIFICATION MCSpec
INVARIANTS
  NeverPartial
  ExitCodeTellsReport
  RefusalsAreExplained
  ToolsReconcile
