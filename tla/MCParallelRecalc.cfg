\* Full recalculations in waves, between edits.
CONSTANTS
  Width = 2
  Height = 3
  Cap = 1
  Workbooks <- MCWorkbooks
  Menu <- MCMenu
  Programs <- MCPrograms
  FullPlanOf <- MCFullPlanOf
  Typable <- MCTypable
  Unlisted = {"row"}
  Blank = Blank
  Absent = Absent
  SpillError = SpillError
  UnsupportedError = UnsupportedError
  ValueError = ValueError
  NoOwner = NoOwner
  NoSnapshot = NoSnapshot
  NoStart = NoStart
SPECIFICATION ParallelSpec
INVARIANTS
  ParallelIsSerial
