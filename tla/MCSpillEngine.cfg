\* Recalculations and edits of a small sheet of dynamic arrays.
CONSTANTS
  Width = 2
  Height = 3
  Cap = 1
  Workbooks <- MCWorkbooks
  Menu <- MCMenu
  Programs <- MCPrograms
  FullPlanOf <- MCFullPlanOf
  Typable <- MCTypable
  Blank = Blank
  Absent = Absent
  SpillError = SpillError
  UnsupportedError = UnsupportedError
  ValueError = ValueError
  NoOwner = NoOwner
  NoSnapshot = NoSnapshot
SPECIFICATION Spec
INVARIANTS
  OwnershipExact
  LiteralsSafe
  FreshOrRefused
PROPERTY CallsReturn
