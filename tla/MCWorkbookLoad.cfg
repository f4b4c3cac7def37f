CONSTANTS
  Packages <- MCPackages
  MaxParts = 5
  MaxSingle = 3
  MaxTotal = 6
  MaxRatio = 2
  None = None
SPECIFICATION Spec
INVARIANTS CapsBound NamesKeepSheets
CHECK_DEADLOCK FALSE
