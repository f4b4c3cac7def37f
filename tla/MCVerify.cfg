\* One run of recalc verify on workbooks of up to two formula cells.
CONSTANTS
  Sweeps <- MCSweeps
  None = None
SPECIFICATION Spec
INVARIANTS
  DecisionIsSound
  ReportExplains
