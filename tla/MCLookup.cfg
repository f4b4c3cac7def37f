CONSTANTS
  LastCell = 4
  KeyInputs <- MCKeyInputs
  ResultInputs <- MCResultInputs
  NumericText <- MCNumericText
  Globs <- MCGlobs
  Structural = {5}
  NonAscii = {6}
  Keys <- MCKeys
  Criteria <- MCCriteria
  OtherCriteria <- MCOtherCriteria
  KeyLabel = 2
  ResultLabel = 3
  MaxElems = 8
  Readings <- MCReadings
SPECIFICATION Spec
INVARIANTS
  WholeLineAgrees
  ApproximateFindsFloor
  TwinsAgree
  ArraysCompose
  AggregatesAgree
  DaysAddUp
