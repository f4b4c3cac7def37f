CONSTANTS
  MaxNesting = 4
  MaxCol = 3
  MaxRow = 3
  Alphabets <- MCAlphabets
  Offsets <- MCOffsets
SPECIFICATION Spec
INVARIANTS
  ParseIsTheTree
  DisplayReadsBack
  CopiesCompose
