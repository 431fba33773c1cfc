SPECIFICATION Spec
CONSTANTS
  Sigs <- MCSigs
  Pairs <- MCPairs
  Keys <- MCKeys
  Widths = {0, 1, 2}
CHECK_DEADLOCK FALSE
INVARIANTS
  RsSurvives
  ReadsItsOwn
PROPERTIES
  ToRsIsExact
  FromRsIsMinimal
  PointIsExact
