SPECIFICATION Spec
CONSTANTS
  GhostCount = 1
  MaxRows = 2
  MaxCols = 2
  LineMax = 4
  IntMax = 127
  LongMax = 255
  CallsMayFail = TRUE
  Cases <- MCCases
INVARIANTS AcceptsWellFormed StartsAsWritten ChildrenFollowFiles
