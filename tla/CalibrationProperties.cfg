SPECIFICATION Spec
CONSTANTS
  NumComponents = 3
  MaxRuns = 2
  MaxGaps = 2
INVARIANTS
  RequiredTablesLoaded
  NothingStale
  ReadsInBounds
  OwnConstants
CHECK_DEADLOCK FALSE
