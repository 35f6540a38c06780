SPECIFICATION FairSpec
CONSTANTS
  Fields = {"height", "other"}
  MaxHeight = 3
  MaxFilters = 2
  BlockMax = 1
INVARIANTS RangeWithinChain NoneCutOff
PROPERTY HeightQueriesAnswered
CHECK_DEADLOCK FALSE
