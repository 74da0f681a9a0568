SPECIFICATION FairSpec
CONSTANTS
  RowCount <- MCRowCount
  InsertBatchSize = 2
  MaxRetries = 2
  MaxRuns = 3
  MaxCutOff = 2
INVARIANTS
  TypeOK
  DuplicatesAccounted
PROPERTIES
  ImplementsInsert
  WriteEnds
CHECK_DEADLOCK FALSE
