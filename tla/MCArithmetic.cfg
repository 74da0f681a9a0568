SPECIFICATION FairSpec
CONSTANTS
  MinInt <- MCMinInt
  MaxInt <- MCMaxInt
  MaxCheckpointFetchParallelism = 8
  MaxTransactionHydrationWorkers = 10
  CheckpointFetchBatchSize = 2
  ProcessingChunkSize = 4
  CheckpointBatchSize = 2
  Tip = 11
  Environments <- MCEnvironments
INVARIANTS
  FetchedInOrder
  PoolsSized
PROPERTIES
  ChunkBounded
  RunEndsRightly
CHECK_DEADLOCK FALSE
