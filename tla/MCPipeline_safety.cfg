SPECIFICATION Spec
CONSTANTS
  From = 1
  To = 4
  f1 = f1
  f2 = f2
  h1 = h1
  h2 = h2
  Fetchers <- MCFetchers
  Hydrators <- MCHydrators
  FetchBatchSize = 3
  HydrationBatchSize = 2
  WriteBatchSize = 2
  Digests <- MCDigests
SYMMETRY PoolSymmetry
INVARIANTS
  TypeOK
  NilMeansWritten
  NothingLost
  BatchesFit
  TablesInOrder
PROPERTY ImplementsChunk
