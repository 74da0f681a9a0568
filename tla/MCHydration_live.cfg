SPECIFICATION FairSpec
CONSTANTS
  h1 = h1
  h2 = h2
  Hydrators <- MCHydrators
  Batch <- MCBatch
  Malformed <- MCMalformed
  Size <- MCBig
  Limit = 1
  BatchSize = 3
  BatchSlots = 2
  GrpcSlots = 1
  MaxAttempts = 2
  MaxFaults = 1
PROPERTY EveryBatchEnds
