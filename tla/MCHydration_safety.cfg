SPECIFICATION Spec
CONSTANTS
  h1 = h1
  h2 = h2
  Hydrators <- MCHydrators
  Batch <- MCBatch
  Malformed <- MCMalformed
  Size <- MCSize
  Limit = 1
  BatchSize = 3
  BatchSlots = 1
  GrpcSlots = 2
  MaxAttempts = 2
  MaxFaults = 2
INVARIANTS
  TypeOK
  SlotsAccounted
  NothingSkipped
  GapsOnRecord
  BadDataKeepsJobAlive
  CallsBounded
PROPERTY ImplementsHydration
