SPECIFICATION FairSpec
CONSTANTS
  From = 1
  To = 4
  f1 = f1
  f2 = f2
  h1 = h1
  h2 = h2
  Fetchers <- MCFetcher
  Hydrators <- MCHydrators
  FetchBatchSize = 1
  HydrationBatchSize = 2
  WriteBatchSize = 2
  Digests <- MCDigests
PROPERTY EverythingReturns
