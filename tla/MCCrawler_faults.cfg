SPECIFICATION Spec
CONSTANTS
  MaxJobs = 2
  Requests <- MCRequests
  ProcessingChunkSize = 2
  ReportCap = 2
  Doomed = {2}
  MaxFaults = 2
  MaxFailures = 1
  MaxRetries = 2
  MaxStops = 2
INVARIANTS
  TypeOK
  DurableProgress
  CompletedMeansIngested
  OneRunAtATime
  OrphansBoundedByFaults
  SnapshotIsCurrent
  DocumentsConsistent
  ProgressAccounted
  DataInv
PROPERTY
  ImplementsContract
