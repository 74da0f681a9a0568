SPECIFICATION Spec
CONSTANTS
  MaxJobs = 2
  Requests <- MCRequests
  ProcessingChunkSize = 1
  ReportCap = 3
  Doomed = {}
  MaxFaults = 0
  MaxFailures = 0
  MaxRetries = 0
  MaxStops = 0
INVARIANT ReplayBoundedByChunk
