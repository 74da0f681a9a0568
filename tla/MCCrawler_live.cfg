SPECIFICATION FairSpec
CONSTANTS
  MaxJobs = 2
  Requests <- MCRequests
  ProcessingChunkSize = 2
  ReportCap = 1
  Doomed = {}
  MaxFaults = 1
  MaxFailures = 1
  MaxRetries = 1
  MaxStops = 1
PROPERTIES
  PendingJobsComplete
  WorkerIsFreed
