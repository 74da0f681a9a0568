SPECIFICATION FairSpec
CONSTANTS
  MaxJobs = 2
  Requests <- MCRequests
  ProcessingChunkSize = 2
  ReportCap = 1
  Doomed = {2}
  MaxFaults = 0
  MaxFailures = 1
  MaxRetries = 2
  MaxStops = 1
PROPERTY PendingJobsComplete
