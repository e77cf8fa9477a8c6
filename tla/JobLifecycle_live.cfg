\* One executor at a time, a retry and a worker that dies or shuts down.
SPECIFICATION FairSpec
CONSTANTS
  j1 = j1  j2 = j2  e1 = e1  e2 = e2  r1 = r1  r2 = r2  NoJob = NoJob
  Jobs = {j1}  Execs = {e1, e2}  Requests = {r1}
  Priority <- MCPriority  Estimates = {"LOW", "CRITICAL"}
  WorkerConcurrency = 1  MaxRetries = 1  MaxCrashes = 1
PROPERTIES QueueDrains
