\* One job, executed twice at once, under two concurrent requests.
SPECIFICATION Spec
CONSTANTS
  j1 = j1  j2 = j2  e1 = e1  e2 = e2  r1 = r1  r2 = r2  NoJob = NoJob
  Jobs = {j1}  Execs = {e1, e2}  Requests = {r1, r2}
  Priority <- MCPriority  Estimates = {"LOW", "HIGH"}
  WorkerConcurrency = 2  MaxRetries = 2  MaxCrashes = 0
SYMMETRY ExecRequestSymmetry
INVARIANTS NoSilentOrphan WorkspaceMutex AskedOnce HumanGate
