\* Two files: an unexpected exception in one, a stored path that leaves DATA_DIR
\* for the other.
SPECIFICATION Spec
CONSTANTS
  j1 = j1  f1 = f1  f2 = f2  w1 = w1  w2 = w2
  Job = {j1}
  File = {f1, f2}
  JobOf <- OneJob
  Escaping = {f2}
  ExportJob = {}
  Worker = {w1, w2}
  MaxRetries = 3
  FaultKind = {"unhandled"}
  MaxFaults = 1
  None = None
INVARIANTS
  FailureIsRecorded
\* The system stops when every job is decided, forgotten or deleted.
CHECK_DEADLOCK FALSE
