\* No fault; a job is deleted while it is converted.
SPECIFICATION Spec
CONSTANTS
  j1 = j1  f1 = f1  f2 = f2  w1 = w1  w2 = w2
  Job = {j1}
  File = {f1}
  JobOf <- OneFile
  Escaping = {}
  ExportJob = {}
  Worker = {w1, w2}
  MaxRetries = 3
  FaultKind = {}
  MaxFaults = 0
  None = None
INVARIANTS
  DeleteWipesDisk
\* The system stops when every job is decided, forgotten or deleted.
CHECK_DEADLOCK FALSE
