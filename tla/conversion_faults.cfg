\* One job of two files, two slots, any two faults of every kind.
SPECIFICATION Spec
CONSTANTS
  j1 = j1  f1 = f1  f2 = f2  w1 = w1  w2 = w2
  Job = {j1}
  File = {f1, f2}
  JobOf <- OneJob
  Escaping = {}
  ExportJob = {}
  Worker = {w1, w2}
  MaxRetries = 1
  FaultKind <- EveryFault
  MaxFaults = 2
  None = None
SYMMETRY WorkerSymmetry
INVARIANTS
  StatusMatchesTally
  RowsPointAtDisk
  CounterCoversFinals
  IInv
  DiskAccountedFor
\* The system stops when every job is decided, forgotten or deleted.
CHECK_DEADLOCK FALSE
