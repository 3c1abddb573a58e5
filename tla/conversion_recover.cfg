\* One job of two files, up to two killed workers, dropped connections, lost
\* replies and redeliveries.
SPECIFICATION FairSpec
CONSTANTS
  j1 = j1  f1 = f1  f2 = f2  w1 = w1  w2 = w2
  Job = {j1}
  File = {f1, f2}
  JobOf <- OneJob
  Escaping = {}
  ExportJob = {}
  Worker = {w1, w2}
  MaxRetries = 2
  FaultKind <- DelayingFaults
  MaxFaults = 2
  None = None
INVARIANTS
  NoStrandedFile
PROPERTIES
  EverySettles
\* The system stops when every job is decided, forgotten or deleted.
CHECK_DEADLOCK FALSE
