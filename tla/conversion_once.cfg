\* An export job of two files, two slots, any three faults, but none that
\* delivers a message twice.
SPECIFICATION Spec
CONSTANTS
  j1 = j1  f1 = f1  f2 = f2  w1 = w1  w2 = w2
  Job = {j1}
  File = {f1, f2}
  JobOf <- OneJob
  Escaping = {}
  ExportJob = {j1}
  Worker = {w1, w2}
  MaxRetries = 1
  FaultKind <- OnceFaults
  MaxFaults = 3
  None = None
INVARIANTS
  ProcessedIsExact
PROPERTIES
  TerminalIsStable
  KeepsContract
\* The system stops when every job is decided, forgotten or deleted.
CHECK_DEADLOCK FALSE
