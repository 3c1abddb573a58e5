\* One job of two files, each message once; one retry; a client polls.
SPECIFICATION LFairSpec
CONSTANTS
  j1 = j1  f1 = f1  f2 = f2  r1 = r1  r2 = r2
  Job = {j1}
  File = {f1, f2}
  JobOf <- OneJob
  Run = {r1, r2}
  FileOf <- OnePerFile
  MaxRetries = 1
  Watched = {j1}
  Api = Api
  Nobody = Nobody
INVARIANTS
  TablesConsistent
  TerminalViewIsFinal
PROPERTIES
  MovesAtCommit
  EveryoneEnds
\* The system stops when every task has ended.
CHECK_DEADLOCK FALSE
