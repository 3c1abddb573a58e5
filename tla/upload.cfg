\* Two requests, chunks of two bytes, files of four, jobs of seven; two errors.
SPECIFICATION UFairSpec
CONSTANTS
  Request = {q1, q2}
  Payload <- SmallPayloads
  Target = {"markdown", "docx", "odt"}
  Chunk = 2
  MaxFileSize = 4
  MaxJobSize = 7
  MaxFiles = 2
  MaxErrors = 2
INVARIANTS
  StagedIsAccountedFor
  AcceptedJobsFit
  UInv
PROPERTIES
  EveryRequestIsAnswered
\* The system stops when every request is answered.
CHECK_DEADLOCK FALSE
