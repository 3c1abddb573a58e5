\* An export job of three files and an import job of one; the third file's
\* stored path leaves data_dir, the second one's output may vanish.
SPECIFICATION FairSpec
CONSTANTS
  j1 = j1
  j2 = j2
  a1 = a1
  a2 = a2
  a3 = a3
  b = b
  Job <- MCJob
  File <- MCFile
  JobOf <- MCJobOf
  Stem <- MCStem
  ExportJob = {j1}
  Tampered = {a3}
  Fragile = {a2}
  Limit = 2
  PageSize = 1
  Starts = 3
  Selections = 2
INVARIANTS
  SvTypeOK
  SeenIsServable
  ArchiveIsWhole
  FinalViewHolds
  GoneStaysGone
  HistoryErrsByWhatMoved
  PreviewIsSelected
PROPERTY
  PollingCatchesUp
\* Nobody has to upload, and a reader may have seen enough.
CHECK_DEADLOCK FALSE
