\* Every kind of document, PDFs of up to 17 pages, HTML three and four deep.
\* The limits keep the order of the source: 300 s, 360 s, 300 s, 900 s.
SPECIFICATION FairSpec
CONSTANTS
  Inputs <- MCInputs
  Texts <- MCTexts
  MaxSize = 3
  SmallInput = 2
  SmallOutput = 2
  Structure = 3
  Soft = 2
  Hard = 3
  ToolLimit = 2
  OcrLimit = 4
INVARIANTS
  DoneIsWhole
  Leftovers
  LimitsAreRecorded
  RefusedOnlyByName
  ExitCodesTell
  SampledFairly
  OutlierNeverDecides
  RatingFollowsDamage
  WordsSurvive
  QuotesStayQuoted
PROPERTY
  EveryAttemptEnds
\* An attempt that has ended stays as it is.
CHECK_DEADLOCK FALSE
