\* The limits of the source, in their order: 300 s, 360 s, 300 s, 900 s.
SPECIFICATION Spec
CONSTANTS
  Inputs <- MCInputs
  Texts <- MCTexts
  MaxSize = 3
  SmallInput = 2
  SmallOutput = 2
  Structure = 3
  Soft = 2
  Hard = 3
  ToolLimit = 2
  OcrLimit = 4
INVARIANT
  OwnLimitFirst
\* An attempt that has ended stays as it is.
CHECK_DEADLOCK FALSE
