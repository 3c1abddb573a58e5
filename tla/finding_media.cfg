\* Two documents with an image each, converted once.
SPECIFICATION MSpec
CONSTANTS
  a = a  b = b  r1 = r1  r2 = r2  r3 = r3  i1 = i1  i2 = i2
  Doc = {a, b}
  Name = {i1, i2}
  Content <- Illustrated
  Run = {r1, r3}
  DocOf <- TwoOfOne
  NoFolder = NoFolder
INVARIANTS
  ReferencesResolve
\* The system stops when every conversion has ended.
CHECK_DEADLOCK FALSE
