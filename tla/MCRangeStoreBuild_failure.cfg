\* docs/release-report-v1.1.0.md:433, without kills.
SPECIFICATION Spec
CONSTANTS
  s1 = s1
  s2 = s2
  a = a
  b = b
  c = c
  Malformed = Malformed
  Absent = Absent
  Torn = Torn
  NoLimit = NoLimit
  Dim <- MCDim
  Sum = {s1}
  Schema = {a, b, c}
  Rows <- BadSource
  Selections <- BothDims
  Limits = {NoLimit}
  Modes = {"resume"}
  MaxCrashes = 0
INVARIANT FailureIsPerDimension
