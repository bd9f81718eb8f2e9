\* docs/docker-deployment-guide.md:172, with --resume only.
SPECIFICATION Spec
CONSTANTS
  s1 = s1
  s2 = s2
  a = a
  b = b
  c = c
  Malformed = Malformed
  Absent = Absent
  Torn = Torn
  NoLimit = NoLimit
  Dim <- MCDim
  Sum = {s1}
  Schema = {a, b, c}
  Rows <- OneSource
  Selections <- BothDims
  Limits = {NoLimit}
  Modes = {"resume"}
  MaxCrashes = 1
INVARIANT InterruptedBuildContinues
