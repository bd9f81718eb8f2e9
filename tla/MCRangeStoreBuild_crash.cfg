\* Kills, restarts in every mode until a store is published, two sources and two
\* limits.
SPECIFICATION FairSpec
CONSTANTS
  s1 = s1
  s2 = s2
  a = a
  b = b
  c = c
  Malformed = Malformed
  Absent = Absent
  Torn = Torn
  NoLimit = NoLimit
  Dim <- MCDim
  Sum = {s1, s2}
  Schema = {a, b, c}
  Rows <- TwoSources
  Selections <- AllSelections
  Limits = {NoLimit, 1}
  Modes = {"plain", "resume", "overwrite"}
  MaxCrashes = 2
INVARIANTS
  TypeOK
  BuildInv
  PublishedStoreIntact
  SurvivorsArePublished
  IndexedSchemasCommitted
  ResumedStoreIsFresh
PROPERTIES
  CompletedIsKept
  AlwaysPublishedAgain
