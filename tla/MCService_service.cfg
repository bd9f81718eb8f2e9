\* Three known dimensions, one unknown, two workers and a pool of two readers.
SPECIFICATION ServiceSpec
CONSTANTS
  k1 = k1
  k2 = k2
  k3 = k3
  none = none
  main = main
  w1 = w1
  w2 = w2
  Key = {k1, k2, k3, none}
  Known = {k1, k2, k3}
  Caller = {main, w1, w2}
  Main = main
  MaxOpenHandles = 2
  MaxUses = 8
  MaxRequests = 2
  PrewarmLists <- MCPrewarm
  Requests <- MCRequests
  None = None
  DimensionNotFound = DimensionNotFound
  OpenFailed = OpenFailed
INVARIANTS
  ServiceTypeOK
  PrewarmAnswerHolds
PROPERTIES
  PrewarmedBeforeListening
  RequestsEnd
  StartEnds
  
