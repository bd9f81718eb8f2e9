SPECIFICATION VerifySpec
CONSTANTS
  U16 = 16
  U32 = 128
  MaxActions = 2
  HandCount = 3
  Step = 3
  Infinite = 99
  Dims <- MCDims
  Sources <- MCSources
  Plans <- MCPlans
  Limits = {NoLimit, 0, 1}
  NoLimit = NoLimit
  Commands <- MCCommands
  ReportCap = 2
  Tolerance = 1
INVARIANTS
  IndexDescribesBin
  BuiltStoreHasLines
  BuiltStoreAnswersSource
  BuiltStoreVerifies
  VerifiedStoreIsServable
  VerifiedStoreAnswersSource
  CrossKeepsVerdict
  FindIsSearch
  DecodersAgree
CHECK_DEADLOCK FALSE
