SPECIFICATION VerifySpec
CONSTANTS
  U16 = 16
  U32 = 128
  MaxActions = 2
  HandCount = 3
  Step = 3
  Infinite = 99
  Dims <- MCDims
  Sources <- MCSources
  Plans <- MCPlans
  Limits = {NoLimit, 1}
  NoLimit = NoLimit
  Commands <- MCCommands
  ReportCap = 2
  Tolerance = 1
INVARIANT FullCrossFindsExtraCells
CHECK_DEADLOCK FALSE
