CONSTANTS
  BlkBytes = 2
  BLOCKS_PER_WAY = 2
  LbaSpace = 4
  WdogMax = 1
  Scenarios <- CacheScenarios
  None = None
SPECIFICATION Spec
INVARIANTS ServedFresh ServedInOrder GoodMeansAll ValidMeansCurrent
