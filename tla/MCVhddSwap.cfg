CONSTANTS
  BlkBytes = 1
  BLOCKS_PER_WAY = 2
  LbaSpace = 6
  WdogMax = 1
  Scenarios <- SwapScenarios
  None = None
SPECIFICATION Spec
INVARIANT ServedFresh
