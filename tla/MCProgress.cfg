CONSTANTS
  L0 = L0  L1 = L1  L2 = L2  M0 = M0  M1 = M1
  Lines = {L0, L1, M0, M1}
  SetOf <- Indexed
  Quads = {1}
  Ways = {1}
  Entries = {1}
  ReplayN = 1
  TLine = L0
  TQuad = 1
  None = None
  Junk = Junk
  Slots = 1
  Scenarios <- LiveScenarios
  BlkBytes = 2
  BLOCKS_PER_WAY = 2
  LbaSpace = 4
  WdogMax = 1
  VhddScenarios <- VhddLoads
SPECIFICATION ProgressSpec
PROPERTIES PushNotLost EveryMissFreed S2Resolves EveryRequestEnds
