CONSTANTS
  Slots = {0, 1}
  Slaves = {"S0", "S1", "S3"}
  BHoldMax = 1
  TailLen = 3
  FarLen = 2
  ResetLen = 2
  None = None
  Scenarios <- WriteLoads
  ReadHoldMax = 2
  ReadScenarios <- ReadLoads
  VictimSlots = 2  BypassSlots = 2
  Entries = {0, 1}
  FillBeats = 2
  DrainFloor = 1
  WalkLen = 1
  PortScenarios <- PortLoads
  Ring = 2
  LedgerMod = 8
  DoorCap = 3
  WGuardScenarios <- WGuardLoads
  CountMod = 8
  ReadCap = 3
  RGuardScenarios <- RGuardLoads
SPECIFICATION FabricSpec
INVARIANTS  XbarSlotsMatchSlaves  XbarLockMatchesOwner
INVARIANTS PortBFreesItsOwn PortWBelongsToBurst PortBypassInOrder PortReadFindsOwner GuardKeepsOrder
PROPERTIES XbarNoLostAnswer 
