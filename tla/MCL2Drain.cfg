CONSTANTS
  VictimSlots = 2  BypassSlots = 2
  Entries = {0, 1}
  FillBeats = 2
  DrainFloor = 1
  WalkLen = 1
  None = None
  Scenarios <- FillLoads
SPECIFICATION LiveSpec
PROPERTY DrainEnds
