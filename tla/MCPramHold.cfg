SPECIFICATION Spec
CONSTANTS
  ResetByte = 0
  PramLen = 2
  DefaultByte = 0
  NoWrite = NoWrite
  ArbWait = 3
  CdcWait = 24
  DefaultHold = 16
  RatioMin = 1
  RatioMax = 2
  HoldMax = 70
  Junk = 9
  Scenarios <- SlowBoot

INVARIANT CpuWaitsForLoad
CHECK_DEADLOCK FALSE
