SPECIFICATION LiveSpec
CONSTANTS
  TAIL_DEPTH = 1
  MaxBeats = 2
  SinkMod = 4
  SlaveCap = 3
  Depth = 2
  Scenarios <- BridgeScenarios
  None = None
INVARIANTS DebtExact PadExact ExactlyStaleSunk PairingKept FillerOnlyForAbandoned
PROPERTY SlaveDrains
CHECK_DEADLOCK FALSE
