CONSTANTS
  Depth = 3
  Data = {d1, d2}
  NoData = NoData
  AddrW = 2
  SdData = {d1}
  AsyncDepth = 4
  REQ_MIN_HOLD = 8
  AsyncScenarios <- HeldScenarios
SPECIFICATION LiveSpec
INVARIANTS SampleOrder AsyncIntact
PROPERTIES ImplementsFifo SdImplementsPointers  AsyncResetEnds
