CONSTANTS
  Requests = {r1, r2, r3}
  NoRequest = NoRequest
  Unlimited = Unlimited
  Shapes <- PressureShapes
  TotalBlocks = 5
  BlockSize = 1
  MaxSlots = 2
  PrefillBudget = 1
  DecodeLimit = Unlimited
  EngineHasPrefillChunk = TRUE
  EngineMayFail = FALSE
SPECIFICATION Spec
PROPERTIES
  EvictionBreaksDeadlock
