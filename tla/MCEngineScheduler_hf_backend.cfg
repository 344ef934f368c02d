CONSTANTS
  Requests = {r1, r2}
  NoRequest = NoRequest
  Unlimited = Unlimited
  Shapes <- PressureShapes
  TotalBlocks = 4
  BlockSize = 1
  MaxSlots = 2
  PrefillBudget = Unlimited
  DecodeLimit = Unlimited
  EngineHasPrefillChunk = FALSE
  EngineMayFail = FALSE
SPECIFICATION Spec
SYMMETRY Symmetry
INVARIANTS
  EndedRequestsFinished
