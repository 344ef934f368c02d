CONSTANTS
  Requests = {r1, r2, r3}
  NoRequest = NoRequest
  Unlimited = Unlimited
  Shapes <- OversizedShapes
  TotalBlocks = 4
  BlockSize = 1
  MaxSlots = 2
  PrefillBudget = 2
  DecodeLimit = 1
  EngineHasPrefillChunk = TRUE
  EngineMayFail = TRUE
SPECIFICATION FairSpec
PROPERTIES
  FittingRequestsEnd
  NobodyWhoFitsIsPassed
