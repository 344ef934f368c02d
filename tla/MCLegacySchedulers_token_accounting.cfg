CONSTANTS
  Requests = {r1, r2, r3}
  NoRequest = NoRequest
  Shapes <- FourTokens
  TotalBlocks = 3
  BlockSize = 3
  MaxSlots = 2
  StaticShapes <- ShortAndLong
  MaxBatchSize = 2
  EngineBlocks = 6
  EngineBlockSize = 2
  EnginePrompt = 3
  EngineTokens = 3
  RunnerMayFail = FALSE
SPECIFICATION MCSpec
INVARIANT
  TokensMatchRequestedLength
