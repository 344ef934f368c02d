CONSTANTS
  Requests = {r1, r2, r3}
  NoRequest = NoRequest
  Shapes <- LongAndShort
  TotalBlocks = 3
  BlockSize = 3
  MaxSlots = 2
  StaticShapes <- ShortAndLong
  MaxBatchSize = 2
  EngineBlocks = 6
  EngineBlockSize = 2
  EnginePrompt = 3
  EngineTokens = 3
  RunnerMayFail = TRUE
SPECIFICATION MCSpec
INVARIANTS
  SlotsOwnTables
  MetricsMeaningful
  StaticEndsOnce
  StaticBatchesMatchRequests
  EnginesAttendToExistingTokens
  EnginesServeAllTokens
PROPERTIES
  NoOvertaking
  EvictionNeeded
  ContinuousImplementsContract
  LegacyRequestsEnd
