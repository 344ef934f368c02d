CONSTANTS
  Requests = {r1, r2}
  NoRequest = NoRequest
  Unlimited = Unlimited
  Shapes <- OneShape
  TotalBlocks = 4
  BlockSize = 1
  MaxSlots = 2
  PrefillBudget = Unlimited
  DecodeLimit = Unlimited
  EngineHasPrefillChunk = TRUE
  EngineMayFail = FALSE
  Workers = {w1, w2}
  Endpoints = {"health", "metrics_json"}
SPECIFICATION ServerSpec
INVARIANTS
  ReportsAgree
PROPERTY
  SnapshotsWhole
SYMMETRY ServerSymmetry
