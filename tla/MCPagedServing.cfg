CONSTANTS
  Requests = {r1, r2, r3}
  NoRequest = NoRequest
  Unlimited = Unlimited
  Shapes <- PagedShapes
  TotalBlocks = 5
  BlockSize = 2
  MaxSlots = 3
  PrefillBudget = 2
  DecodeLimit = Unlimited
  EngineHasPrefillChunk = TRUE
  EngineMayFail = TRUE
  Layers = {0, 1}
SPECIFICATION ServingSpec
SYMMETRY Symmetry
INVARIANTS
  OneHomePerRequest
  SlotsOwnTables
  TablesCoverTokens
  BlockTableCopiesValid
  ComputedTokensAgree
  CountersBalance
  AddressesExist
PROPERTIES
  EvictionHelpsOthers
  ImplementsContract
  AttentionReadsOwnTokens
  ImplementsPrivateCaches
