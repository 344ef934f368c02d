CONSTANTS
  Requests = {r1, r2, r3}
  TotalBlocks = 5
  BlockSize = 2
  MaxTokens = 7
SPECIFICATION Spec
SYMMETRY Symmetry
INVARIANTS
  TypeOK
  BlocksPartitioned
PROPERTIES
  LogicalBlocksStable
  ImplementsOwnership
