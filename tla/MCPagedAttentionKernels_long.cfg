CONSTANTS
  WarpSize = 2
  WarpsPerBlock = 2
  MaxSeqLen = 5
  SeqLens = {6}
  LayerId = 1
  NumBlocks = 5
  BlockSize = 2
  NumQueryHeads = 4
  NumKVHeads = 2
  HeadDim = 3
  BlockTables <- Tables
  Kernels = {"v9a"}
  SingleSeqLens = {1, 3, 4}
  SingleMaxSeqLen = 4
SPECIFICATION MCSpec
INVARIANTS
  OutputWritten
