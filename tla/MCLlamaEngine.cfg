CONSTANTS
  Unlimited = Unlimited
  NumHiddenLayers = 2
  NumAttentionHeads = 4
  NumKeyValueHeads = 2
  VocabSize = 5
  TotalBlocks = 6
  BlockSize = 2
  N = 2
  MaxNewTokens = 3
  EosTokenId = 4
  Prompts <- MCPrompts
  Budgets <- MCBudgets
  BlockTable <- MCBlockTable
SPECIFICATION Spec
CHECK_DEADLOCK FALSE
INVARIANTS
  GeneratesGreedily
  CachesHoldFullForward
  DecodePathsAgree
  PlansSpendTheBudget
