CONSTANTS
  NumBlocks = 3
  BlockSize = 2
  Threads = {t1}
  NoThread = NoThread
  MaxRequests = 2
  PromptLens = {1, 3}
  MaxNews = {3}
  MaxGen = 3
  MaxNumSeqs = 2
  MaxTotalTokens = 6
  OwnSizes = {1, 2, 3}
SPECIFICATION EngineSpec
INVARIANT PreemptionRestores
