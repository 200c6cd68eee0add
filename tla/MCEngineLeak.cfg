CONSTANTS
  NumBlocks = 3
  BlockSize = 2
  Threads = {t1}
  NoThread = NoThread
  MaxRequests = 2
  PromptLens = {0, 1, 3}
  MaxNews = {1, 2}
  MaxGen = 2
  MaxNumSeqs = 2
  MaxTotalTokens = 6
  OwnSizes = {1, 2, 3}
SPECIFICATION EngineSpec
INVARIANT NoLeak
