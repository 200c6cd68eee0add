CONSTANTS
  NumBlocks = 12
  BlockSize = 2
  Threads = {main}
  Main = main
  NoThread = NoThread
  MaxRequests = 1
  PromptLens = {0, 1, 2, 3, 4}
  MaxNews = {0, 1, 2, 3, 4, 5}
  MaxGen = 5
  MaxNumSeqs = 1
  MaxTotalTokens = 7
  OwnSizes = {1, 2, 3, 4, 5}
SPECIFICATION RunnerSpec
INVARIANTS RunnerTypeOK PrintsEveryToken KvCoverage
PROPERTY RunnerStops
CHECK_DEADLOCK FALSE
