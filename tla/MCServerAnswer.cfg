CONSTANTS
  NumBlocks = 3
  BlockSize = 2
  Threads = {t1}
  NoThread = NoThread
  MaxRequests = 1
  PromptLens = {1}
  MaxNews = {2}
  MaxGen = 4
  MaxNumSeqs = 2
  MaxTotalTokens = 6
  OwnSizes = {1, 2, 3}
SPECIFICATION FairTracedSpec
PROPERTY CompletionAnswered
CHECK_DEADLOCK FALSE
