CONSTANTS
  NumBlocks = 2
  BlockSize = 2
  Threads = {t1, t2}
  NoThread = NoThread
  MaxRequests = 3
  PromptLens = {0, 2}
  MaxNews = {1}
  MaxGen = 1
  MaxNumSeqs = 2
  MaxTotalTokens = 4
  OwnSizes = {1, 2}
SPECIFICATION SchedSpec
SYMMETRY ThreadSymmetry
INVARIANTS SchedTypeOK BlockOwnership NoRequestLost BatchWithinLimits
PROPERTY QueueOrderKept
