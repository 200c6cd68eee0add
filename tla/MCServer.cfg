CONSTANTS
  NumBlocks = 2
  BlockSize = 2
  Threads = {t1, t2}
  NoThread = NoThread
  MaxRequests = 2
  PromptLens = {2}
  MaxNews = {1, 2}
  MaxGen = 4
  MaxNumSeqs = 2
  MaxTotalTokens = 6
  OwnSizes = {1, 2, 3}
SPECIFICATION TracedSpec
SYMMETRY ClientSymmetry
INVARIANTS ServerTypeOK NoTokenTwice AnsweredIsFinished
PROPERTY UsesSchedulerProperly
CHECK_DEADLOCK FALSE
