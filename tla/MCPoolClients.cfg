CONSTANTS
  NumBlocks = 3
  BlockSize = 1
  Clients = {c1, c2}
  MaxHandles = 2
SPECIFICATION HolderSpec
SYMMETRY ClientSymmetry
INVARIANTS PoolTypeOK CountsAreExact
PROPERTY SharedDataSurvives
