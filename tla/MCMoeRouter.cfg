CONSTANTS
  NumExperts = 3
  TopK = 2
  TokenCounts = {1, 2}
  ScoreTables <- MCScores
  MaxCalls = 2
  Stale = Stale
SPECIFICATION MoeSpec
INVARIANT PicksAreTopK
CHECK_DEADLOCK FALSE
