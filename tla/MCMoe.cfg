CONSTANTS
  NumExperts = 3
  TopK = 2
  TokenCounts = {1, 2}
  ScoreTables <- MCScores
  MaxCalls = 2
  Stale = Stale
SPECIFICATION MoeSpec
INVARIANTS MoeTypeOK SlotsFilledOnce OwnEntriesOnly CombinedAsOnCpu
CHECK_DEADLOCK FALSE
