CONSTANTS
  t1 = t1
  t2 = t2
  Trade = {t1, t2}
  Market = {1}
  MarketOf <- MCMarketOf
  Days <- MCDays
  Promoted = {2}
  Interval = {1, 2}
  Covering = {1}
  Policies <- MCPolicies
  DeleteFlagged = TRUE
  BatchSize = 1
  MaxBatches = 1
  ScanAge = 0
  ScanTime = 0
  MaxLag = 0
  MaxVersion = 2
  MaxTime = 2
  MaxAbort = 1
SPECIFICATION FairSpec
INVARIANTS
  EvidenceLeft
  ChartKept
PROPERTY TapePruned
