CONSTANTS
  t1 = t1
  t2 = t2
  Trade = {t1, t2}
  Market = {1}
  MarketOf <- MCMarketOf
  Days <- MCLongDays
  Promoted = {2}
  Interval = {1, 2}
  Covering = {1}
  Policies <- MCPolicies
  DeleteFlagged = FALSE
  BatchSize = 1
  MaxBatches = 1
  ScanAge = 3
  ScanTime = 1
  MaxLag = 0
  MaxVersion = 1
  MaxTime = 3
  MaxAbort = 0
SPECIFICATION Spec
INVARIANT EvidenceLeft
