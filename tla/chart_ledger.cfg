CONSTANTS
  o1 = o1
  o2 = o2
  o3 = o3
  c1 = c1
  c2 = c2
  Nobody = Nobody
  Obs = {o1, o2, o3}
  QuoteObs = {o1, o2}
  Market = {1, 2}
  MarketOf <- MCMarketOf
  Interval = {1, 2, 3}
  Width <- MCWidth
  Policies <- MCPolicies
  MaxLag = 1
  MaxMarkets = 1
  MaxRows = 1
  Compactor = {c1, c2}
  MaxTime = 3
  MaxAbort = 1
  Ticked = {"m"}
  Offer = {"p", "none"}
  NoQuote = "none"
  Absent = Nobody
  Kept = {"p"}
  Gate = 2
  MinGap = 2
  Heartbeat = 3
  Fresh = 3
  BucketWidth = 3
  MaxTxn = 1
  MaxMinute = 3
  MaxFail = 1
  FineWidth = 2
  WideTime = 5
  Price = {0, 2}
  Bid <- MCBid
  MaxObs = 3
SPECIFICATION MCSpec
SYMMETRY Symmetry
INVARIANTS
  CountedOnce
  ReadComplete
  CompactionFaithful
PROPERTIES
  QuoteFollows
  HoleBounded
CHECK_DEADLOCK FALSE
