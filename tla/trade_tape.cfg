CONSTANTS
  t1 = t1
  t2 = t2
  b1 = b1
  home = home
  w1 = w1
  w2 = w2
  Worker = {w1, w2}
  Market = {home}
  Trade = {t1, t2}
  Book = {b1}
  Row = {t1, t2, b1}
  Table = {"trades", "l2"}
  TableOf <- MCTableOf
  MarketOf <- MCMarketOf
  Class <- MCClass
  Hashed = {t1}
  Levels <- MCLevels
  Backends = {"postgres", "clickhouse", "dual"}
  MaxRows = 2
  QueueSize = 1
  MaxDeliver <- MCMaxDeliver
  MaxUpset = 1
SPECIFICATION Spec
INVARIANTS
  RowAccounted
  TradeCountedOnce
  OfferedOnce
  SeenMarketsKnown
CHECK_DEADLOCK FALSE
PROPERTIES
  ImplementsSink
SYMMETRY Workers
