CONSTANTS
  a = a
  b = b
  NoRow = NoRow
  Market = {a, b}
  Verdicts <- MCVerdicts
  ByTicker <- MCByTicker
  ByTitle <- MCByTitle
  ByItem <- MCByItem
  ExcludedCats = {"exotic_combo"}
  ExcludedPriors = {"very_low"}
  Timed = {a}
  Known = {a, b}
  Gaps <- MCGaps
  ScriptMax = 1
  BatchSize = 2
  HydrateMax = 1
  RefreshMax = 1
  PruneMax = 1
  MaxTape = 1
  MaxRows = 3
  MaxUpset = 1
SPECIFICATION MCSpec
PROPERTIES
  HydratedStays
  StubsHydrated
  SettledNoticed
