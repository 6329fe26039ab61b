CONSTANTS
  m1 = m1
  m2 = m2
  w1 = w1
  Market = {m1, m2}
  Worker = {w1}
  QueueSize = 2
  FlushPercent = 80
  Coalesce = TRUE
  BatchWrites = TRUE
  MaxTick = 2
  MaxEvent = 2
  MaxCrash = 1
SPECIFICATION Spec
SYMMETRY Symmetry
INVARIANTS
  PipelineInv
  TicksDrained
PROPERTY ImplementsChannel
