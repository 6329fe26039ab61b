CONSTANTS
  m1 = m1
  m2 = m2
  w1 = w1
  w2 = w2
  Market = {m1, m2}
  Worker = {w1, w2}
  QueueSize = 2
  FlushPercent = 80
  Coalesce = TRUE
  BatchWrites = FALSE
  MaxTick = 1
  MaxEvent = 2
  MaxCrash = 0
SPECIFICATION FairSpec
INVARIANTS
  ExactlyOnePlace
PROPERTY ShutdownTerminates
