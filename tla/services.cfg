CONSTANTS
  NoRow = NoRow
  Market = {"m1", "m2"}
  Article = {"a1", "a2"}
  Story <- MCStory
  Rank <- MCRank
  Links <- NewsLinks
  Weak <- MCWeak
  MaxMarkets = 1
  MaxProfiles = 2
  MaxEvents = 1
  BatchSize = 1
  CheckLimit = 1
  Scores = {0, 8}
  MaxRevision = 3
  MaxUpset = 1
  Nobody = Nobody
  trade = trade
  book = book
  None = None
  MaxTrades = 8
  Tapes <- MCTapes
  Surroundings <- MCSurroundings
SPECIFICATION MCSpec
INVARIANTS
  StrongHasCase
  SmallBetsQuiet
  ClustersRaise
PROPERTIES
  CandidatesScored
  ProfilesFollow
  OldRowsCompacted
  RowsHandedIn
  Restarted
  StopsAll
CHECK_DEADLOCK FALSE
