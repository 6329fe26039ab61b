CONSTANTS
  Market = {1}
  w1 = w1
  w2 = w2
  Writer = {w1, w2}
  Retainer = {"retention"}
  Legacy <- MCLegacy
  Severities = {0, 1}
  Cooldown = 1
  CutoffAge = 0
  BatchSize = 1
  MaxBatches = 2
  MaxRow = 2
  MaxQuote = 2
  MaxTime = 1
  Absent = Absent
  Facts <- MCFacts
  SportsCategory = {"sports"}
  Limits = {1, 5}
  CandidateLimit = 7
  Sample = 3
  Histories <- MCHistories
  MaxMove = 2
  Jobs <- MCJobs
  ZeroIsFine = {}
  StaleAfter <- MCStaleAfter
  Measured = {"healthy"}
  MaxCount = 1
  LastTime = 2
  MaxJobs = 1
  Thread = {"t1", "t2"}
  Servers = {"api"}
  ProcessOf <- MCProcessOf
  Limit = 1
  Window = 1
  MaxKeys = 1
  LimiterTime = 1
  MaxRequests = 4
  MaxUpset = 1
  Caller = {"request", "refresh"}
  Home <- MCHome
  Forced = {"refresh"}
  Ttl = 4
  Second = 2
  MaxTaken = 1
  MaxClock = 8
  NoPayload = NoPayload
  Markets = 2
  Articles = 2
  Early = {{2}}
  Batch = 1
  CutOff = {Absent, 1}
  Results = 2
  Scopes = {"all", "news"}
  Hits <- MCHits
  Direct <- MCDirect
  Profile <- MCProfile
  Link <- MCLink
  Telling = {2}
  Spellings <- MCSpellings
  Lower <- MCLower
  Closes = {2}
  Dates <- MCDates
  NoDay = NoDay
  Zones <- MCZones
  StaleHours = 5
  LastHour = 4
SPECIFICATION MCSpec
SYMMETRY Symmetry
INVARIANTS
  CountersCover
  RolledUpOnce
  BoardComplete
  ListFills
  HealthHonest
  FoundSinceRebuild
  ScopesAgree
  NoFalseRefusal
  LimitHolds
  PayloadAge
