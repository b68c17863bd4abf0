SPECIFICATION PartsSpec
CONSTANTS
  None = None
  Works <- MCWorks
  Requests <- MCRequests
  HitCounts = {0, 3, 5}
  Listable = 5
  Limits = {2, 3}
  ArchivePage = 2
  MaxPages = 2
  PerPage = 2
  Names = {"tei", "text", "front", "p", "head"}
  MaxTokens = 12
  MaxDepth = 4
  ReadLimits = {1, 4}
  MaxCalls = 4
  Records = {1, 2, 3, 4}
  Titled = {1, 2, 3}
  MaxRecords = 3
  AtOnce = 2
  Calls = {c1, c2}
  Hashes = {1, 2}
  Lists <- MCLists
  Workers = 2
  Slots = 1
  TTL = 1
  Capacity = 1
  MaxTime = 1
  MaxReads = 2
  Procs = {p1}
  Agents = {g1, g2}
  Hosts = {h1, h2}
  Saved <- MCSaved
  StaleAfter = 2
  MaxHold = 2
  SaveEvery = 3
  Skew = 1
  FirstMoment = 4
  LastMoment = 7
  Launchers = {l1, l2}
  MaxRelease = 2
  NoHost = NoHost
  Callers = {k1, k2}
  NoCaller = NoCaller
  BaseHold = 1
  FreshFor = 2
  CheckTimeout = 1
  SweepInterval = 2
  RetryAfters = {2}
INVARIANTS
  SelectionIsKept SourcesInOrder
  AnswersMatchFilters NextArgsLoseNothing
  TextIsReadOnce
  FirstMatchWins MissIsConclusive
  SlotsAreReturned ServesFreshStats
  FileCatchesUp
  OnlyVerifiedRuns CachedStarts
  AccountTroubleHoldsNobody
PROPERTY
  RequestsEnd
CHECK_DEADLOCK FALSE
