\* What requests and processes share: a directory with two Cache objects, the
\* pools of proxy clients, the Checker of robots.txt, two batches at a time with
\* two hosts and one adaptive pool.  Of one behaviour only one of them moves, so
\* that a model value can stand in each for its own.
SPECIFICATION PartSpec
CONSTANTS
  Caches = {c1, c2}
  Keys = {k1, k2}
  BodySizes = {1, 2}
  MaxSize = 3
  MaxPuts = 2
  MaxInterruptions = 0
  None = None
  Torn = Torn
  Users = {c1, c2}
  Proxies = {p1, p2, p3, p4}
  BadProxies = {p4}
  MaxProxySessions = 2
  MaxCreated = 4
  Agents <- RobotsAgents
  Token = "our"
  Specificity <- RobotsSpecificity
  Chars = {}
  Patterns = {}
  SitemapURLs = {}
  Checks = {q1, q2}
  Files <- RobotsFiles
  Paths <- RobotsPaths
  TTL = 2
  Timeout = 1
  MinPerHost = 1
  MaxPerHost = 2
  GrowAfter = 2
  ShrinkAfter = 2
  Batches = {c1, c2}
  Items = {i1, i2, i3}
  Hosts = {h1, h2}
  Workers = 2
  PerHost = 1
  Adaptive = TRUE
  MaxBatches = 2
  NoHost = NoHost
SYMMETRY Symmetry
INVARIANTS PartTypeOK NoTmpLeft
INVARIANTS PoolHoldsYoungest ClosedWhenOld GuardFollowsRequest
INVARIANTS WithinLimits TokensAreOwned OutcomesComplete TargetInBounds
PROPERTIES AnswersFollowSite
