\* The pipeline, fetches, batches and the HTTP server under fairness: each call
\* ends.  What is at rest, and a process that has ended, may stop there.
SPECIFICATION PartSpec
CONSTANTS
  article = article
  twin = twin
  twinOfTwin = twinOfTwin
  llms = llms
  snapshot = snapshot
  twinSnapshot = twinSnapshot
  llmsSnapshot = llmsSnapshot
  root = root
  hidden = hidden
  inside = inside
  sitemap = sitemap
  NoPage = NoPage
  Requests = {p1}
  URLs <- MCURLs
  Requested = {article}
  Twin <- MCTwin
  LLMs <- MCLLMs
  Archive <- MCArchive
  Archived <- MCArchived
  Ancestors <- MCAncestors
  Sitemaps <- MCSitemaps
  Private = {inside}
  Disallowed = {llms, hidden}
  Options <- MCAllChecks
  MaxRuns = 2
  Hosts = {h1}
  Fetchers = {r1, r2}
  Clients = {"honest", "azure"}
  MaxRetries = 1
  FailureThreshold = 2
  SuccessThreshold = 1
  RecoveryTimeout = 1
  StaleAge = 0
  CleanupThreshold = 0
  CleanupInterval = 0
  Events = {"response", "transient", "error", "badbody", "redirect", "deadline", "cancel", "cleanup"}
  MinPerHost = 1
  MaxPerHost = 2
  GrowAfter = 2
  ShrinkAfter = 2
  Batches = {b1}
  Items = {i1, i2, i3}
  BatchHosts = {h1, h2}
  Workers = 2
  PerHost = 1
  Adaptive = TRUE
  MaxBatches = 1
  NoHost = NoHost
  Calls = {q1, q2}
INVARIANTS TypeOK ShutdownIsGraceful FetchIsAuthorized
PROPERTIES RunReturns FetchReturns OpenIsProbed BatchReturns ServerReturns
CHECK_DEADLOCK FALSE
