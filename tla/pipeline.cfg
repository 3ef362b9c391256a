\* Two requests at a time, for a page and its twin; one Cache object with Puts,
\* evictions, crashes and refused operations.
SPECIFICATION PartSpec
CONSTANTS
  article = article
  twin = twin
  twinOfTwin = twinOfTwin
  llms = llms
  snapshot = snapshot
  twinSnapshot = twinSnapshot
  llmsSnapshot = llmsSnapshot
  root = root
  hidden = hidden
  inside = inside
  sitemap = sitemap
  NoPage = NoPage
  Requests = {r1, r2}
  URLs <- MCURLs
  Requested = {article, twin}
  Twin <- MCTwin
  LLMs <- MCLLMs
  Archive <- MCArchive
  Archived <- MCArchived
  Ancestors <- MCAncestors
  Sitemaps <- MCSitemaps
  Private = {inside}
  Disallowed = {llms, hidden}
  Options <- MCOptions
  MaxRuns = 2
  Caches = {c1}
  None = None
  Keys = {k1, k2, k3}
  BodySizes = {1, 2}
  MaxSize = 4
  MaxPuts = 3
  MaxInterruptions = 2
  Torn = Torn
\* The program is at rest when nobody asks for anything.
CHECK_DEADLOCK FALSE
SYMMETRY PartSymmetry
INVARIANTS FetchesAllowed PagesAllowed NestingBounded KeysNameContent
INVARIANTS ServedIsSound UndercountBounded TotalIsSum
PROPERTIES PutIsServed RequestsKeepContract
