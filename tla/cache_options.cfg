\* One request after another with other options.
SPECIFICATION PipelineSpec
CONSTANTS
  article = article
  twin = twin
  twinOfTwin = twinOfTwin
  llms = llms
  snapshot = snapshot
  twinSnapshot = twinSnapshot
  llmsSnapshot = llmsSnapshot
  root = root
  hidden = hidden
  inside = inside
  sitemap = sitemap
  NoPage = NoPage
  Requests = {r1}
  URLs <- MCURLs
  Requested = {article}
  Twin <- MCTwin
  LLMs <- MCLLMs
  Archive <- MCArchive
  Archived <- MCArchived
  Ancestors <- MCAncestors
  Sitemaps <- MCSitemaps
  Private = {inside}
  Disallowed = {llms, hidden}
  Options <- MCOptions
  MaxRuns = 2
\* The program is at rest when nobody asks for anything.
CHECK_DEADLOCK FALSE
INVARIANTS ResultsFollowOptions
