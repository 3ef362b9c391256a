\* One caller, the default thresholds and retries, a host that answers 503 for
\* ever, and callers that keep fetching.
SPECIFICATION SteadySpec
CONSTANTS
  Hosts = {h1}
  Requests = {r1}
  Clients = {"honest"}
  MaxRetries = 3
  FailureThreshold = 5
  SuccessThreshold = 2
  RecoveryTimeout = 1
  StaleAge = 1
  CleanupThreshold = 1
  CleanupInterval = 1
  Events = {"transient"}
PROPERTIES FailingHostOpens
