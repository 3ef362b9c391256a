\* Both clients, two hosts (the clean-up touches the other host's breaker),
\* every event of the environment.
SPECIFICATION Spec
CONSTANTS
  Hosts = {h1, h2}
  Requests = {r1, r2}
  Clients = {"honest", "azure"}
  MaxRetries = 1
  FailureThreshold = 2
  SuccessThreshold = 2
  RecoveryTimeout = 1
  StaleAge = 0
  CleanupThreshold = 1
  CleanupInterval = 0
  Events = {"response", "transient", "error", "badbody", "toolarge", "redirect", "deadline", "cancel", "cleanup"}
SYMMETRY Symmetry
INVARIANTS TypeOK CountsBelowThresholds HonestRetriesTransient
PROPERTIES BreakersKeepContract OpenAdmitsNothing
