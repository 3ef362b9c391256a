\* One batch whose context is cancelled.
SPECIFICATION BatchSpec
CONSTANTS
  MinPerHost = 2
  MaxPerHost = 8
  GrowAfter = 5
  ShrinkAfter = 2
  Batches = {b1}
  Items = {i1, i2, i3}
  Hosts = {h1}
  Workers = 2
  PerHost = 1
  Adaptive = TRUE
  MaxBatches = 1
  NoHost = NoHost
INVARIANTS EveryItemHasOutcome
