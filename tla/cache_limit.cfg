\* Two Cache objects on one directory, one Put each.
SPECIFICATION Spec
CONSTANTS
  Caches = {c1, c2}
  Keys = {k1, k2, k3}
  BodySizes = {1}
  MaxSize = 4
  MaxPuts = 3
  MaxInterruptions = 0
  None = None
  Torn = Torn
PROPERTIES LimitIsKept
