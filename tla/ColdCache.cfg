SPECIFICATION Spec
CONSTANTS
  c1 = c1
  c2 = c2
  c3 = c3
  p = p
  q = q
  Client = {c1, c2}
  Path = {p, q}
  Readable = {p}
  CacheGiven = TRUE
  First = {c1, c2}
  MaxCalls = 2
INVARIANT LoadedBeforeIsCached
