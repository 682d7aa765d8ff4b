SPECIFICATION Spec
CONSTANTS
  c1 = c1
  c2 = c2
  c3 = c3
  p = p
  q = q
  Client = {c1, c2, c3}
  Path = {p, q}
  Readable = {p}
  CacheGiven = TRUE
  First = {c1}
  MaxCalls = 2
INVARIANTS
  TypeOK
  LoadedBeforeIsCached
  OneLoadPerClient
SYMMETRY Waiting
