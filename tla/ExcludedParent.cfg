SPECIFICATION FairSpec
CONSTANTS
  base = base
  d = d
  e = e
  f = f
  o = o
  Dir = {base, d, e}
  File = {f}
  Base = base
  Up <- TreeUp
  Depth <- TreeDepth
  Outside = {o}
  Missing = {o}
  Worlds <- ExcludeOnly
INVARIANTS
  ExcludedParentIgnored
