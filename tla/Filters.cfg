SPECIFICATION Spec
CONSTANTS
  f = f
  g = g
  d = d
  File = {f, g}
  Subdir = {d}
  Configs <- AllConfigs
  MaxFindings = 2
  Size <- LongSize
  Nul <- LongNul
  ProbeBytes = 2
  Faulty = {f}
INVARIANTS
  TypeOK
  NoBinarySent
PROPERTIES
  LastOneWins
