SPECIFICATION Spec
CONSTANTS
  r = r
  a = a
  b = b
  ax = ax
  ay = ay
  bx = bx
  Dir <- TreeDir
  Parent <- TreeParent
  Depth <- TreeDepth
  Adds <- CustomAdds
INVARIANT OwnRulesInForce
