SPECIFICATION LiveSpec
CONSTANTS
  r = r
  a = a
  b = b
  c = c
  x = x
  q = q
  fr = fr
  fa = fa
  fb = fb
  fc = fc
  fx = fx
  fq = fq
  Dir <- TwoDir
  File <- TwoFile
  Parent <- TwoParent
  Depth <- TwoDepth
  Home <- TwoHome
  Origin <- TwoOrigin
  Place <- TwoPlace
  Ignored = {}
  MaxDepth = 2
  SemaphoreCount = 1
  ConcurrencyArgs = {}
  QueueCap = 1
  FaultyDir = {r, a}
  IgnoreBinaryFiles = FALSE
  FaultyEntry = {fa, b}
  HandlerAnswers = {"continue", "stop", "terminate"}
INVARIANTS
  ResultJustified
  OncePerRoot
PROPERTIES
  ImplementsContract
  StartTerminates
