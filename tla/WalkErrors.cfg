SPECIFICATION Spec
CONSTANTS
  r = r
  a = a
  b = b
  c = c
  x = x
  q = q
  fr = fr
  fa = fa
  fb = fb
  fc = fc
  fx = fx
  fq = fq
  Dir <- SmallDir
  File <- SmallFile
  Parent <- SmallParent
  Depth <- SmallDepth
  Home <- SmallHome
  Origin <- SmallOrigin
  Place <- SmallPlace
  Ignored = {}
  MaxDepth <- Unlimited
  SemaphoreCount = 2
  ConcurrencyArgs = {}
  QueueCap = 2
  FaultyDir = {}
  IgnoreBinaryFiles = FALSE
  FaultyEntry = {fa}
  HandlerAnswers = {"stop"}
INVARIANT ErrorsReported
