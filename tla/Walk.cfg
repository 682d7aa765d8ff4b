SPECIFICATION Spec
CONSTANTS
  r = r
  a = a
  b = b
  c = c
  x = x
  q = q
  fr = fr
  fa = fa
  fb = fb
  fc = fc
  fx = fx
  fq = fq
  Dir <- TreeDir
  File <- TreeFile
  Parent <- TreeParent
  Depth <- TreeDepth
  Home <- TreeHome
  Origin <- TreeOrigin
  Place <- TreePlace
  Ignored = {x}
  MaxDepth = 3
  SemaphoreCount = 1
  ConcurrencyArgs = {0, 2}
  QueueCap = 1
  FaultyDir = {r, a}
  IgnoreBinaryFiles = TRUE
  FaultyEntry = {fa, b}
  HandlerAnswers = {"continue", "stop", "terminate"}
INVARIANTS
  TypeOK
  SlotsAccounted
  QuiescentAtClose
  FilesBeforeSubdirs
  WalkingCoversWalk
  NoHandleLeft
  HandlesBounded
  NoPanic
  CompleteWalk
  NeverStuck
PROPERTIES
  NoVisitAfterTerminate
  NoStepBack
