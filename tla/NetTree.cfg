CONSTANTS
  s = s
  a = a
  b = b
  f = f
  g = g
  Node = {s, a, b}
  Sink = s
  Broadcast = Broadcast
  NULL = NULL
  InRange <- Line
  Avoid <- Nobody
  Caller = {}
  Frags = 1
  MaxCounter = 2
  MaxJoin <- None
  MaxData <- None
  MaxCommand = 0
  MaxRestart <- None
  MaxHostStart = 1
  MaxLate = 0
  MaxRepeat <- None
  MaxTimeout = 0
  Reader = {}
SPECIFICATION Spec
INVARIANTS LoopFree RoutesArePaths
CHECK_DEADLOCK FALSE
