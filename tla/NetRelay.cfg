CONSTANTS
  s = s
  a = a
  b = b
  f = f
  g = g
  Node = {s, a, b}
  Sink = s
  Broadcast = Broadcast
  NULL = NULL
  InRange <- Line
  Avoid <- Nobody
  Caller = {}
  Frags = 1
  MaxCounter = 1
  MaxJoin <- None
  MaxData <- LeafTwice
  MaxCommand = 0
  MaxRestart <- None
  MaxHostStart = 1
  MaxLate = 0
  MaxRepeat <- RelayOnce
  MaxTimeout = 0
  Reader = {}
SPECIFICATION Spec
INVARIANTS DataInOrder
CHECK_DEADLOCK FALSE
