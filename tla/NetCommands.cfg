CONSTANTS
  s = s
  a = a
  b = b
  f = f
  g = g
  Node = {s, a, b}
  Sink = s
  Broadcast = Broadcast
  NULL = NULL
  InRange <- Line
  Avoid <- Nobody
  Caller = {f}
  Frags = 1
  MaxCounter = 1
  MaxJoin <- None
  MaxData <- None
  MaxCommand = 1
  MaxRestart <- None
  MaxHostStart = 1
  MaxLate = 0
  MaxRepeat <- None
  MaxTimeout = 1
  Reader = {b}
SPECIFICATION Spec
INVARIANTS TypeOK NothingForLostRely NeverPopsEmpty CommandsArrive
CHECK_DEADLOCK FALSE
