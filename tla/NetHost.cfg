CONSTANTS
  s = s
  a = a
  b = b
  f = f
  g = g
  Node = {s, a}
  Sink = s
  Broadcast = Broadcast
  NULL = NULL
  InRange <- Star
  Avoid <- Nobody
  Caller = {f}
  Frags = 1
  MaxCounter = 2
  MaxJoin <- None
  MaxData <- None
  MaxCommand = 1
  MaxRestart <- SinkOnce
  MaxHostStart = 2
  MaxLate = 1
  MaxRepeat <- None
  MaxTimeout = 0
  Reader = {}
SPECIFICATION FairSpec
PROPERTIES SendReturns FreshWave
CHECK_DEADLOCK FALSE
