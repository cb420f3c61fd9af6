SPECIFICATION FairSpec
CONSTANTS
  a = a
  b = b
  c = c
  Node = {a, b, c}
  Broadcast = Broadcast
  NULL = NULL
  NumSeq = 3
  InitSeq = 2
  MaxFrag = 2
  MaxAttempt = 1
  DisconnectedCap = 1
  RxCap = 1
  MaxSend <- ThreeNodes
  MaxRestart <- NoRestart
  MaxRadioErrors = 0
INVARIANTS OneOutcome WholeMessages
PROPERTIES NoRepetition IgnoresOnlyRepetitions ImplementsService EveryMessageAnswered
CHECK_DEADLOCK FALSE
