SPECIFICATION Spec
CONSTANTS
  a = a
  b = b
  c = c
  Node = {a, b}
  Broadcast = Broadcast
  NULL = NULL
  NumSeq = 3
  InitSeq = 2
  MaxFrag = 1
  MaxAttempt = 1
  DisconnectedCap = 1
  RxCap = 2
  MaxSend <- OneSender
  MaxRestart <- SenderRestarts
  MaxRadioErrors = 0

PROPERTIES IgnoresOnlyRepetitions
CHECK_DEADLOCK FALSE
