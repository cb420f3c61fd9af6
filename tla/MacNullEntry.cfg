SPECIFICATION Spec
CONSTANTS
  a = a
  b = b
  c = c
  Node = {a, b}
  Broadcast = Broadcast
  NULL = NULL
  NumSeq = 3
  InitSeq = 2
  MaxFrag = 2
  MaxAttempt = 2
  DisconnectedCap = 1
  RxCap = 2
  MaxSend <- OneMessage
  MaxRestart <- NoRestart
  MaxRadioErrors = 0
INVARIANTS WaitingHoldsPackets
CHECK_DEADLOCK FALSE
