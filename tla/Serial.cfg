SPECIFICATION BFairSpec
CONSTANTS
  OutMessage <- OutMessages
  InMessage <- InMessages
  Listener <- Listeners
  InSlot <- Slots
  Garbage = Garbage
  RxCap = 5
  MaxOut = 2
  MaxIn = 2
  MaxInUse = 1
  MaxNoData = 1
INVARIANTS TypeOK OneWakeup QueueIsRest ReceivesWhole KeepsBytes CountsHandles
PROPERTIES SendsStream SendsAll ReceivesAll
CHECK_DEADLOCK FALSE
