SPECIFICATION FairSpec
CONSTANTS
  a = a
  b = b
  s1 = s1
  NULL = NULL
  Node = {a, b}
  Sensor = {s1}
  Request = {1, 2}
  Ask <- Asks
  MaxUpdate <- Updates
  MaxLost = 1
  MaxRepeat = 1
INVARIANTS TypeOK NoRequestForgotten  OneLoop SensingHasLoop PlantKnown
PROPERTIES EveryRequestAnswered
CHECK_DEADLOCK FALSE
