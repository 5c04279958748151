SPECIFICATION Spec
CONSTANTS
  w1 = w1
  w2 = w2
  w3 = w3
  d1 = d1
  n1 = n1
  n2 = n2
  Op = {w1, w2, d1}
  None = None
  Put = {w1, w2}
  Timed = {w2}
  Clock <- MCClock
  Torn = Torn
  MaxRestarts = 3
INVARIANTS TypeOK DeadlineOfValue WriteAhead RealTimeOrder
PROPERTIES ImplementsReplica
CHECK_DEADLOCK FALSE
