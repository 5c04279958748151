SPECIFICATION Spec
CONSTANTS
  w1 = w1
  w2 = w2
  w3 = w3
  d1 = d1
  n1 = n1
  n2 = n2
  Op = {w1, w2, w3, d1}
  None = None
  Put = {w1, w2, w3}
  Timed = {w3}
  Clock <- MCClock
  Torn = Torn
  MaxRestarts = 1
INVARIANT OpensAgain
CHECK_DEADLOCK FALSE
