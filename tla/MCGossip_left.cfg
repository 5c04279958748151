SPECIFICATION FairSpec
CONSTANTS
  n1 = n1
  n2 = n2
  Node = {n1, n2}
  Seeds <- MCSeeds
  Fanout = 3
  Cap = 2
  Hellos = 1
  Mortal = {}
  Leaving = {n2}
  Killable = {}
  MaxGen = 2
  MaxNet = 1
  MaxLate = 0
PROPERTY StoppedNodesLeaveRings
CHECK_DEADLOCK FALSE
