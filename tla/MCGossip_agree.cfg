SPECIFICATION FairSpec
CONSTANTS
  n1 = n1
  n2 = n2
  Node = {n1, n2}
  Seeds <- MCSeeds
  Fanout = 3
  Cap = 2
  Hellos = 1
  Mortal = {}
  Leaving = {}
  Killable = {}
  MaxGen = 2
  MaxNet = 1
  MaxLate = 2
PROPERTY EveryoneAgrees
CHECK_DEADLOCK FALSE
