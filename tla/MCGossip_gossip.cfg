SPECIFICATION FairSpec
CONSTANTS
  n1 = n1
  n2 = n2
  Node = {n1, n2}
  Seeds <- MCFirst
  Fanout = 3
  Cap = 1
  Hellos = 1
  Mortal = {n2}
  Leaving = {n2}
  Killable = {n2}
  MaxGen = 3
  MaxNet = 1
  MaxLate = 1
INVARIANTS TypeOK RingFollowsMembers RecordsWereAnnounced
PROPERTIES HeartbeatsHeal CrashedNodesLeaveRings
CHECK_DEADLOCK FALSE
