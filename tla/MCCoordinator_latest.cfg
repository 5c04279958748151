SPECIFICATION Spec
CONSTANTS
  n1 = n1
  n2 = n2
  Node = {n1, n2}
  Request = {r1, r2, r3}
  NoRequest = NoRequest
  NoVersion = NoVersion
  Walk <- MCWalk
  RF = 3
  Kinds = {"write", "read"}
  Modes = {"quorum"}
  Entry = {n1, n2}
  Flaky = {}
  Lossy = {}
  Mortal = {}
  Repairing = {}
SYMMETRY Requests
INVARIANT SeesLatestWrite
CHECK_DEADLOCK FALSE
