SPECIFICATION Spec
CONSTANTS
  n1 = n1
  n2 = n2
  Node = {n1, n2}
  Request = {r1, r2}
  NoRequest = NoRequest
  NoVersion = NoVersion
  Walk <- MCWalk
  RF = 3
  Kinds = {"write", "read", "delete"}
  Modes = {"quorum"}
  Entry = {n1, n2}
  Flaky = {n1}
  Lossy = {n1}
  Mortal = {n2}
  Repairing = {n1}
SYMMETRY Requests
INVARIANTS TypeOK AckedKeyFound
CHECK_DEADLOCK FALSE
