SPECIFICATION DashboardSpec
CONSTANTS
  n1 = n1
  n2 = n2
  n3 = n3
  n4 = n4
  Node = {n1, n2, n3, n4}
  Self = n1
  Nobody = Nobody
  Token <- MCToken
  Hash <- MCHash
  RF = 2
  MaxCopies = 3
  Peer = {n1, n2}
  News = {1, 2}
  Origin <- MCOrigin
  Buffer = 2
  MaxForgotten = 1
  MaxWire = 2
  MaxCrashes = 1
  MaxLog = 2
  MaxMounts = 2
  MaxPublished = 3
  TypeOf <- MCTypeOf
  NodeId = {n1, n2, n3}
  NoNode = NoNode
  RingOrder <- MCRingOrder
  MaxVersion = 2
  Members <- MCMembers
  MaxRefresh = 2
  Shard = {n1, n2}
  Record = {k1, k2}
  Nothing = Nothing
  MaxPending = 1
  Entry = {k1, k2}
  Blank = Blank
  MaxRequests = 2
  MaxQuestions = 3
  NodeA = NodeA
  NodeB = NodeB
  NodeC = NodeC
  FirstNames <- MCFirstNames
  MaxToyNodes = 6
INVARIANTS
  DashboardTypeOK
  WalksVisitMembersOnce RemovalTakesAllTokens PlacementFollowsMembers ReplicasAreNeighbours
  RepeatsWereForgotten
  HeartbeatsOfOpenSockets LiveMeansOpen LogInOrder WaitingMountsEnd BackoffDoubles
  DrawnInRingOrder QuietPictureIsRecent
  DetailOfSelectedNode ValueOfSelectedKey
  ResultOfShownRequest BusyWhilePending
  AnswersUnderQuestions NoBlankAnswers ThinkingWhileWaiting
  GuideKeysUnique
PROPERTIES OnlyTheirKeysMove ReconnectsInTheEnd
CHECK_DEADLOCK FALSE
