SPECIFICATION Spec
CONSTANTS
  Conn = {c1, c2}
  NodeID = {n1, n2}
  NetworkGroup = {g1}
  NoConn = none
  MaxConnectedPeers = 2
  MaxPeersPerNetworkGroup = 1
  MaxConcurrentInboundHandshakes = 2
  PeerScoreMin = 0
  PeerScoreMax = 0
  PeerScoreGoodEvent = 1
  PeerDisconnectThreshold = 0
  Penalty = {1}
INVARIANTS
  LimitsAreExact
  NoLeakedConnection
  StopReachesInbound
PROPERTIES
  ClosedLeavesTable
