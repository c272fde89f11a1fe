SPECIFICATION Spec
CONSTANTS
  a = a
  b = b
  c = c
  NodeID = {a, b, c}
  Miner = a
  Submitter = {c}
  Topology <- MCTopology
  Penalty = 1
  PeerScoreMin <- MCScoreMin
  PeerScoreMax = 0
  PeerScoreGoodEvent = 1
  PeerDisconnectThreshold <- MCThreshold
  MaxConnects = 1
  MaxEvents = 3
CHECK_DEADLOCK FALSE
PROPERTIES
  GossipEnds
  BlocksReachEveryNode
