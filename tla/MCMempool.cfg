SPECIFICATION Spec
CONSTANTS
  ID = {i1, i2, i3, i4}
  Sender = {"alice", "bob"}
  Nonce = {1, 2, 3}
  MaxSize = 2
  MaxMempoolTransactions = 3
  MaxMempoolBytes = 5
  MaxMempoolTransactionsPerSender = 2
  Written <- MCWritten
SYMMETRY MCSymmetry
INVARIANTS
  PoolIsExact
PROPERTIES
  ImplementsPool
