SPECIFICATION MCSpec
CONSTANTS
  Address <- MCAddress
  DevelopmentTreasuryAddress = "treasury"
  MaxUint64 = 15
  Height = {1, 2, 3, 4}
  FeeBasisPointsDivisor = 4
  TotalFeeBasisPoints = 3
  DevelopmentFeeBasisPoints = 1
  MinTransferAmount = 1
  MaxSupplyFor <- MCMaxSupplyFor
  BlockSubsidyFor <- MCBlockSubsidyFor
  MaxMempoolTransactions = 3
  MaxMempoolTransactionsPerSender = 3
  MaxMempoolBytes = 3
  MaxBlockTransactions = 2
  MaxBlockTransactionBytes = 2
  EstimatedSerializedSize <- MCSize
  ActivePolicy = "testnet"
  PeerBlock <- MCPeerBlock
  PeerChain <- MCPeerChain
  SubmittedTransaction <- MCTransactions
  MaxAutomaticReorgDepth = 1
  NoFile = none
  Saver = {s1}
  Snapshot = {d1, d2, d3}
  Inode = {i1, i2, i3}
  NoInode = none
  Partial = partial
  Password = {p1, p2, p3}
  Absent = none
  Torn = torn
  Remote = {1, 2, 3}
  Local = 0
  PeerAddress <- MCPeerAddress
  LocalAddress <- MCLocalAddress
  NoAddress = nowhere
  Mobile = {2, 3}
  Rumour <- MCRumour
  Earlier <- MCEarlier
  Flag <- MCFlag
  Home <- MCHome
  MaxPeers = 2
  MaxPerGroup = 1
CHECK_DEADLOCK FALSE
INVARIANT HandshakeAddressIsKept
