SPECIFICATION Spec
CONSTANTS
  Address <- MCAddress
  DevelopmentTreasuryAddress = "treasury"
  MaxUint64 = 15
  Height = {1, 2, 3, 4}
  FeeBasisPointsDivisor = 4
  TotalFeeBasisPoints = 3
  DevelopmentFeeBasisPoints = 1
  MinTransferAmount = 1
  MaxSupplyFor <- MCMaxSupplyFor
  BlockSubsidyFor <- MCBlockSubsidyFor
  MaxMempoolTransactions = 3
  MaxMempoolTransactionsPerSender = 3
  MaxMempoolBytes = 3
  MaxBlockTransactions = 2
  MaxBlockTransactionBytes = 2
  EstimatedSerializedSize <- MCSize
  Peer = {p1, p2}
  Syncer = {s1}
  NoOwner = none
  PeerChain <- MCChains
  LocalBlock <- MCLocalBlock
  MaxBlocksPerMessage = 1
  MaxAutomaticReorgDepth = 2
  MaxInFlight = 1
CHECK_DEADLOCK FALSE
PROPERTIES
  AdoptedIsAdvertised
  
