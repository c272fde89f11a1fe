SPECIFICATION Spec
CONSTANTS
  Address <- MCAddress
  DevelopmentTreasuryAddress = "treasury"
  MaxUint64 = 15
  Height = {1, 2, 3, 4}
  FeeBasisPointsDivisor = 4
  TotalFeeBasisPoints = 3
  DevelopmentFeeBasisPoints = 1
  MinTransferAmount = 1
  MaxSupplyFor <- MCMaxSupplyFor
  BlockSubsidyFor <- MCBlockSubsidyFor
  MaxMempoolTransactions = 3
  MaxMempoolTransactionsPerSender = 3
  MaxMempoolBytes = 3
  MaxBlockTransactions = 2
  MaxBlockTransactionBytes = 2
  EstimatedSerializedSize <- MCSize
  BlockWorker = {c1}
  MinerWorker = {c1}
  SyncWorker = {c1}
  AdmissionWorker = {c1, s1}
  NoWorker = none
  ActivePolicy = "testnet"
  PeerBlock <- MCPeerBlock
  PeerChain <- MCPeerChain
  SubmittedTransaction <- MCTransactions
  MinerAddress = "bob"
  MaxAutomaticReorgDepth = 1
  MaxHeight = 3
INVARIANTS
  NoConfirmedPending
  RecoveryIsMaximal
  StateMatchesChain
  
PROPERTIES
  EveryCallReturns
