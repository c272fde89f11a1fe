SPECIFICATION Spec
CONSTANTS
  Address <- MCAddress
  DevelopmentTreasuryAddress = "treasury"
  MaxUint64 = 15
  Height = {0, 1, 2, 3}
  FeeBasisPointsDivisor = 4
  TotalFeeBasisPoints = 3
  DevelopmentFeeBasisPoints = 1
  MinTransferAmount = 1
  MaxSupplyFor <- MCMaxSupplyFor
  BlockSubsidyFor <- MCBlockSubsidyFor
  CandidateBlock <- MCCandidateBlock
INVARIANTS
  SupplyIsExact
  NonceHistory
  NoLateRejection
  FeesAreExact
PROPERTIES
  OnlyOwnerSpends
  BlocksAreAtomic
