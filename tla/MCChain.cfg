SPECIFICATION MCSpec
CONSTANTS
  MaxUint32 = 8
  TargetBlockTimeSeconds = 4
  DifficultyHistoryWindow = 3
  HashSpace = 256
  GenesisDifficulty = 1
  MaxAutomaticReorgDepth = 3
  MaxHeight = 7
  Interval = {1, 9}
  Header <- MCHeader
  Replays <- MCReplays
  Candidate <- MCCandidate
  InitialBlockReward = 13
  HalvingInterval = 8
  MaxSupply = 165
  Uint64Bits = 4
  MainnetEpochLength = 7
  MainnetEmissionEpochs <- MCEpochs
  MainnetMaxSupply = 158
  LastHeight = 60
CHECK_DEADLOCK FALSE
INVARIANTS
  ChainIsExact
  IssuedOnSchedule
PROPERTIES
  OnlyBetterChains
  FinalizedBlocksStay
