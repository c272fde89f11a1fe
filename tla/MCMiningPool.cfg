SPECIFICATION Spec
CONSTANTS
  Worker = {w1}
  Other = {w2}
  Ticker = ticker
  BlockReward = 6
  PoolDifficulty = 1
  BlockDifficulty = 2
  poolFeeBPS = 2
  FeeDivisor = 10
  Window = 2
  MaxHeight = 1
  MaxSubmissions = 2
INVARIANTS
  AcceptedIsCredited
  
PROPERTIES
  JobFollowsTip
