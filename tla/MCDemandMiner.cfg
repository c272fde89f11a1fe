SPECIFICATION Spec
CONSTANTS
  Process = {p1, p2}
  Tx = {t1, t2}
  BlocksPerSweepLimit = 2
  FaucetFundingBlocksLimit = 1
  FaucetMinBalance = 1
  MaxBlockTransactions = 1
  MaxFunds = 2
  NoProcess = none

  
PROPERTIES
  PendingIsConfirmed
