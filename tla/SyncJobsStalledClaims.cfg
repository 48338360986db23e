SPECIFICATION Spec
CONSTANTS
  w1 = w1
  w2 = w2
  j1 = j1
  Null = Null
  Workers <- TwoWorkers
  Jobs <- OneJob
  MaxAttempts = 1
  MaxTotalAttempts = 2
  HardwareDelay = 1
  BaseDelay = 1
  MaxRetryDelay = 2
  StaleAfter = 2
  RecoveryWindow = 2
  MaxHold = 3
  Disturbances <- NoDisturbances
INVARIANTS
  OneClaimant
