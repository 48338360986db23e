SPECIFICATION FairSpec
CONSTANTS
  w1 = w1
  w2 = w2
  j1 = j1
  Null = Null
  Workers <- TwoWorkers
  Jobs <- OneJob
  MaxAttempts = 2
  MaxTotalAttempts = 4
  HardwareDelay = 1
  BaseDelay = 1
  MaxRetryDelay = 2
  StaleAfter = 3
  RecoveryWindow = 3
  MaxHold = 2
  Disturbances <- AllDisturbances
INVARIANTS
  TypeOK
  OneClaimant
  HolderOwnsRow
  AttemptBudget
  SyncedIsTrue
PROPERTIES
  ImplementsOutbox
  Settles
  DispatchAllowed
  DeadJustified
  WindowNeverRestarts
