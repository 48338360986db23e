SPECIFICATION ListenerFairSpec
CONSTANTS
  j1 = j1
  j2 = j2
  Null = Null
  Jobs = {j1, j2}
  Horizon = 4
  MinReconnect = 1
  MaxReconnect = 3
  QueriesFail = TRUE
  Restarts = TRUE
INVARIANTS
  TypeOK
  NoLostWakeup
PROPERTIES
  DueIsClaimed
