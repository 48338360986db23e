SPECIFICATION FairSpec
CONSTANTS
  j1 = j1
  j2 = j2
  Null = Null
  Jobs = {j1}
  Horizon = 2
  MinReconnect = 1
  MaxReconnect = 2
  QueriesFail = FALSE
  Restarts = FALSE
PROPERTIES
  DueIsClaimed
