SPECIFICATION Spec
CONSTANTS
  e1 = e1
  e2 = e2
  o1 = o1
  ann = ann
  lock1 = lock1
  t1 = t1
  p1 = p1
  Null = Null
  Orders = {o1}
  EventIds = {e1, e2}
  Emails = {ann}
  SKUs = {lock1}
  Catalog = {lock1}
  Fractions = 1
  Stamps = {1}
  Webhooks <- HardwareOrder
  Slots = {t1}
  Processes = {p1}
  Home <- OneHome
  MaxAttempts = 2
  MaxTotalAttempts = 2
  HardwareDelay = 2
  BaseDelay = 1
  MaxRetryDelay = 1
  StaleAfter = 2
  RecoveryWindow = 1
  MaxHold = 1
  Disturbances <- AllFaults
INVARIANTS
  TypeOK
  OnlyPaidSent
  Reconciled
PROPERTIES
  ClosedPoolIsQuiet
  HardwareWaits
  ConfirmedIsSettled
