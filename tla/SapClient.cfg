SPECIFICATION Spec
CONSTANTS
  c1 = c1
  c2 = c2
  c3 = c3
  k1 = k1
  none = none
  b1 = b1
  b2 = b2
  Null = Null
  Callers = {c1, c2, c3}
  Keys = {k1, none}
  EmptyKey = none
  Bodies = {b1, b2}
  CallIds = {1, 2, 3}
  Headers <- EdgeHeaders
  Attempts = {1, 2, 9}
  Second = 2
  MaxDelay = 7
  MaxInt = 31
INVARIANTS
  TypeOK
  OneRequestPerKey
  EntryHasOwner
  AnswerIsMine
  RetryAfterHonoured
PROPERTIES
  CallsReturn
