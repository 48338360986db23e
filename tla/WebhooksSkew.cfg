SPECIFICATION Spec
CONSTANTS
  e1 = e1
  e2 = e2
  e3 = e3
  o1 = o1
  ann = ann
  lock1 = lock1
  hosting = hosting
  t1 = t1
  t2 = t2
  Null = Null
  Orders = {o1}
  EventIds = {e1, e2, e3}
  Emails = {ann}
  SKUs = {lock1, hosting}
  Catalog = {lock1}
  Fractions = 10
  Stamps = {1, 2}
  Webhooks <- Usual
  Slots = {t1, t2}
INVARIANTS
  Reconciled
