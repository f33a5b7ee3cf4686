SPECIFICATION MCSpec
CONSTANTS
  o1 = o1
  o2 = o2
  f1 = f1
  f2 = f2
  a1 = a1
  a2 = a2
  Order = {o1, o2}
  Chef = {}
  Waiter = {f1, f2}
  Entry = {}
  MaxEvents = 1
  PendingAction = {a1, a2}
  MaxFaults = 1
INVARIANTS
  QueueTypeOK
  TapCountsOnce
PROPERTY
  TapsAreFlushed
