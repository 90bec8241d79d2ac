SPECIFICATION FairSpec
CONSTANTS
  Calls = {t1, t2}
  Sessions = {a, b}
  NoSession = NoSession
  NoRequest = NoRequest
  MaxTasks = 1
CHECK_DEADLOCK FALSE
INVARIANTS
  CancelledOrDelivered
  OwnerOnly
PROPERTIES
  ImplementsLifecycle
  Settles
