SPECIFICATION FairSpec
CONSTANTS
  initA = initA
  initB = initB
  callA = callA
  callB = callB
  cancelA = cancelA
  a = a
  b = b
  Messages = {initA, initB, callA, cancelA}
  Kind <- MCKind
  Id <- MCId
  From <- MCFrom
  IdTexts = {0, 1}
  Supported = {v1}
  Preferred = v1
  Unsupported = v0
  NoVersion = noVersion
  Nobody = nobody
CHECK_DEADLOCK FALSE
INVARIANTS
  Cancellable
  ShutdownDrains
PROPERTIES
  CancelledRequestEnds
