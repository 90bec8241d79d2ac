SPECIFICATION Spec
CONSTANTS
  FailureThreshold = 1
  SuccessThreshold = 2
  MaxHalfOpen = 1
  ResetTimeout = 1
  Callers = {a, b}
  MaxAttempts = 2
  Burst = 1
  Readers = {a, b}
  Keys = {k1, k2}
  ToolOf <- OneTool
  SkipTools = {}
  Capacity = 1
  TTL = 1
  MaxVersion = 2
  Jobs = {j1, j2}
CHECK_DEADLOCK FALSE
INVARIANTS
  NoSlotLeak
  NoStaleUnlessRaced
  NoJobLeftRunning
PROPERTIES
  EveryCallReturns
  JobsImplementLifecycle
