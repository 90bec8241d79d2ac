SPECIFICATION Spec
CONSTANTS
  Callers = {a, b}
  MaxCallRetries = 2
  RequestCoalescing = TRUE
  EnableIdempotency = TRUE
  Requests = {"r1", "r2", "r3"}
  Methods = {"list"}
  RequestKey <- TwoPages
  Size = 1
  EntryTTL = 1
  ChannelSize = 1
  MaxLists = 2
  Requesters = {a, b, c}
  MaxFailures = 2
  OpenTimeout = 2
  HalfOpenMaxRequests = 1
  BackendIds = {"b1", "b2"}
  InitialPool <- OneBackend
  Balanced = {c1}
  Initializers = {i1}
  Strategy = "RoundRobin"
  MaxRetries = 2
  MaxRetriesLimit = 0
  HealthMethod = "ping"
  UnhealthyThreshold = 2
  HealthyThreshold = 2
  ServerIds = {"s", "t"}
  Adders = {"x", "y", "z"}
  IdOf <- TwoForOneId
  Users = {u}
  NoServer = NoServer
CHECK_DEADLOCK FALSE
INVARIANTS
  EffectOnce
  NoFillForgotten
  TestsWithinLimit
  TriedOnce
  NoClientLeaked
PROPERTIES
  BackendRecovers
