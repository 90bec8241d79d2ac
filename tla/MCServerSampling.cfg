SPECIFICATION LoopSpec
CONSTANTS
  Sessions = {a, b, c, d}
  NoSession = NoSession
  Uris = {u}
  Tools = {x, y}
  MaxTools = 1
  MaxSessions = 2
  MaxClosed = 3
  Names = {1, 2, 3}
  Hidden = {2}
  DefaultPageSize = 1
  MaxPageSize = 1
  Limits = {0, 3}
  MaxPages = 2
  MaxItems = 3
  MaxChanges = 3
  Templates <- SomeTemplates
  ReadUris <- SomeUris
  HiddenUris <- SomeHidden
  HiddenTemplates = {2}
  MaxBacktrackSteps = 20
  MaxTemplates = 2
  SsePosts = {p, q}
  QueueSize = 1
  MaxEvents = 2
  MaxInbox = 2
  Labels = {"a", "b"}
  Depth = 3
  MaxHosts = 2
CHECK_DEADLOCK FALSE
PROPERTIES
  SamplingReturns
