SPECIFICATION FairSpec
CONSTANTS
  Sessions = {a, b}
  NoSession = NoSession
  Uris = {u}
  Tools = {x}
  MaxTools = 1
  MaxSessions = 1
  MaxClosed = 1
  Requests = {r1}
  NoMethod = NoMethod
CHECK_DEADLOCK FALSE
INVARIANTS
  NothingComesBack
PROPERTIES
  GetReturns
  Reclaimed
