SPECIFICATION FairSpec
CONSTANTS
  Senders = {s1, s2}
  Deliveries = {d1, d2, d3}
  Keys <- MCKeys
  None = None
CHECK_DEADLOCK FALSE
INVARIANTS
  OwnResponse
  AcceptedSurvivesClose
PROPERTIES
  SendReturns
