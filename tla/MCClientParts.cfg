SPECIFICATION Spec
CONSTANTS
  Waiters = {a, b}
  RequestKeys = {k1, k2}
  MaxInflightRequests = 1
  MaxFlights = 2
  InternalSize = 2
  ContentSize = 1
  MaxBlocks = 2
  ServerRequests = {r1, r2}
  MaxServerRequests = 1
  Posters = {p, q}
  InboxSize = 1
  MaxEvents = 1
CHECK_DEADLOCK FALSE
PROPERTIES
  AbandonedFlightsEnd
  StreamCloses
  RequestsAnswered
  ClosedTransportEnds
