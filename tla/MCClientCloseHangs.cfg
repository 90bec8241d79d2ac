SPECIFICATION FairSpec
CONSTANTS
  Calls = {c1}
  Initializer = init
  Reconnect = TRUE
  MaxAttempts = 1
  Losses = 1
  MaxIds = 5
CHECK_DEADLOCK FALSE
PROPERTIES
  CloseAlwaysEnds
