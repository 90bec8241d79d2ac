SPECIFICATION FairSpec
CONSTANTS
  Senders = {h, g}
  Handler = h
  Sends = 3
  BufSize = 2
CHECK_DEADLOCK FALSE
INVARIANTS
  InSequence
  FlushedBeforeResponse
PROPERTIES
  StreamEnds
