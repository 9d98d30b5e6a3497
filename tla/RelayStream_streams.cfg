\* Two streams share a connection that may break; their clients may stall or leave.
CONSTANTS
  e1 = e1  e2 = e2
  Streams = {e1, e2}
  Cap = 1
  MaxChunks <- TwoAndNone
SPECIFICATION FairSpec
INVARIANTS StreamInv AccountedFor
PROPERTIES ImplementsLossyStream Answered EndsWithInstance
CHECK_DEADLOCK FALSE
