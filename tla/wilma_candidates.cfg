CONSTANTS
  a = a
  b = b
  None = None
  Ssids <- Two
  Saved0 <- Two
  MaxCandidates = 2
  Retries = 1
  QueueLen = 3
  MaxEvents = 2
  MaxOrders = 2
  Requests <- OnlyAp
SPECIFICATION InRangeSpec
INVARIANT OnlyFailoverStrands
PROPERTY KeepsConnecting
CHECK_DEADLOCK FALSE
