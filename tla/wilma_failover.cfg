CONSTANTS
  a = a
  b = b
  None = None
  Ssids <- Two
  Saved0 <- Two
  MaxCandidates = 2
  Retries = 1
  QueueLen = 2
  MaxEvents = 2
  MaxOrders = 0
  Requests <- NoRequests
SPECIFICATION Spec
INVARIANT NeverStranded
CHECK_DEADLOCK FALSE
