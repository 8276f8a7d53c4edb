CONSTANTS
  a = a
  b = b
  None = None
  Ssids <- One
  Saved0 <- One
  MaxCandidates = 2
  Retries = 1
  QueueLen = 1
  MaxEvents = 2
  MaxOrders = 2
  Requests <- NoAp
SPECIFICATION FairSpec
INVARIANTS TypeOK ScanBitMeansScan WaitingDeviceHasAp
PROPERTY EverySendCompletes
CHECK_DEADLOCK FALSE
