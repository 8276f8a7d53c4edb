CONSTANTS
  long = long
  cut = cut
  Ssids <- TwoNames
  Passwords <- LongAndCut
  Cut <- CutLong
  Scans <- SomeScans
  MaxAps = 3
  MaxCandidates = 2
  MaxRequests = 3
  MaxEvents = 2
  MaxFails = 1
SPECIFICATION Spec
INVARIANTS TypeOK NamesOnce ShowsOneScan MutexHeldInside CandidatesKnown ScanIsSorted
PROPERTY PromiseKept
