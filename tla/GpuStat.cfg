\* Two goroutines calling at once, over and over; a reading of zero and one above.
CONSTANTS
  Callers = {c1, c2}
  Readings = {0, 1}
  maxDeviceDataFetchAttempts = 3
  HostBound = 1

SPECIFICATION FairSpec

INVARIANTS
  TypeOK
  RetryLoopExclusive
  ReportedWasFetched

PROPERTIES
  GivenUpForGood
  OnlyHungQueryBlocks
