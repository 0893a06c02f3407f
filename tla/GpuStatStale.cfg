\* One goroutine calling over and over: two calls, one after the other, are enough.
CONSTANTS
  Callers = {c1}
  Readings = {0, 1}
  maxDeviceDataFetchAttempts = 3
  HostBound = 1

SPECIFICATION Spec

INVARIANT ReportedIsFresh
