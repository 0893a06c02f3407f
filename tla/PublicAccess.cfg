\* Three probes and, as in the code, room in the channel for all their reports.
CONSTANTS
  Tags <- MCTags
  BufferSize = 3

SPECIFICATION FairSpec

INVARIANTS
  TypeOK
  NoReportOnClosedChannel
  NoFalseConnectivity
  CompleteUnlessTimedOut

PROPERTIES
  EventuallyReturns
  NoGoroutineLeak

CHECK_DEADLOCK FALSE
