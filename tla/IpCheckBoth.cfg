\* Both families, two services: the two channels, the shared WaitGroup.
CONSTANTS
  NumServices = 2
  CheckTypes = {"both", "ipv6", "dual"}
  Fields <- MCFields
  GeoFields <- MCGeoFields
  Knowledge <- MCKnowledge
  Nil = Nil

SPECIFICATION FairSpec

INVARIANTS
  TypeOK
  NoSendOnClosedChannel
  NoAnswerDropped
  ResultInServiceOrder

PROPERTIES
  EventuallyReturns
  ImplementsLookup

CHECK_DEADLOCK FALSE
