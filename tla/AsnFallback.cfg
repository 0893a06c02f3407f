\* Every record and every pair of answers, in every order of arrival.
CONSTANTS
  Fields <- MCFields
  GeoFields <- MCGeoFields
  Inputs <- MCInputs
  Knowledge <- MCKnowledge
  Nil = Nil

SPECIFICATION Spec

INVARIANTS
  AsnByPriority

PROPERTIES
  NoRaceOnIpInfo
  KnownFieldsKept

CHECK_DEADLOCK FALSE
