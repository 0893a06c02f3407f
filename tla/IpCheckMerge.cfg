\* One family, two services: what the merge does to a field that is already set.
CONSTANTS
  NumServices = 2
  CheckTypes = {"ipv4"}
  Fields <- MCFields
  GeoFields <- MCGeoFields
  Knowledge <- MCKnowledge
  Nil = Nil

SPECIFICATION Spec

PROPERTY MergeKeepsNonEmpty

CHECK_DEADLOCK FALSE
