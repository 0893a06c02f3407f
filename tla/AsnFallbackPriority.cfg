\* A service that knows the AS number is enough to fill it in.
CONSTANTS
  Fields <- MCFields
  GeoFields <- MCGeoFields
  Inputs <- MCInputs
  Knowledge <- MCKnowledge
  Nil = Nil

SPECIFICATION Spec

INVARIANT FilledWhenAnyServiceKnows

CHECK_DEADLOCK FALSE
