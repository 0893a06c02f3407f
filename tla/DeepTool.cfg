\* One call of either tool, on Linux or not, with every kind of target.
CONSTANTS
  Targets = {"none", "safe", "unsafe"}
  Platforms = {"linux", "other"}

SPECIFICATION FairSpec

INVARIANTS
  OkAgainstNoEvidence
  TestLeftForAReason

PROPERTIES
  ReturnsWhenOver

CHECK_DEADLOCK FALSE
