\* One report, on Linux or not, of every machine that MCFindings describes.
CONSTANTS
  Systems = {"linux", "other"}
  Findings <- MCFindings

SPECIFICATION Spec

INVARIANTS
  TypeOK
  StopsBetweenCollectors
  PartialReportsSaySo
  UnavailableOffLinuxOnly

PROPERTIES
  CollectedIsKept

CHECK_DEADLOCK FALSE
