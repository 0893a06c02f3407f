\* Two calls on each kind of system, with and without a network.
CONSTANTS
  Systems = {"linux", "windows", "darwin", "freebsd"}
  Counts = {0, 1, 2, 3}
  Sockets = {0, 2}
  NameLengths = {3, 5}
  StackTypes = {"none", "IPv4"}
  Methods = 3
  Servers = 2
  MaxCalls = 2

SPECIFICATION Spec

INVARIANTS
  TypeOK
  AnswersShown
  OnlyLostRecordCrashes
  NatAnswerKept
  HybridIsUneven

PROPERTIES
  FrequencyKept

CHECK_DEADLOCK FALSE
