\* One run of the command on each kind of system.
CONSTANTS
  Systems = {"linux", "darwin", "freebsd", "windows"}
  Lengths = {0, 48, 64, 129}
  Packets <- MCPackets
  Timeout = 3
  Bits = {0, 22, 24, 32, 33}
  Pixels = 4

SPECIFICATION Spec

INVARIANTS
  ListenerBounded
  WalkOnOptions
  MaskByPriority
  ActiveRowHonest

CHECK_DEADLOCK FALSE
