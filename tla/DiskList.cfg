\* Every table of at most three mounts, on each kind of system.
CONSTANTS
  Systems = {"linux", "windows", "bsd", "darwin"}
  Devices = {"sda1", "sda2", "sdb1", "tmpfs"}
  Mounts = {"/data", "/run/media", "/snap", "/dev"}
  RunMounts = {"/run/media"}
  HiddenMounts = {"/snap"}
  Physical <- MCPhysical
  Tables <- MCTables
  OneGB = 2
  FiftyGB = 3
  Sizes = {0, 1, 2, 4}

SPECIFICATION Spec

INVARIANTS
  EveryDiskOnce
  SystemDiskShown

CHECK_DEADLOCK FALSE
