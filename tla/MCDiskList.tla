----------------------------- MODULE MCDiskList ------------------------------
EXTENDS DiskList, Functions

MCPhysical ==
  [n \in Names |-> IF n \in {"sda1", "sda2"} THEN "sda" ELSE IF n = "sdb1" THEN "sdb" ELSE n]

\* A device mounted twice, two roots, a rescue system's mount, a virtual file system.
Lines ==
  {[dev |-> "sda1", mount |-> "/", fs |-> "disk"],
   [dev |-> "sda1", mount |-> "/data", fs |-> "disk"],
   [dev |-> "sda2", mount |-> "/data", fs |-> "disk"],
   [dev |-> "sda2", mount |-> "/run/media", fs |-> "disk"],
   [dev |-> "sdb1", mount |-> "/", fs |-> "disk"],
   [dev |-> "sdb1", mount |-> "/snap", fs |-> "disk"],
   [dev |-> "tmpfs", mount |-> "/dev", fs |-> "virtual"]}

MCTables == {t \in UNION {[1..n -> Lines] : n \in 0..3} : IsInjective(t)}
==============================================================================
