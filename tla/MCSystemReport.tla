--------------------------- MODULE MCSystemReport ----------------------------
EXTENDS SystemReport

\* Every collector finds everything, nothing or, where that makes another section,
\* a part.
MCFindings ==
  [s \in Names |->
     CASE s = "cgroup" -> {{"controllers", "limit"}, {"controllers", "soft_limit"}, {"v1"}, {}}
       [] s = "gpus" -> {{"connector"}, {"card", "blank"}}
       [] s = "pci" -> SUBSET Facts(s)
       [] s = "disks" -> {{"disk", "oversized", "logical"}}
       [] s = "firmware" -> {{"date"}}
       [] s = "raid" -> SUBSET Facts(s)
       [] OTHER -> {{}, Facts(s)}]
==============================================================================
