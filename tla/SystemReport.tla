---------------------------- MODULE SystemReport -----------------------------
(***************************************************************************)
(* collectSystemReport (system/report.go): eleven collectors run one after  *)
(* the other, the context is looked at before each of them and after the    *)
(* last, and at the end the RAID section is revised by what the PCI section *)
(* found. A collector is modelled by what it makes of the facts it finds    *)
(* on the machine: the availability of its section and the items it lists.  *)
(***************************************************************************)
EXTENDS Naturals, Sequences

CONSTANTS
  Systems,   \* the operating systems told apart: "linux" or "other"
  Findings   \* for each collector, the sets of facts it may find on Linux

VARIABLES
  pc,      \* "idle", "checking", "collecting" or "returned"
  os,      \* the argument operatingSystem
  ctx,     \* "live", or why it is over: "canceled" or "deadline"
  at,      \* the place in Order of the next collector
  report,
  late     \* how many collectors ended after the context did

vars == <<pc, os, ctx, at, report, late>>

Order == <<"cpu", "memory", "cgroup", "virtualization", "gpus", "pci", "disks",
           "network", "firmware", "topology", "raid">>
Names == {Order[i] : i \in 1..Len(Order)}

\* The two that are lists of reports and have no availability of their own.
Lists == {"gpus", "disks"}

\* What hasAvailableSection is asked about.
Essential == {"cpu", "memory", "cgroup", "virtualization"}

-----------------------------------------------------------------------------
(***************************************************************************)
(* The collectors. A section that is neither available nor unsupported      *)
(* comes with an error. "none" stands for Go's empty string.                *)
(***************************************************************************)

Section(av, items) ==
  [availability |-> av, error |-> av \in {"unavailable", "error"}, items |-> items]

Absent == Section("none", {})

AvailableIf(found, needed) ==
  Section(IF needed \subseteq found THEN "available" ELSE "unavailable", {})

Cpu(found) == AvailableIf(found, {"cpuinfo", "records"})
Memory(found) == AvailableIf(found, {"meminfo", "MemTotal"})

\* The list of algorithms, a board's version and the date of the BIOS do not count.
NetworkTuning(found) == AvailableIf(found, {"tuning"})
Firmware(found) == AvailableIf(found, {"name"})
MemoryTopology(found) == AvailableIf(found, {"node_dimm_or_hugepage"})

\* Fields of version 2 that are limits proper make the section available, the
\* others (memory.high and memory.swap.max) do not.
Cgroup(found) ==
  Section(CASE {"controllers", "limit"} \subseteq found -> "available"
            [] "controllers" \in found /\ "limit" \notin found -> "unavailable"
            [] "controllers" \notin found /\ "v1" \in found -> "available"
            [] OTHER -> "unsupported", {})

BugVirtualization(found) == AvailableIf(found, {"product"})

\* Always known, if only as bare metal.
Virtualization(found) == Section("available", {})

\* A card none of whose identifiers can be read is listed all the same; its
\* connectors are not.
GpuReports(found) ==
  Section("none", {IF d = "blank" THEN "unavailable" ELSE "available" : d \in found \ {"connector"}})

Pci(found) ==
  LET devices == found \ {"glob_fails"} IN
  IF "glob_fails" \in found THEN Section("error", {})
  ELSE Section(IF devices \subseteq {"blank"} THEN "unavailable" ELSE "available", devices)

\* A disk whose sectors do not fit into 63 bits of bytes has no size but an error.
DiskReports(found) ==
  Section("none", {IF d = "oversized" THEN "error" ELSE "available" : d \in found \ {"logical"}})

Raid(found) ==
  IF "mdstat" \in found THEN Section("available", found \cap {"array"})
                        ELSE Section("unavailable", {})

\* What each collector may find on Linux.
Facts(s) ==
  CASE s = "cpu" -> {"cpuinfo", "records"}
    [] s = "memory" -> {"meminfo", "MemTotal"}
    [] s = "cgroup" -> {"controllers", "limit", "soft_limit", "v1"}
    [] s = "virtualization" -> {"container", "product"}
    [] s = "gpus" -> {"card", "blank", "connector"}
    [] s = "pci" -> {"controller", "device", "blank", "glob_fails"}
    [] s = "disks" -> {"disk", "oversized", "logical"}
    [] s = "network" -> {"tuning", "choices"}
    [] s = "firmware" -> {"name", "date"}
    [] s = "topology" -> {"node_dimm_or_hugepage"}
    [] OTHER -> {"mdstat", "array"}

ASSUME FindingsAssumption ==
  /\ Findings \in [Names -> SUBSET SUBSET UNION {Facts(s) : s \in Names}]
  /\ \A s \in Names : Findings[s] # {} /\ \A found \in Findings[s] : found \subseteq Facts(s)

OnLinux(s, found) ==
  CASE s = "cpu" -> Cpu(found)
    [] s = "memory" -> Memory(found)
    [] s = "cgroup" -> Cgroup(found)
    [] s = "virtualization" -> Virtualization(found)
    [] s = "gpus" -> GpuReports(found)
    [] s = "pci" -> Pci(found)
    [] s = "disks" -> DiskReports(found)
    [] s = "network" -> NetworkTuning(found)
    [] s = "firmware" -> Firmware(found)
    [] s = "topology" -> MemoryTopology(found)
    [] OTHER -> Raid(found)

Collected(s, system, found) ==
  IF system = "linux" THEN OnLinux(s, found)
  ELSE Section(IF s \in Lists THEN "none" ELSE "unsupported", {})

\* By class or by driver.
raidControllersFromPCI(pci) == pci.items \cap {"controller"}

hasAvailableSection(sections) == \E s \in Essential : sections[s].availability = "available"

-----------------------------------------------------------------------------

EmptyReport ==
  [availability |-> "available", error |-> "none", sections |-> [s \in Names |-> Absent],
   controllers |-> {}]

Init ==
  /\ pc = "idle" /\ os \in Systems
  /\ ctx = "live"
  /\ at = 1
  /\ report = EmptyReport
  /\ late = 0

Call ==
  /\ pc = "idle"
  /\ pc' = "checking"
  /\ UNCHANGED <<os, ctx, at, report, late>>

CtxEnds(why) ==
  /\ ctx = "live"
  /\ ctx' = why
  /\ UNCHANGED <<pc, os, at, report, late>>

BugProceedAnyway ==
  /\ pc = "checking" /\ at <= Len(Order) /\ (ctx = "live" \/ at > 1)
  /\ pc' = "collecting"
  /\ UNCHANGED <<os, ctx, at, report, late>>

Proceed ==
  /\ pc = "checking" /\ at <= Len(Order) /\ ctx = "live"
  /\ pc' = "collecting"
  /\ UNCHANGED <<os, ctx, at, report, late>>

BugCancelSilently ==
  /\ pc = "checking" /\ ctx # "live"
  /\ pc' = "returned"
  /\ UNCHANGED <<os, ctx, at, report, late>>

BugCancelByReason ==
  /\ pc = "checking" /\ ctx # "live"
  /\ pc' = "returned"
  /\ report' = [report EXCEPT !.availability = ctx, !.error = ctx]
  /\ UNCHANGED <<os, ctx, at, late>>

BugCancelStartsOver ==
  /\ pc = "checking" /\ ctx # "live"
  /\ pc' = "returned"
  /\ report' = [EmptyReport EXCEPT !.availability = "canceled", !.error = ctx]
  /\ UNCHANGED <<os, ctx, at, late>>

\* cancelSystemReport; the sections collected so far stay in the report.
Cancel ==
  /\ pc = "checking" /\ ctx # "live"
  /\ pc' = "returned"
  /\ report' = [report EXCEPT !.availability = "canceled", !.error = ctx]
  /\ UNCHANGED <<os, ctx, at, late>>

\* A collector runs to its end whatever becomes of the context.
Collect ==
  /\ pc = "collecting"
  /\ pc' = "checking"
  /\ at' = at + 1
  /\ \E found \in Findings[Order[at]] :
       report' = [report EXCEPT !.sections[Order[at]] = Collected(Order[at], os, found)]
  /\ late' = IF ctx = "live" THEN late ELSE late + 1
  /\ UNCHANGED <<os, ctx>>

\* Controllers make an unavailable RAID section available and take its error away.
Revised(sections, controllers) ==
  IF controllers = {} THEN sections
  ELSE [sections EXCEPT !["raid"] = Section("available", sections["raid"].items)]

\* After the last check nothing looks at the context any more.
Finish ==
  /\ pc = "checking" /\ at > Len(Order) /\ ctx = "live"
  /\ LET controllers == raidControllersFromPCI(report.sections["pci"])
         sections == Revised(report.sections, controllers) IN
       report' = [availability |-> IF hasAvailableSection(sections) THEN "available"
                                                                   ELSE "unavailable",
                  error |-> "none", sections |-> sections, controllers |-> controllers]
  /\ pc' = "returned"
  /\ UNCHANGED <<os, ctx, at, late>>

Next ==
  \/ Call
  \/ \E why \in {"canceled", "deadline"} : CtxEnds(why)
  \/ Proceed
  \/ Cancel
  \/ Collect
  \/ Finish

Spec == Init /\ [][Next]_vars

-----------------------------------------------------------------------------
(***************************************************************************)
(* Properties                                                               *)
(***************************************************************************)

Availabilities == {"none", "available", "unavailable", "unsupported", "error"}
Items == {"controller", "device", "blank", "array", "available", "unavailable", "error"}
SectionType == [availability : Availabilities, error : BOOLEAN, items : SUBSET Items]

\* The variables stay within their types.
TypeOK ==
  /\ pc \in {"idle", "checking", "collecting", "returned"}
  /\ os \in Systems
  /\ ctx \in {"live", "canceled", "deadline"}
  /\ at \in 1..(Len(Order) + 1)
  /\ late \in 0..Len(Order)
  /\ report \in [availability : {"available", "unavailable", "canceled"},
                 error : {"none", "canceled", "deadline"}, sections : [Names -> SectionType],
                 controllers : SUBSET {"controller"}]

\* Cancellation takes effect between any two collectors: of all eleven at most the
\* one under way is still carried to its end, wherever the context ends.
StopsBetweenCollectors == late <= 1

\* A report that does not say it was canceled has every section, its RAID
\* section speaks for the controllers that PCI found, and the reason given is
\* always the context's: none of the twelve early returns leaves a partial report
\* that looks like a whole one.
PartialReportsSaySo ==
  pc = "returned" =>
    IF report.availability = "canceled" THEN ctx # "live" /\ report.error = ctx
    ELSE /\ report.error = "none"
         /\ \A s \in Names \ Lists : report.sections[s].availability # "none"
         /\ "controller" \in report.sections["pci"].items =>
              /\ report.controllers = {"controller"}
              /\ report.sections["raid"].availability = "available"
              /\ ~report.sections["raid"].error

\* On Linux the report as a whole is never unavailable, because the virtualization
\* section never is: the branch is there for the other systems alone.
UnavailableOffLinuxOnly == report.availability = "unavailable" => os # "linux"

\* What a collector has found is never lost again, not even when the call is
\* canceled later: a section changes only when its own turn comes, and the RAID
\* section once more, from unavailable to available.
CollectedIsKept ==
  [][\A s \in Names :
       report.sections[s] # Absent /\ report'.sections[s] # report.sections[s] =>
         /\ s = "raid"
         /\ report.sections[s].availability = "unavailable"
         /\ report'.sections[s].availability = "available"]_vars

=============================================================================
