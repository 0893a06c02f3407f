------------------------- MODULE SystemReportProofs --------------------------
(***************************************************************************)
(* Proofs about SystemReport, for any systems and for machines on which the *)
(* collectors find whatever the code can tell apart.                        *)
(***************************************************************************)
EXTENDS SystemReport, TLAPS

\* The eleven collectors and their places.
LEMMA OrderFacts ==
  /\ Len(Order) = 11
  /\ \A i \in 1..11 : Order[i] \in Names
  /\ \A s \in Names : \E i \in 1..11 : s = Order[i]
  /\ Order[4] = "virtualization"
  /\ Order[6] = "pci"
  /\ Order[11] = "raid"
<1>1. Len(Order) = 11
  BY DEF Order
<1>2. \A i \in 1..11 : Order[i] \in Names
  BY <1>1 DEF Names
<1>3. \A s \in Names : \E i \in 1..11 : s = Order[i]
  BY <1>1 DEF Names
<1>4. Order[4] = "virtualization" /\ Order[6] = "pci" /\ Order[11] = "raid"
  BY DEF Order
<1>. QED BY <1>1, <1>2, <1>3, <1>4

\* Their number.
LEMMA LenOrder == Len(Order) = 11
BY OrderFacts

\* The names are those in the order and no others.
LEMMA NamesAre ==
  Names = {"cpu", "memory", "cgroup", "virtualization", "gpus", "pci", "disks",
           "network", "firmware", "topology", "raid"}
<1>1. 1..Len(Order) = {1, 2, 3, 4, 5, 6, 7, 8, 9, 10, 11}
  BY OrderFacts
<1>2. Names = {Order[i] : i \in {1, 2, 3, 4, 5, 6, 7, 8, 9, 10, 11}}
  BY <1>1 DEF Names
<1>. QED BY <1>2 DEF Order

-----------------------------------------------------------------------------

\* What the RAID section becomes when there are controllers.
LEMMA AvailableSection ==
  ASSUME NEW items \in SUBSET Items
  PROVE  /\ Section("available", items) \in SectionType
         /\ Section("available", items).availability = "available"
         /\ ~Section("available", items).error
<1>1. /\ Section("available", items) \in SectionType
      /\ Section("available", items).availability = "available"
  BY DEF Section, SectionType, Availabilities
<1>2. Section("available", items).error = ("available" \in {"unavailable", "error"})
  BY DEF Section
<1>3. "available" \notin {"unavailable", "error"}
  OBVIOUS
<1>4. ~Section("available", items).error
  BY <1>2, <1>3, Zenon
<1>. QED BY <1>1, <1>4

\* Whatever a collector finds, what it makes of it is a section, and unless it is
\* a list it says how available it is; virtualization always is on Linux.
LEMMA CollectedIsSection ==
  ASSUME NEW s \in Names, NEW system \in Systems, NEW found \in Findings[s]
  PROVE  /\ Collected(s, system, found) \in SectionType
         /\ s \notin Lists => Collected(s, system, found).availability # "none"
         /\ s = "virtualization" /\ system = "linux" =>
              Collected(s, system, found).availability = "available"
<1>1. found \subseteq Facts(s)
  BY FindingsAssumption
<1>2. ASSUME NEW av \in Availabilities, NEW items \in SUBSET Items
      PROVE  Section(av, items) \in SectionType /\ Section(av, items).availability = av
  BY DEF Section, SectionType
<1>3. \A needed : /\ AvailableIf(found, needed) \in SectionType
                   /\ AvailableIf(found, needed).availability # "none"
  BY DEF AvailableIf, Section, SectionType, Availabilities
<1>4. Cgroup(found) \in SectionType /\ Cgroup(found).availability # "none"
  BY DEF Cgroup, Section, SectionType, Availabilities
<1>5. /\ Virtualization(found) \in SectionType
      /\ Virtualization(found).availability = "available"
  BY DEF Virtualization, Section, SectionType, Availabilities
<1>6. GpuReports(found) \in SectionType /\ DiskReports(found) \in SectionType
  BY <1>2 DEF GpuReports, DiskReports, Availabilities, Items
<1>7. s = "pci" => Pci(found) \in SectionType /\ Pci(found).availability # "none"
  <2>1. s = "pci" => found \ {"glob_fails"} \subseteq Items
    BY <1>1 DEF Facts, Items
  <2>. QED BY <2>1, <1>2 DEF Pci, Availabilities
<1>8. Raid(found) \in SectionType /\ Raid(found).availability # "none"
  <2>1. found \cap {"array"} \subseteq Items
    BY DEF Items
  <2>. QED BY <2>1, <1>2 DEF Raid, Availabilities
<1>9. /\ OnLinux(s, found) \in SectionType
      /\ s \notin Lists => OnLinux(s, found).availability # "none"
      /\ s = "virtualization" => OnLinux(s, found).availability = "available"
  BY <1>3, <1>4, <1>5, <1>6, <1>7, <1>8, NamesAre
     DEF OnLinux, Lists, Cpu, Memory, NetworkTuning, Firmware, MemoryTopology
<1>10. /\ Section("none", {}) \in SectionType
       /\ Section("unsupported", {}) \in SectionType
       /\ Section("unsupported", {}).availability = "unsupported"
  BY DEF Section, SectionType, Availabilities
<1>. QED BY <1>9, <1>10 DEF Collected

-----------------------------------------------------------------------------
(***************************************************************************)
(* The inductive invariant: the types, how late a collector may be at each  *)
(* control state, and what the report holds before it is returned.          *)
(***************************************************************************)

Collecting == pc \in {"idle", "checking", "collecting"}

\* A collector was started under a live context, so none before it was late.
LateInv ==
  /\ ctx = "live" \/ pc \in {"idle", "collecting"} => late = 0
  /\ late <= 1

\* What has been collected is there, and nothing is said of the whole yet.
PrefixInv ==
  /\ pc = "collecting" => at <= 11
  /\ Collecting =>
       /\ report.availability = "available" /\ report.error = "none"
       /\ \A i \in 1..11 : i < at /\ Order[i] \notin Lists =>
            report.sections[Order[i]].availability # "none"
       /\ os = "linux" /\ 4 < at =>
            report.sections["virtualization"].availability = "available"

IInv ==
  /\ TypeOK
  /\ LateInv
  /\ PrefixInv
  /\ PartialReportsSaySo
  /\ UnavailableOffLinuxOnly

\* Before the call nothing has been collected and nothing is late.
LEMMA InitInv == Init => IInv
<1>. SUFFICES ASSUME Init PROVE IInv
  OBVIOUS
<1>1. Absent \in SectionType
  BY DEF Absent, Section, SectionType, Availabilities
<1>2. EmptyReport.sections \in [Names -> SectionType]
  BY <1>1 DEF EmptyReport
<1>3. TypeOK
  <2>1. /\ at \in 1..(Len(Order) + 1) /\ late \in 0..Len(Order)
        /\ pc = "idle" /\ ctx = "live" /\ os \in Systems
    BY LenOrder DEF Init
  <2>2. report \in [availability : {"available", "unavailable", "canceled"},
                   error : {"none", "canceled", "deadline"}, sections : [Names -> SectionType],
                   controllers : SUBSET {"controller"}]
    BY <1>2 DEF Init, EmptyReport
  <2>. QED BY <2>1, <2>2 DEF TypeOK
<1>4. LateInv /\ PrefixInv /\ PartialReportsSaySo /\ UnavailableOffLinuxOnly
  BY DEF Init, LateInv, PrefixInv, PartialReportsSaySo, UnavailableOffLinuxOnly, EmptyReport
<1>. QED BY <1>3, <1>4 DEF IInv

-----------------------------------------------------------------------------

\* One lemma for each action: making the call, the context's end, going on to a
\* collector, giving up, a collector's end and the last steps after all of them.
LEMMA CallKeeps == ASSUME IInv, Call PROVE IInv'
BY DEF IInv, Call, TypeOK, LateInv, PrefixInv, Collecting, PartialReportsSaySo,
       UnavailableOffLinuxOnly

\* The context's end makes no collector late that has ended before.
LEMMA CtxEndsKeeps ==
  ASSUME IInv, NEW why \in {"canceled", "deadline"}, CtxEnds(why) PROVE IInv'
<1>1. TypeOK' /\ LateInv' /\ PrefixInv' /\ UnavailableOffLinuxOnly'
  BY DEF IInv, CtxEnds, TypeOK, LateInv, PrefixInv, Collecting, UnavailableOffLinuxOnly
<1>2. PartialReportsSaySo'
  BY DEF IInv, CtxEnds, PartialReportsSaySo
<1>. QED BY <1>1, <1>2 DEF IInv

\* A collector is started under a live context only.
LEMMA ProceedKeeps == ASSUME IInv, Proceed PROVE IInv'
BY OrderFacts DEF IInv, Proceed, TypeOK, LateInv, PrefixInv, Collecting,
       PartialReportsSaySo, UnavailableOffLinuxOnly

\* A report that is given up says so.
LEMMA CancelKeeps == ASSUME IInv, Cancel PROVE IInv'
<1>1. TypeOK'
  BY DEF IInv, Cancel, TypeOK
<1>2. LateInv' /\ PrefixInv'
  BY DEF IInv, Cancel, LateInv, PrefixInv, Collecting
<1>3. report'.availability = "canceled" /\ report'.error = ctx' /\ ctx' # "live"
  BY DEF IInv, Cancel, TypeOK
<1>4. PartialReportsSaySo' /\ UnavailableOffLinuxOnly'
  BY <1>3 DEF PartialReportsSaySo, UnavailableOffLinuxOnly
<1>. QED BY <1>1, <1>2, <1>4 DEF IInv

\* A collector adds its section to the prefix and is the only one that can be late.
LEMMA CollectKeeps == ASSUME IInv, Collect PROVE IInv'
<1>. DEFINE s == Order[at]
<1>1. /\ at \in 1..11 /\ s \in Names /\ os \in Systems
      /\ late = 0 /\ pc' = "checking" /\ at' = at + 1
  <2>1. pc = "collecting" /\ pc' = "checking" /\ at' = at + 1
    BY DEF Collect
  <2>2. at \in 1..11
    BY <2>1, LenOrder DEF IInv, TypeOK, PrefixInv
  <2>3. late = 0 /\ os \in Systems
    BY <2>1 DEF IInv, TypeOK, LateInv
  <2>. QED BY <2>1, <2>2, <2>3, OrderFacts
<1>2. PICK found \in Findings[s] :
        report' = [report EXCEPT !.sections[s] = Collected(s, os, found)]
  BY DEF Collect
<1>. DEFINE new == Collected(s, os, found)
<1>3. /\ new \in SectionType
      /\ s \notin Lists => new.availability # "none"
      /\ s = "virtualization" /\ os = "linux" => new.availability = "available"
  BY <1>1, CollectedIsSection
<1>. HIDE DEF s, new
<1>4. /\ report'.sections = [report.sections EXCEPT ![s] = new]
      /\ report'.availability = report.availability
      /\ report'.error = report.error
      /\ report'.controllers = report.controllers
      /\ report'.sections \in [Names -> SectionType]
  <2>1. report' = [report EXCEPT !.sections[s] = new]
    BY <1>2 DEF new
  <2>. QED BY <2>1, <1>1, <1>3 DEF IInv, TypeOK
<1>5. TypeOK'
  <2>1. report' = [availability |-> report'.availability, error |-> report'.error,
                   sections |-> report'.sections, controllers |-> report'.controllers]
    BY <1>2 DEF IInv, TypeOK, new
  <2>2. late' \in 0..Len(Order) /\ at' \in 1..(Len(Order) + 1)
    BY <1>1, OrderFacts DEF Collect
  <2>. QED BY <2>1, <2>2, <1>1, <1>4 DEF IInv, TypeOK, Collect
<1>6. LateInv'
  BY <1>1 DEF LateInv, Collect
<1>7. PrefixInv'
  <2>1. report.availability = "available" /\ report.error = "none"
    BY DEF IInv, PrefixInv, Collecting, Collect
  <2>2. ASSUME NEW i \in 1..11, i < at', Order[i] \notin Lists
        PROVE  report'.sections[Order[i]].availability # "none"
    <3>1. Order[i] \in Names
      BY OrderFacts
    <3>2. report.sections \in [Names -> SectionType]
      BY DEF IInv, TypeOK
    <3>3. CASE Order[i] = s
      BY <3>1, <3>2, <3>3, <1>3, <1>4, <2>2
    <3>4. CASE Order[i] # s
      <4>1. i # at
        BY <3>4 DEF s
      <4>2. i < at /\ pc = "collecting"
        BY <4>1, <1>1, <2>2 DEF Collect
      <4>3. report.sections[Order[i]].availability # "none"
        BY <4>2, <2>2 DEF IInv, PrefixInv, Collecting
      <4>. QED BY <4>3, <3>1, <3>2, <3>4, <1>1, <1>4
    <3>. QED BY <3>3, <3>4
  <2>3. ASSUME os = "linux", 4 < at'
        PROVE  report'.sections["virtualization"].availability = "available"
    <3>1. "virtualization" \in Names
      BY NamesAre
    <3>2. CASE at = 4
      BY <3>1, <3>2, <1>1, <1>3, <1>4, <2>3, OrderFacts DEF IInv, TypeOK, s
    <3>3. CASE 4 < at
      <4>1. report.sections["virtualization"].availability = "available"
        BY <3>3, <2>3 DEF IInv, PrefixInv, Collecting, Collect
      <4>. QED BY <4>1, <3>1, <1>1, <1>3, <1>4, <2>3 DEF IInv, TypeOK
    <3>. QED BY <3>2, <3>3, <1>1, <2>3
  <2>4. os' = os
    BY DEF Collect
  <2>. QED BY <2>1, <2>2, <2>3, <2>4, <1>1, <1>4 DEF PrefixInv, Collecting
<1>8. PartialReportsSaySo' /\ UnavailableOffLinuxOnly'
  BY <1>1, <1>4 DEF IInv, PartialReportsSaySo, UnavailableOffLinuxOnly, Collect
<1>. QED BY <1>5, <1>6, <1>7, <1>8 DEF IInv

\* Sections that are all there stay so when the RAID section is revised.
LEMMA FinishKeeps == ASSUME IInv, Finish PROVE IInv'
<1>. DEFINE controllers == raidControllersFromPCI(report.sections["pci"])
            raid == Section("available", report.sections["raid"].items)
            sections == Revised(report.sections, controllers)
<1>1. /\ pc = "checking" /\ at = 12 /\ ctx = "live" /\ pc' = "returned"
      /\ os' = os /\ ctx' = ctx /\ at' = at /\ late' = late
  <2>1. /\ pc = "checking" /\ at > Len(Order) /\ ctx = "live" /\ pc' = "returned"
        /\ os' = os /\ ctx' = ctx /\ at' = at /\ late' = late
    BY DEF Finish
  <2>. QED BY <2>1, LenOrder DEF IInv, TypeOK
<1>2. report' = [availability |-> IF hasAvailableSection(sections) THEN "available"
                                                                  ELSE "unavailable",
                 error |-> "none", sections |-> sections, controllers |-> controllers]
  BY DEF Finish
<1>3. /\ report.sections \in [Names -> SectionType]
      /\ "raid" \in Names /\ "pci" \in Names /\ "virtualization" \in Names
  BY NamesAre DEF IInv, TypeOK
<1>4. /\ controllers = report.sections["pci"].items \cap {"controller"}
      /\ raid \in SectionType /\ raid.availability = "available" /\ ~raid.error
      /\ sections = IF controllers = {} THEN report.sections
                                       ELSE [report.sections EXCEPT !["raid"] = raid]
  <2>1. report.sections["raid"].items \subseteq Items
    BY <1>3 DEF SectionType
  <2>2. raid \in SectionType /\ raid.availability = "available" /\ ~raid.error
    BY <2>1, AvailableSection
  <2>. QED BY <2>2 DEF raidControllersFromPCI, Revised
<1>. HIDE DEF controllers, raid, sections
<1>5. sections \in [Names -> SectionType]
  BY <1>3, <1>4
<1>6. \A n \in Names \ Lists : sections[n].availability # "none"
  <2>1. ASSUME NEW n \in Names \ Lists
        PROVE  report.sections[n].availability # "none"
    <3>1. PICK i \in 1..11 : n = Order[i]
      BY OrderFacts
    <3>2. i < at /\ pc = "checking"
      BY <1>1
    <3>3. report.sections[Order[i]].availability # "none"
      BY <3>1, <3>2 DEF IInv, PrefixInv, Collecting
    <3>. QED BY <3>1, <3>3
  <2>. QED BY <2>1, <1>3, <1>4
<1>7. os = "linux" => sections["virtualization"].availability = "available"
  <2>1. os = "linux" => report.sections["virtualization"].availability = "available"
    BY <1>1 DEF IInv, PrefixInv, Collecting
  <2>. QED BY <2>1, <1>3, <1>4
<1>8. TypeOK'
  BY <1>1, <1>2, <1>4, <1>5 DEF IInv, TypeOK
<1>9. LateInv' /\ PrefixInv'
  BY <1>1 DEF IInv, LateInv, PrefixInv, Collecting
<1>10. PartialReportsSaySo'
  <2>1. "controller" \in sections["pci"].items =>
          /\ controllers = {"controller"}
          /\ sections["raid"].availability = "available" /\ ~sections["raid"].error
    <3>1. sections["pci"].items = report.sections["pci"].items
      BY <1>3, <1>4
    <3>. QED BY <3>1, <1>3, <1>4
  <2>. QED BY <2>1, <1>1, <1>2, <1>6 DEF PartialReportsSaySo
<1>11. UnavailableOffLinuxOnly'
  <2>1. os = "linux" => hasAvailableSection(sections)
    BY <1>7 DEF hasAvailableSection, Essential
  <2>. QED BY <2>1, <1>1, <1>2 DEF UnavailableOffLinuxOnly
<1>. QED BY <1>8, <1>9, <1>10, <1>11 DEF IInv

\* The invariant is inductive.
LEMMA NextInv == IInv /\ [Next]_vars => IInv'
<1>. SUFFICES ASSUME IInv, [Next]_vars PROVE IInv'
  OBVIOUS
<1>1. CASE UNCHANGED vars
  BY <1>1 DEF IInv, vars, TypeOK, LateInv, PrefixInv, Collecting, PartialReportsSaySo,
              UnavailableOffLinuxOnly
<1>2. CASE Next
  BY <1>2, CallKeeps, CtxEndsKeeps, ProceedKeeps, CancelKeeps, CollectKeeps, FinishKeeps
     DEF Next
<1>. QED BY <1>1, <1>2

\* So it holds in every reachable state.
LEMMA Invariance == Spec => []IInv
BY InitInv, NextInv, PTL DEF Spec

-----------------------------------------------------------------------------

\* The types hold in every reachable state: whatever the machine, the report's
\* and the sections' availabilities are those that readers know.
THEOREM TypeCorrect == Spec => []TypeOK
<1>1. IInv => TypeOK
  BY DEF IInv
<1>. QED BY Invariance, <1>1, PTL

\* Wherever the context ends, at most one collector is still carried to its end.
THEOREM CancellationIsPrompt == Spec => []StopsBetweenCollectors
<1>1. IInv => StopsBetweenCollectors
  BY DEF IInv, LateInv, StopsBetweenCollectors
<1>. QED BY Invariance, <1>1, PTL

\* A report that is not marked as canceled is whole, for any machine.
THEOREM WholeUnlessCanceled == Spec => []PartialReportsSaySo
<1>1. IInv => PartialReportsSaySo
  BY DEF IInv
<1>. QED BY Invariance, <1>1, PTL

\* On Linux no machine makes the report as a whole unavailable.
THEOREM LinuxIsNeverUnavailable == Spec => []UnavailableOffLinuxOnly
<1>1. IInv => UnavailableOffLinuxOnly
  BY DEF IInv
<1>. QED BY Invariance, <1>1, PTL
-----------------------------------------------------------------------------
(***************************************************************************)
(* What is collected stays. Of the sections, only that of RAID is written a *)
(* second time, and the first time it was there to be revised at all only   *)
(* on Linux, where it is either available or not.                           *)
(***************************************************************************)

RaidIsRevisable(raid) ==
  raid = Section("available", raid.items) \/ raid.availability = "unavailable"

\* The collectors to come have left nothing yet; no controllers off Linux.
SectionsInv ==
  Collecting =>
    /\ \A i \in 1..11 : at <= i => report.sections[Order[i]] = Absent
    /\ os # "linux" /\ 6 < at => report.sections["pci"].items = {}
    /\ os = "linux" /\ 11 < at => RaidIsRevisable(report.sections["raid"])

\* No collector is listed twice.
LEMMA OrderIsInjective == \A i, j \in 1..11 : Order[i] = Order[j] => i = j
<1>1. ASSUME NEW i \in 1..11, NEW j \in 1..11, Order[i] = Order[j] PROVE i = j
  <2>1. i \in {1, 2, 3, 4, 5, 6, 7, 8, 9, 10, 11} /\ j \in {1, 2, 3, 4, 5, 6, 7, 8, 9, 10, 11}
    OBVIOUS
  <2>. QED BY <1>1, <2>1 DEF Order
<1>. QED BY <1>1

\* What the two collectors make that the last step reads.
LEMMA RaidAndPci ==
  ASSUME NEW system, NEW found
  PROVE  /\ system # "linux" => Collected("pci", system, found).items = {}
         /\ system = "linux" => RaidIsRevisable(Collected("raid", system, found))
<1>1. system # "linux" => Collected("pci", system, found).items = {}
  BY DEF Collected, Section
<1>2. RaidIsRevisable(Raid(found))
  <2>1. CASE "mdstat" \in found
    BY <2>1 DEF Raid, Section, RaidIsRevisable
  <2>2. CASE "mdstat" \notin found
    BY <2>2 DEF Raid, Section, RaidIsRevisable
  <2>. QED BY <2>1, <2>2
<1>3. system = "linux" => Collected("raid", system, found) = Raid(found)
  BY Zenon DEF Collected, OnLinux
<1>. QED BY <1>1, <1>2, <1>3

\* A collector writes to its own section, which was empty.
LEMMA CollectWrites ==
  ASSUME IInv, SectionsInv, Collect
  PROVE  /\ pc = "collecting" /\ pc' = "checking" /\ os' = os
         /\ at \in 1..11 /\ at' = at + 1
         /\ report.sections[Order[at]] = Absent
         /\ \A s \in Names : s # Order[at] => report'.sections[s] = report.sections[s]
         /\ \E found : report'.sections[Order[at]] = Collected(Order[at], os, found)
<1>1. pc = "collecting" /\ pc' = "checking" /\ at' = at + 1 /\ os' = os
  BY DEF Collect
<1>2. at \in 1..11
  BY <1>1, LenOrder DEF IInv, TypeOK, PrefixInv
<1>3. report.sections[Order[at]] = Absent
  BY <1>1, <1>2 DEF SectionsInv, Collecting
<1>4. PICK found \in Findings[Order[at]] :
        report' = [report EXCEPT !.sections[Order[at]] = Collected(Order[at], os, found)]
  BY DEF Collect
<1>5. Order[at] \in Names
  BY <1>2, OrderFacts
<1>6. report'.sections = [report.sections EXCEPT ![Order[at]] = Collected(Order[at], os, found)]
  BY <1>4 DEF IInv, TypeOK
<1>7. report.sections \in [Names -> SectionType]
  BY DEF IInv, TypeOK
<1>. QED BY <1>1, <1>2, <1>3, <1>5, <1>6, <1>7

\* A collector writes its own section, the sections of those to come stay absent.
LEMMA CollectKeepsSections == ASSUME IInv, SectionsInv, Collect PROVE SectionsInv'
<1>1. /\ pc = "collecting" /\ os' = os
      /\ at \in 1..11 /\ at' = at + 1
      /\ \A s \in Names : s # Order[at] => report'.sections[s] = report.sections[s]
  BY CollectWrites
<1>2. PICK found : report'.sections[Order[at]] = Collected(Order[at], os, found)
  BY CollectWrites
<1>3. ASSUME NEW i \in 1..11, at' <= i PROVE report'.sections[Order[i]] = Absent
  <2>1. Order[i] # Order[at] /\ Order[i] \in Names
    BY <1>1, <1>3, OrderIsInjective, OrderFacts
  <2>2. report.sections[Order[i]] = Absent
    BY <1>1, <1>3 DEF SectionsInv, Collecting
  <2>. QED BY <1>1, <2>1, <2>2
<1>4. ASSUME os # "linux", 6 < at' PROVE report'.sections["pci"].items = {}
  <2>1. CASE at = 6
    BY <1>2, <1>4, <2>1, RaidAndPci, OrderFacts
  <2>2. CASE at # 6
    <3>1. 6 < at /\ "pci" \in Names /\ "pci" # Order[at]
      BY <1>1, <1>4, <2>2, OrderIsInjective, OrderFacts, NamesAre
    <3>2. report.sections["pci"].items = {}
      BY <1>1, <1>4, <3>1 DEF SectionsInv, Collecting
    <3>. QED BY <1>1, <3>1, <3>2
  <2>. QED BY <2>1, <2>2
<1>5. ASSUME os = "linux", 11 < at' PROVE RaidIsRevisable(report'.sections["raid"])
  <2>1. at = 11
    BY <1>1, <1>5
  <2>. QED BY <1>2, <1>5, <2>1, RaidAndPci, OrderFacts
<1>. QED BY <1>1, <1>3, <1>4, <1>5 DEF SectionsInv

\* Only collecting and finishing touch the sections.
LEMMA SectionsInductive == IInv /\ SectionsInv /\ [Next]_vars => SectionsInv'
<1>. SUFFICES ASSUME IInv, SectionsInv, [Next]_vars PROVE SectionsInv'
  OBVIOUS
<1>1. CASE Collect
  BY <1>1, CollectKeepsSections
<1>2. CASE Finish \/ Cancel
  BY <1>2 DEF Finish, Cancel, SectionsInv, Collecting
<1>3. CASE Call \/ Proceed \/ (\E why \in {"canceled", "deadline"} : CtxEnds(why)) \/ UNCHANGED vars
  <2>1. UNCHANGED <<os, at, report>> /\ (pc' \in {"idle", "checking", "collecting"} => Collecting)
    BY <1>3 DEF Call, Proceed, CtxEnds, vars, Collecting
  <2>. QED BY <2>1 DEF SectionsInv, Collecting
<1>. QED BY <1>1, <1>2, <1>3 DEF Next

\* Controllers revise a RAID section that is available to what it is.
LEMMA FinishRevisesRaidOnly ==
  ASSUME IInv, SectionsInv, Finish, NEW s \in Names, report'.sections[s] # report.sections[s]
  PROVE  /\ s = "raid"
         /\ report.sections[s].availability = "unavailable"
         /\ report'.sections[s].availability = "available"
<1>. DEFINE controllers == raidControllersFromPCI(report.sections["pci"])
            new == Section("available", report.sections["raid"].items)
<1>1. pc = "checking" /\ at = 12
  BY LenOrder DEF Finish, IInv, TypeOK
<1>2. report'.sections = Revised(report.sections, controllers)
  BY DEF Finish
<1>3. /\ report.sections \in [Names -> SectionType]
      /\ "raid" \in Names /\ "pci" \in Names
  BY NamesAre DEF IInv, TypeOK
<1>4. new.availability = "available"
  BY DEF Section
<1>5. controllers # {} /\ report'.sections = [report.sections EXCEPT !["raid"] = new]
  BY <1>2 DEF Revised
<1>6. os = "linux"
  <2>1. report.sections["pci"].items # {}
    BY <1>5 DEF raidControllersFromPCI
  <2>. QED BY <2>1, <1>1 DEF SectionsInv, Collecting
<1>7. RaidIsRevisable(report.sections["raid"])
  BY <1>1, <1>6 DEF SectionsInv, Collecting
<1>. HIDE DEF new, controllers
<1>8. s = "raid" /\ report'.sections["raid"] = new
  BY <1>3, <1>5
<1>9. report.sections["raid"] # new
  BY <1>8
<1>. QED BY <1>4, <1>7, <1>8, <1>9 DEF RaidIsRevisable, new

\* What any collector has found stays, also when the call is given up: on any machine a
\* section changes at its own turn and never again, but for the RAID section, which
\* becomes available when there are controllers.
THEOREM CollectedSectionsStay == Spec => CollectedIsKept
<1>1. Init => SectionsInv
  <2>1. \A i \in 1..11 : Order[i] \in Names
    BY OrderFacts
  <2>. QED BY <2>1 DEF Init, SectionsInv, EmptyReport
<1>2. IInv /\ SectionsInv /\ [Next]_vars =>
        [\A s \in Names :
           report.sections[s] # Absent /\ report'.sections[s] # report.sections[s] =>
             /\ s = "raid"
             /\ report.sections[s].availability = "unavailable"
             /\ report'.sections[s].availability = "available"]_vars
  <2>. SUFFICES ASSUME IInv, SectionsInv, [Next]_vars,
                       NEW s \in Names, report.sections[s] # Absent,
                       report'.sections[s] # report.sections[s]
                PROVE  /\ s = "raid"
                       /\ report.sections[s].availability = "unavailable"
                       /\ report'.sections[s].availability = "available"
    OBVIOUS
  <2>1. CASE Collect
    BY <2>1, CollectWrites
  <2>2. CASE Finish
    BY <2>2, FinishRevisesRaidOnly
  <2>3. CASE Cancel
    BY <2>3 DEF Cancel, IInv, TypeOK
  <2>4. CASE Call \/ Proceed \/ (\E why \in {"canceled", "deadline"} : CtxEnds(why)) \/ UNCHANGED vars
    BY <2>4 DEF Call, Proceed, CtxEnds, vars
  <2>. QED BY <2>1, <2>2, <2>3, <2>4 DEF Next
<1>. QED BY <1>1, <1>2, SectionsInductive, Invariance, PTL DEF Spec, CollectedIsKept
=============================================================================
