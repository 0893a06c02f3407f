------------------------------ MODULE DiskList -------------------------------
(***************************************************************************)
(* getDiskInfo (system/disk.go): the mounted file systems of one machine    *)
(* become the rows of the disk list. Each system collects them in its own   *)
(* way, then the disk with the root is looked for elsewhere when it was not *)
(* among them, and the list is completed, filtered and reduced to one row   *)
(* for each physical disk and one for the disk with the root.               *)
(*                                                                         *)
(* Go ranges over its maps in any order: what depends on the order is a     *)
(* choice here, and the lists are sets until they are sorted. Sizes are     *)
(* small numbers; 0 stands for a file system that has none or whose usage   *)
(* cannot be read.                                                          *)
(***************************************************************************)
EXTENDS Naturals, FiniteSets, Sequences

CONSTANTS
  Systems,       \* the values of runtime.GOOS told apart
  Devices,       \* the devices of mounted file systems
  Mounts,        \* all mount points but "/"
  RunMounts,     \* those of them under an excluded point that contains "/run"
  HiddenMounts,  \* those of them under another excluded point
  Physical,      \* getPhysicalDiskName of each device
  Tables,        \* the tables of mounted file systems: sequences of dev, mount, fs
  OneGB, FiftyGB,
  Sizes

Nobody == [dev |-> "none", mount |-> "none", size |-> 0]
Names == Devices \cup {"overlay", "/"}

ASSUME DiskAssumption ==
  /\ Systems \subseteq {"linux", "windows", "bsd", "darwin"}
  /\ "none" \notin Names /\ Devices \cap {"overlay", "/"} = {}
  /\ Physical \in [Names -> STRING]
  /\ Sizes \subseteq Nat /\ 0 \in Sizes
  /\ OneGB \in Nat \ {0} /\ FiftyGB \in Nat /\ OneGB < FiftyGB
  /\ \A t \in Tables : t \in Seq([dev : Devices, mount : Mounts \cup {"/"}, fs : {"disk", "virtual"}])

VARIABLES
  os, table, size, \* the machine
  dfRoot,          \* what df prints for "/": a device, "overlay" or nothing
  pc,
  infos,           \* diskInfos
  current,         \* currentDiskInfo, Nobody for nil
  bootPath,
  collected,       \* the list before the small disks are taken out
  shown            \* the sorted list

vars == <<os, table, size, dfRoot, pc, infos, current, bootPath, collected, shown>>
machine == <<os, table, size, dfRoot>>

Entry(d, m) == [dev |-> d, mount |-> m, size |-> size[d]]

Init ==
  /\ os \in Systems /\ table \in Tables
  /\ size \in [Devices -> Sizes]
  /\ dfRoot \in {"none", "overlay"} \cup {table[i].dev : i \in DOMAIN table}
  /\ pc = "collect"
  /\ infos = {} /\ collected = {} /\ current = Nobody /\ bootPath = "none"
  /\ shown = <<>>

-----------------------------------------------------------------------------
(***************************************************************************)
(* Which file systems count. A big disk under /run is kept: a rescue system *)
(* mounts the machine's disks there.                                        *)
(***************************************************************************)

MountKept(p) ==
  /\ p.mount \notin HiddenMounts
  /\ p.mount \in RunMounts => size[p.dev] > FiftyGB

Usable(p) == p.fs = "disk" /\ MountKept(p)
UsableRows == {n \in DOMAIN table : Usable(table[n])}

\* The first mount of each device among some rows of the table.
FirstUses(kept) == {n \in kept : \A j \in kept : j < n => table[j].dev # table[n].dev}
FirstMounts(kept) == {Entry(table[n].dev, table[n].mount) : n \in FirstUses(kept)}

Readable(entries) == {e \in entries : e.size > 0}

\* On Windows the first device that is looked at is taken for the boot disk.
LinuxRoots(entries) == {e \in entries : e.mount = "/" \/ os = "windows"}

LinuxDisks ==
  /\ pc = "collect" /\ os \in {"linux", "windows"}
  /\ LET found == Readable(FirstMounts(UsableRows))
         overlay == [dev |-> "overlay", mount |-> "/", size |-> OneGB]
     IN \/ \E e \in LinuxRoots(found) : current' = e /\ bootPath' = e.dev /\ infos' = found
        \/ /\ LinuxRoots(found) = {}
           /\ IF dfRoot = "overlay"
              THEN current' = overlay /\ bootPath' = "overlay" /\ infos' = found \cup {overlay}
              ELSE infos' = found /\ UNCHANGED <<current, bootPath>>
  /\ pc' = "fallback"
  /\ UNCHANGED <<machine, collected, shown>>

\* df -h prints every file system, with a size or without one.
BSDDisks ==
  /\ pc = "collect" /\ os = "bsd"
  /\ infos' = FirstMounts({n \in DOMAIN table : MountKept(table[n])})
  /\ LET roots == {e \in infos' : e.mount = "/"} IN
       \/ \E e \in roots : current' = e /\ bootPath' = e.dev
       \/ roots = {} /\ UNCHANGED <<current, bootPath>>
  /\ pc' = "fallback"
  /\ UNCHANGED <<machine, collected, shown>>

-----------------------------------------------------------------------------
(***************************************************************************)
(* macOS: df for the root; of the other devices the last mount counts, and  *)
(* of each physical disk the largest device.                                *)
(***************************************************************************)

OtherMounts(boot) ==
  LET kept == {n \in UsableRows : table[n].dev # boot}
      fresh == {n \in kept : \A j \in kept : j < n => table[j].mount # table[n].mount}
  IN {Entry(table[n].dev, table[n].mount) :
        n \in {m \in fresh : \A j \in fresh : j > m => table[j].dev # table[m].dev}}

PhysicalOf(entries) == {Physical[e.dev] : e \in entries}
Members(entries, p) == {e \in entries : Physical[e.dev] = p}
BugIsLargest(e, entries) == \A o \in entries : o.size >= e.size

IsLargest(e, entries) == \A o \in entries : o.size <= e.size

\* A choice of one largest entry for each physical disk; ties go either way.
Reductions(entries) ==
  {pick \in SUBSET entries :
     /\ \A p \in PhysicalOf(entries) : Cardinality(Members(pick, p)) = 1
     /\ \A e \in pick : IsLargest(e, Members(entries, Physical[e.dev]))}

MacOSDisks ==
  /\ pc = "collect" /\ os = "darwin"
  /\ LET boot == IF dfRoot \in Devices THEN dfRoot ELSE "none"
         root == IF boot = "none" THEN {} ELSE {Entry(boot, "/")}
     IN /\ \E others \in Reductions(Readable(OtherMounts(boot))) : infos' = root \cup others
        /\ IF boot = "none" THEN UNCHANGED <<current, bootPath>>
                            ELSE current' = Entry(boot, "/") /\ bootPath' = boot
  /\ pc' = "fallback"
  /\ UNCHANGED <<machine, collected, shown>>

-----------------------------------------------------------------------------
(***************************************************************************)
(* getFallbackDiskInfo: all disks together, or what df says, as one disk    *)
(* called "/". On macOS df is asked first.                                  *)
(***************************************************************************)

DfSize == IF dfRoot \in Devices THEN size[dfRoot] ELSE IF dfRoot = "overlay" THEN OneGB ELSE 0

\* The sum over the first n rows of the table, each device counted once.
SumTo[n \in 0..Len(table)] ==
  IF n = 0 THEN 0
  ELSE SumTo[n - 1] + (IF n \in FirstUses(UsableRows) THEN size[table[n].dev] ELSE 0)

TotalSize ==
  LET sum == SumTo[Len(table)]
  IN IF os = "darwin" /\ dfRoot # "none" THEN DfSize
     ELSE IF sum = 0 THEN DfSize ELSE sum

Fallback ==
  /\ pc = "fallback"
  /\ current' = IF current = Nobody /\ TotalSize > 0
                THEN [dev |-> "/", mount |-> "/", size |-> TotalSize] ELSE current
  /\ pc' = "consolidate"
  /\ UNCHANGED <<machine, infos, bootPath, collected, shown>>

\* consolidateDiskInfos compares the devices only.
Consolidate ==
  /\ pc = "consolidate"
  /\ infos' = infos \cup (IF current = Nobody \/ \E e \in infos : e.dev = current.dev
                          THEN {} ELSE {current})
  /\ collected' = infos'
  /\ pc' = "reduce"
  /\ UNCHANGED <<machine, current, bootPath, shown>>

\* filterSmallDisks.
Big(entries) ==
  LET big == {e \in entries : e.size >= OneGB}
  IN IF Cardinality(entries) <= 1 \/ big = {} THEN entries ELSE big

\* sort.Slice by size: entries of one size in any order.
Sorted(entries) ==
  {s \in [1..Cardinality(entries) -> entries] :
     /\ \A i, j \in DOMAIN s : i < j => s[i] # s[j] /\ s[i].size >= s[j].size}

BugPicked(entries) == Reductions(entries)

\* deduplicatePhysicalDisks: the largest of each physical disk, and the current disk
\* beside it.
Picked(entries) ==
  IF Cardinality(entries) <= 1 THEN {entries}
  ELSE {pick \cup {e \in entries : e.dev = current.dev /\ e.mount = current.mount} :
          pick \in Reductions(entries)}

Reduce ==
  /\ pc = "reduce"
  /\ \E entries \in Picked(Big(infos)) : infos' = entries /\ shown' \in Sorted(entries)
  /\ pc' = "done"
  /\ UNCHANGED <<machine, current, bootPath, collected>>

Next ==
  \/ LinuxDisks \/ BSDDisks \/ MacOSDisks
  \/ Fallback \/ Consolidate \/ Reduce

Spec == Init /\ [][Next]_vars

-----------------------------------------------------------------------------
(***************************************************************************)
(* Properties.                                                              *)
(***************************************************************************)

\* The rows of the list.
Rows == {shown[i] : i \in DOMAIN shown}

\* Every disk of a gigabyte or more, and every disk when there is none of them, has a
\* row of its physical disk that is at least as large; a physical disk has a second
\* row only beside that of the current disk (disk.go:92-129).
EveryDiskOnce ==
  pc = "done" =>
    /\ \A e \in Big(collected) : \E r \in Rows :
         Physical[r.dev] = Physical[e.dev] /\ r.size >= e.size
    /\ \A r, o \in Rows : r # o /\ Physical[r.dev] = Physical[o.dev] =>
         current.dev \in {r.dev, o.dev}

\* The disk with the root file system has a row whatever larger partitions share its
\* physical disk, unless it is one of the small disks taken out (disk.go:82, disk.go:113);
\* and the boot path, when there is one, is that disk's.
SystemDiskShown ==
  pc = "done" =>
    /\ current # Nobody =>
         current \in Rows \/ (current.size < OneGB /\ \A r \in Rows : r.size >= OneGB)
    /\ bootPath # "none" => current.dev = bootPath
==============================================================================
