------------------------------- MODULE CpuInfo -------------------------------
(***************************************************************************)
(* getCpuInfo (system/cpu.go): how many cores the machine has and what the  *)
(* processor is called, each asked of one source after another. A source    *)
(* that fails half way leaves behind what it had already written.           *)
(*                                                                         *)
(* A count is a natural number and 0 one that a source does not give. The   *)
(* name of a processor is its length, 0 for none; the frequency behind it   *)
(* is "plain" when hasFrequency recognises it and "odd" when it does not    *)
(* ("@ 1200 static MHz").                                                   *)
(***************************************************************************)
EXTENDS Naturals

CONSTANTS
  Systems,     \* the values of runtime.GOOS told apart
  Counts,      \* what a source may say of a number of CPUs, cores or threads
  Sockets,     \* what a source may say of a number of sockets
  NameLengths  \* the lengths of the names that sources give

\* Who is asked next: one of these places, or the system's own source.
CpuPlaces == {"idle", "gopsutil", "cpuinfo", "default", "model", "named", "listed", "done"}

ASSUME CpuAssumption ==
  /\ Systems \cap CpuPlaces = {}
  /\ Counts \subseteq Nat /\ Sockets \subseteq Nat
  /\ 0 \in Counts \cap Sockets /\ 1 \in Counts
  /\ NameLengths \subseteq Nat \ {0, 1, 2}

VARIABLES
  os,        \* runtime.GOOS
  cpuStep,   \* the source asked next
  cores,     \* CpuLogicalCores, CpuPhysicalCores, CpuThreadsPerCore, CpuSockets
  threadsBy, \* who gave the threads per core: "nobody" while it is the default
  label,     \* the form of CpuCores
  cpuModel,  \* the processor's name and its frequency
  recordLost \* getCpuInfo has returned nil for the record

cpuVars == <<cpuStep, cores, threadsBy, label, cpuModel, recordLost>>

NoCores == [logical |-> 0, physical |-> 0, threads |-> 0, sockets |-> 0]
NoModel == [name |-> 0, freq |-> "none"]

Forgotten ==
  /\ cpuStep' = "idle"
  /\ cores' = NoCores /\ threadsBy' = "nobody" /\ label' = "none"
  /\ cpuModel' = NoModel

-----------------------------------------------------------------------------
(***************************************************************************)
(* getCpuCoreDetails.                                                       *)
(***************************************************************************)

\* Threads per core from two counts of the same source.
Ratio(l, p) == IF p > 0 /\ l >= p THEN l \div p ELSE 1
Given(new, old) == IF new > 0 THEN new ELSE old

CpuStart ==
  /\ cpuStep' = "gopsutil"
  /\ \E n \in Counts \ {0} :
       cores' = [logical |-> n, physical |-> 0, threads |-> 1, sockets |-> 1]
  /\ UNCHANGED <<threadsBy, label, cpuModel, recordLost>>

BugGopsutilCounts ==
  /\ cpuStep = "gopsutil"
  /\ \E l \in Counts, p \in Counts, s \in Sockets :
       LET known == l > 0 /\ p > 0 IN
         /\ cores' = [logical |-> Given(l, cores.logical), physical |-> p,
                      threads |-> 1, sockets |-> IF known THEN Given(s, 1) ELSE 1]
         /\ threadsBy' = IF known THEN "gopsutil" ELSE "nobody"
         /\ cpuStep' = IF known THEN "default" ELSE os
  /\ UNCHANGED <<label, cpuModel, recordLost>>

\* The logical count stays even when the physical one cannot be had.
GopsutilCounts ==
  /\ cpuStep = "gopsutil"
  /\ \E l \in Counts, p \in Counts, s \in Sockets :
       \/ /\ l > 0 /\ p > 0
          /\ cores' = [logical |-> l, physical |-> p,
                       threads |-> Ratio(l, p), sockets |-> Given(s, 1)]
          /\ threadsBy' = "gopsutil"
          /\ cpuStep' = "default"
       \/ /\ l = 0 \/ p = 0
          /\ cores' = [cores EXCEPT !.logical = Given(l, @)]
          /\ cpuStep' = os
          /\ UNCHANGED threadsBy
  /\ UNCHANGED <<label, cpuModel, recordLost>>

\* lscpu on Linux; what it does not print, or a failing command, is 0 in all four.
Lscpu ==
  /\ cpuStep = "linux"
  /\ \E l \in Counts, t \in Counts, c \in Counts, s \in Sockets :
       LET total == IF c > 0 THEN c * Given(s, cores.sockets) ELSE cores.physical IN
         /\ cores' = [logical |-> Given(l, cores.logical), physical |-> total,
                      threads |-> Given(t, cores.threads), sockets |-> Given(s, cores.sockets)]
         /\ threadsBy' = IF t > 0 THEN "lscpu" ELSE threadsBy
         /\ cpuStep' = IF total > 0 THEN "default" ELSE "cpuinfo"
  /\ UNCHANGED <<label, cpuModel, recordLost>>

\* /proc/cpuinfo: ids different physical ids, the first siblings and cpu cores.
ProcCpuinfo ==
  /\ cpuStep = "cpuinfo"
  /\ \E ids \in Sockets, siblings \in Counts, c \in Counts :
       LET counted == c > 0 /\ siblings >= c IN
         /\ cores' = [cores EXCEPT
              !.sockets = Given(ids, @),
              !.physical = IF c > 0 THEN c * Given(ids, 1) ELSE @,
              !.threads = IF counted THEN siblings \div c ELSE @]
         /\ threadsBy' = IF counted THEN "cpuinfo" ELSE threadsBy
  /\ cpuStep' = "default"
  /\ UNCHANGED <<label, cpuModel, recordLost>>

\* wmic on Windows and sysctl on macOS: both counts are optional.
BothCounts ==
  /\ cpuStep \in {"windows", "darwin"}
  /\ \E l \in Counts, p \in Counts :
       LET new == [cores EXCEPT !.logical = Given(l, @), !.physical = Given(p, @)]
           known == p > 0 /\ (os = "darwin" \/ l > 0) /\ new.logical >= p
       IN /\ cores' = IF known THEN [new EXCEPT !.threads = Ratio(new.logical, p)] ELSE new
          /\ threadsBy' = IF known THEN "counts" ELSE threadsBy
  /\ cpuStep' = "default"
  /\ UNCHANGED <<label, cpuModel, recordLost>>

\* Other systems ask nobody else.
NoFallback ==
  /\ cpuStep \in Systems \ {"linux", "windows", "darwin"}
  /\ cpuStep' = "default"
  /\ UNCHANGED <<cores, threadsBy, label, cpuModel, recordLost>>

-----------------------------------------------------------------------------
(***************************************************************************)
(* formatCpuCores: the form of the text, with the type of CPU (Virtual or   *)
(* Physical) in the simple form only.                                       *)
(***************************************************************************)

FormOf(c) ==
  IF c.physical = c.logical /\ c.threads <= 1 THEN "simple"
  ELSE IF c.logical # c.physical * c.threads THEN "hybrid"
  ELSE IF c.threads > 1 THEN "threads"
  ELSE "cores"

\* The count of logical cores stands for physical cores that nobody counted.
WithDefault(c) == IF c.physical > 0 THEN c
                  ELSE [c EXCEPT !.physical = c.logical, !.threads = 1]

CoresFormatted ==
  /\ cpuStep = "default"
  /\ cores' = WithDefault(cores)
  /\ threadsBy' = IF cores.physical > 0 THEN threadsBy ELSE "nobody"
  /\ label' = FormOf(WithDefault(cores))
  /\ cpuStep' = "model"
  /\ UNCHANGED <<cpuModel, recordLost>>

-----------------------------------------------------------------------------
(***************************************************************************)
(* The name of the processor.                                               *)
(***************************************************************************)

Width(m) == m.name + (CASE m.freq = "none" -> 0 [] m.freq = "plain" -> 1 [] OTHER -> 2)
Texts == {NoModel} \cup [name : NameLengths, freq : {"none", "plain"}]

\* The frequency of a separate line is added to a name that has none.
WithFrequency(m, f) == IF m.freq = "none" THEN [m EXCEPT !.freq = f] ELSE m

\* /proc/cpuinfo: the last model name, and its cpu MHz or cpu GHz.
ModelFromProc ==
  /\ cpuStep = "model" /\ os = "linux"
  /\ \E t \in Texts, f \in {"none", "plain"} :
       cpuModel' = IF t.name = 0 THEN cpuModel ELSE WithFrequency(t, f)
  /\ cpuStep' = "named"
  /\ UNCHANGED <<cores, threadsBy, label, recordLost>>

\* One Vendor ID line of lscpu, for a model that has a frequency and no name of its own.
\* A second such line (BIOS Vendor ID) that is not the longer drops the frequency.
Vendored(m, vendor) ==
  IF vendor = 0 THEN m
  ELSE IF m.name = 0 \/ vendor > m.name + 1 THEN [m EXCEPT !.name = vendor]
  ELSE [name |-> vendor, freq |-> "none"]

\* lscpu: a name if there is none yet, a frequency, and the vendor for a bare frequency.
ModelFromLscpu ==
  /\ cpuStep = "named"
  /\ \E t \in Texts, f \in {"none", "plain", "odd"}, cpuid, bios \in NameLengths \cup {0} :
       LET m == WithFrequency(IF cpuModel.name = 0 THEN t ELSE cpuModel, f) IN
         cpuModel' = IF m.freq = "none" \/ m.name > 0 THEN m
                     ELSE Vendored(Vendored(m, cpuid), bios)
  /\ cpuStep' = "listed"
  /\ UNCHANGED <<cores, threadsBy, label, recordLost>>

BugBetter(new, old) == Width(new) > Width(old) \/ new.freq = "plain"

\* A name without a frequency never replaces one that has a frequency.
Better(new, old) ==
  /\ new.freq = "plain" \/ old.freq # "plain"
  /\ Width(new) > Width(old) \/ new.freq = "plain"

\* One processor of cpu.Info on Linux; any number of them.
ModelFromList ==
  /\ cpuStep = "listed"
  /\ \E t \in Texts \ {NoModel} : Better(t, cpuModel) /\ cpuModel' = t
  /\ UNCHANGED <<cpuStep, cores, threadsBy, label, recordLost>>

\* The list's end, and the device tree for a machine without a name.
ListEnds ==
  /\ cpuStep = "listed"
  /\ \E n \in NameLengths \cup {0} :
       cpuModel' = IF cpuModel = NoModel THEN [NoModel EXCEPT !.name = n] ELSE cpuModel
  /\ cpuStep' = "done"
  /\ UNCHANGED <<cores, threadsBy, label, recordLost>>

\* cpu.Info on Windows: the record is given up with the error.
WindowsModel ==
  /\ cpuStep = "model" /\ os = "windows"
  /\ \/ recordLost' = TRUE /\ UNCHANGED cpuModel
     \/ \E t \in Texts : cpuModel' = t /\ UNCHANGED recordLost
  /\ cpuStep' = "done"
  /\ UNCHANGED <<cores, threadsBy, label>>

\* system_profiler's Chip on macOS, sysctl's hw.model and dev.cpu.0.freq elsewhere.
OtherModel ==
  /\ cpuStep = "model" /\ os \notin {"linux", "windows"}
  /\ \E n \in NameLengths \cup {0}, f \in {"none", "plain"} :
       /\ f = "plain" => os # "darwin" /\ n > 0
       /\ cpuModel' = [name |-> n, freq |-> f]
  /\ cpuStep' = "done"
  /\ UNCHANGED <<cores, threadsBy, label, recordLost>>

CpuNext ==
  \/ GopsutilCounts \/ Lscpu \/ ProcCpuinfo \/ BothCounts \/ NoFallback \/ CoresFormatted
  \/ ModelFromProc \/ ModelFromLscpu \/ ModelFromList \/ ListEnds \/ WindowsModel \/ OtherModel

-----------------------------------------------------------------------------
CpuTypeOK ==
  /\ cpuStep \in CpuPlaces \cup Systems
  /\ \A f \in {"logical", "physical", "threads", "sockets"} : cores[f] \in Nat
  /\ cpuStep \in {"model", "named", "listed", "done"} =>
       \A f \in {"logical", "physical", "threads", "sockets"} : cores[f] > 0
  /\ threadsBy \in {"nobody", "gopsutil", "lscpu", "cpuinfo", "counts"}
  /\ label \in {"none", "simple", "cores", "threads", "hybrid"}
  /\ cpuModel \in [name : NameLengths \cup {0}, freq : {"none", "plain", "odd"}]
  /\ recordLost \in BOOLEAN

\* The comment at cpu.go:505 says that a machine is called hybrid when its threads
\* are no multiple of its cores. That holds of counts of one source: the label is
\* wrong about them only when the threads per core come from elsewhere or from nobody.
HybridIsUneven ==
  label = "hybrid" /\ threadsBy \in {"gopsutil", "counts"} =>
    cores.logical % cores.physical # 0 \/ cores.logical < cores.physical

\* Once the processor's frequency is in its name, no later source takes it out
\* again (cpu.go:596-604), whatever names the sources give in whatever order: what the
\* file, lscpu and the list of processors say is merged by rules of their own.
FrequencyKept ==
  [][cpuModel.freq = "plain" => cpuModel'.freq = "plain" \/ cpuStep' = "idle"]_cpuVars
==============================================================================
