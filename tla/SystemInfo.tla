----------------------------- MODULE SystemInfo ------------------------------
(***************************************************************************)
(* GetSystemInfo and CheckSystemInfo (system/system.go): the host, the NAT  *)
(* type, the processor and the GPU are asked for one after the other, then  *)
(* four goroutines ask for the disks, the memory, the load and TCP, each    *)
(* with a recover of its own, and the caller copies what they left behind.  *)
(* External commands appear by their answers.                               *)
(*                                                                         *)
(* The caller may ask again: the type of CPU and the lines of macOS's       *)
(* system_profiler are package variables and outlive a call.                *)
(***************************************************************************)
EXTENDS CpuInfo, FiniteSets

CONSTANTS
  StackTypes, \* what CheckPublicAccess may have left in StackType
  Methods,    \* the number of methods the NAT type is tried with
  Servers,    \* the number of STUN servers
  MaxCalls    \* bound: calls of GetSystemInfo

ASSUME SystemAssumption ==
  /\ Methods \in Nat \ {0} /\ Servers \in Nat \ {0} /\ MaxCalls \in Nat

Tasks == {"disk", "memory", "load", "tcp"}

VARIABLES
  stack,     \* StackType
  pc, calls,
  cpuType,   \* the package variable: "Virtual", "Physical" or still blank
  macInfo,   \* model.MacOSInfo holds the lines of system_profiler
  vmType,
  nat,       \* the attempt under way: its place and what it left behind
  natType,
  natHeard,  \* an attempt of this call was conclusive
  gpu,       \* a GPU is in the record
  worker,    \* the goroutines
  local,     \* the variables they write: what is known of each subject
  answered,  \* what each query returned, nothing when it panicked
  wg,
  ret,       \* the record's fields for the four subjects
  rows       \* the rows of the text

hostVars == <<cpuType, macInfo, vmType>>
natVars == <<nat, natType, natHeard>>
taskVars == <<worker, local, answered, wg, ret>>
frame == <<os, stack>>
vars == <<frame, cpuVars, pc, calls, hostVars, natVars, gpu, taskVars, rows>>

Blank == [t \in Tasks |-> {}]
FirstTry == [method |-> 1, server |-> 1, mapping |-> "none", filtering |-> "none"]

Init ==
  /\ os \in Systems /\ stack \in StackTypes
  /\ pc = "idle" /\ calls = 0
  /\ cpuType = "blank" /\ macInfo = FALSE
  /\ cpuStep = "idle" /\ recordLost = FALSE
  /\ cores = NoCores /\ threadsBy = "nobody" /\ label = "none" /\ cpuModel = NoModel
  /\ vmType = "none" /\ gpu = FALSE
  /\ nat = FirstTry /\ natType = "none" /\ natHeard = FALSE
  /\ worker = [t \in Tasks |-> "unborn"] /\ wg = 0
  /\ local = Blank /\ answered = Blank /\ ret = Blank
  /\ rows = {}

\* A new call works on a new record; system_profiler that fails leaves the old lines.
Call ==
  /\ pc \in {"idle", "shown"} /\ calls < MaxCalls
  /\ calls' = calls + 1
  /\ macInfo' \in (IF os = "darwin" THEN {macInfo, TRUE} ELSE {macInfo})
  /\ pc' = "host"
  /\ Forgotten /\ recordLost' = FALSE
  /\ vmType' = "none" /\ gpu' = FALSE
  /\ nat' = FirstTry /\ natType' = "none" /\ natHeard' = FALSE
  /\ worker' = [t \in Tasks |-> "unborn"] /\ wg' = 0
  /\ local' = Blank /\ answered' = Blank /\ ret' = Blank
  /\ rows' = {}
  /\ UNCHANGED <<frame, cpuType>>

-----------------------------------------------------------------------------
(***************************************************************************)
(* getHostInfo.                                                             *)
(***************************************************************************)

\* What runs the machine, off Windows: systemd-detect-virt, else the marks of a
\* container, else WSL's device, else dmidecode; the last of the marks wins.
VmTypes ==
  {"named"} \cup {IF wsl THEN "WSL" ELSE IF docker THEN "Docker" ELSE dmi :
                    wsl \in BOOLEAN, docker \in BOOLEAN, dmi \in {"named", "Dedicated"}}

\* On Windows WMI is asked when gopsutil has no name, on macOS the profiler's lines decide.
AfterHost(vm) ==
  CASE os = "windows" /\ vm = "none" -> {"none", "named"}
    [] os = "darwin" /\ macInfo -> {"named"}
    [] OTHER -> {vm}

AsksNat == stack \notin {"none", "None"}

\* The error is printed and forgotten: the type of CPU is what it was.
HostFails ==
  /\ pc = "host"
  /\ vmType' \in AfterHost("none")
  /\ pc' = IF AsksNat THEN "nat" ELSE "cpu"
  /\ UNCHANGED <<frame, cpuVars, calls, cpuType, macInfo, natVars, gpu, taskVars, rows>>

HostKnown ==
  /\ pc = "host"
  /\ cpuType' \in {"Virtual", "Physical"}
  /\ \E vm \in (IF os = "windows" THEN {"none", "named"} ELSE VmTypes) : vmType' \in AfterHost(vm)
  /\ pc' = IF AsksNat THEN "nat" ELSE "cpu"
  /\ UNCHANGED <<frame, cpuVars, calls, macInfo, natVars, gpu, taskVars, rows>>

-----------------------------------------------------------------------------
(***************************************************************************)
(* getNatType: every method with every server until both behaviours are     *)
(* known. The first method tests the two separately.                        *)
(***************************************************************************)

Found(n) == n.mapping = "known" /\ n.filtering = "known"

\* What one attempt leaves in gostun's variables, which it first cleared.
Outcomes(method) ==
  IF method = 1 THEN {"known", "inconclusive"} \X {"known", "inconclusive"}
  ELSE {<<"inconclusive", "inconclusive">>, <<"known", "known">>, <<"known", "none">>}

BugAfterAttempt(n) ==
  IF n.server < Servers /\ ~Found(n) THEN <<n.method, n.server + 1>> ELSE <<n.method + 1, 1>>

\* The place of the next attempt: the break of the inner loop and the test of the outer.
AfterAttempt(n) ==
  IF Found(n) THEN <<Methods + 1, 1>>
  ELSE IF n.server < Servers THEN <<n.method, n.server + 1>>
  ELSE <<n.method + 1, 1>>

NatAttempt ==
  /\ pc = "nat" /\ nat.method <= Methods
  /\ \E o \in Outcomes(nat.method) :
       LET n == [nat EXCEPT !.mapping = o[1], !.filtering = o[2]]
           next == AfterAttempt(n)
       IN /\ nat' = [n EXCEPT !.method = next[1], !.server = next[2]]
          /\ natHeard' = (natHeard \/ Found(n))
  /\ UNCHANGED <<frame, cpuVars, pc, calls, hostVars, natType, gpu, taskVars, rows>>

\* stuncheck.CheckType reads the variables; the gateway's word stands in for
\* an inconclusive one. The attempt's place is not read again.
NatConcludes ==
  /\ pc = "nat" /\ nat.method > Methods
  /\ natType' \in (IF Found(nat) THEN {"named"} ELSE {"named", "Inconclusive", "gateway"})
  /\ nat' = FirstTry
  /\ pc' = "cpu"
  /\ UNCHANGED <<frame, cpuVars, calls, hostVars, natHeard, gpu, taskVars, rows>>

-----------------------------------------------------------------------------
CpuBegins ==
  /\ pc = "cpu" /\ cpuStep = "idle"
  /\ CpuStart
  /\ UNCHANGED <<frame, pc, calls, hostVars, natVars, gpu, taskVars, rows>>

CpuSteps ==
  /\ pc = "cpu"
  /\ CpuNext
  /\ UNCHANGED <<frame, pc, calls, hostVars, natVars, gpu, taskVars, rows>>

\* The numbers and the name are only printed from here on: the model forgets them.
CpuEnds ==
  /\ pc = "cpu" /\ cpuStep = "done"
  /\ Forgotten
  /\ pc' = "gpu"
  /\ UNCHANGED <<frame, recordLost, calls, hostVars, natVars, gpu, taskVars, rows>>

\* getGPUInfo writes the model into the record, and nothing when there is no GPU.
GpuKnown ==
  /\ pc = "gpu"
  /\ IF recordLost THEN pc' = "crashed" /\ UNCHANGED gpu
                   ELSE pc' = "spawn" /\ gpu' = TRUE
  /\ UNCHANGED <<frame, cpuVars, calls, hostVars, natVars, taskVars, rows>>

NoGpu ==
  /\ pc = "gpu"
  /\ pc' = "spawn"
  /\ UNCHANGED <<frame, cpuVars, calls, hostVars, natVars, gpu, taskVars, rows>>

-----------------------------------------------------------------------------
(***************************************************************************)
(* The four goroutines.                                                     *)
(***************************************************************************)

\* What getMemoryInfo may find. virtio_balloon and KSM always have a status.
\* Swap is counted with the memory on Linux, by a call of its own elsewhere.
MemoryAnswers ==
  LET ram == {{}, {"total", "usage"}}
      profiler == IF os = "darwin" /\ macInfo THEN {"total"} ELSE {}
      swap(r) == IF os \in {"windows", "darwin"} \/ r # {} THEN {{}, {"swap"}} ELSE {{}}
  IN UNION {{r \cup profiler \cup s \cup {"status"} : s \in swap(r)} : r \in ram}

\* getSystemLoad: /proc/loadavg, then gopsutil, which replaces it when all three of its
\* numbers are positive and erases it when it fails; WMI when Windows has none.
LoadAnswers ==
  LET first == IF os = "linux" THEN {"none", "proc"} ELSE {"none"}
      last(l) == IF l = "none" /\ os = "windows" THEN {"none", "wmi"} ELSE {l}
      merged == {"avg", "none"} \cup first
  IN {IF l = "none" THEN {} ELSE {l} : l \in UNION {last(m) : m \in merged}}

Answers(t) ==
  CASE t = "disk" -> {{}, {"disks"}, {"disks", "boot"}}
    [] t = "memory" -> MemoryAnswers
    [] t = "load" -> LoadAnswers
    [] t = "tcp" -> {{}, {"algorithm"}}

Order == <<"disk", "memory", "load", "tcp">>

Spawn ==
  /\ pc = "spawn"
  /\ \E i \in 1..4 :
       /\ \A j \in 1..4 : worker[Order[j]] = "unborn" <=> j >= i
       /\ worker' = [worker EXCEPT ![Order[i]] = "asking"]
       /\ wg' = wg + 1
       /\ pc' = IF i = 4 THEN "wait" ELSE "spawn"
  /\ UNCHANGED <<frame, cpuVars, calls, hostVars, natVars, gpu, local, answered, ret, rows>>

TaskAnswers(t) ==
  /\ worker[t] = "asking"
  /\ \E a \in Answers(t) :
       /\ answered' = [answered EXCEPT ![t] = a]
       /\ local' = [local EXCEPT ![t] = a]
  /\ worker' = [worker EXCEPT ![t] = "leaving"]
  /\ UNCHANGED <<frame, cpuVars, pc, calls, hostVars, natVars, gpu, wg, ret, rows>>

BugTaskPanics(t) ==
  /\ worker[t] = "asking"
  /\ pc' = "crashed"
  /\ UNCHANGED <<frame, cpuVars, calls, hostVars, natVars, gpu, taskVars, rows>>

BugTaskPanicsUncounted(t) ==
  /\ worker[t] = "asking"
  /\ local' = [local EXCEPT ![t] = {}]
  /\ worker' = [worker EXCEPT ![t] = "done"]
  /\ UNCHANGED <<frame, cpuVars, pc, calls, hostVars, natVars, gpu, answered, wg, ret, rows>>

\* The recover clears the goroutine's own variables and nothing else.
TaskPanics(t) ==
  /\ worker[t] = "asking"
  /\ local' = [local EXCEPT ![t] = {}]
  /\ worker' = [worker EXCEPT ![t] = "leaving"]
  /\ UNCHANGED <<frame, cpuVars, pc, calls, hostVars, natVars, gpu, answered, wg, ret, rows>>

TaskDone(t) ==
  /\ worker[t] = "leaving"
  /\ worker' = [worker EXCEPT ![t] = "done"]
  /\ wg' = wg - 1
  /\ UNCHANGED <<frame, cpuVars, pc, calls, hostVars, natVars, gpu, local, answered, ret, rows>>

BugWait ==
  /\ pc = "wait"
  /\ \E t \in Tasks : worker[t] = "done"
  /\ ret' = local
  /\ pc' = IF recordLost THEN "crashed" ELSE "returned"
  /\ UNCHANGED <<frame, cpuVars, calls, hostVars, natVars, gpu, worker, local, answered, wg, rows>>

\* wg.Wait, and the copying into the record.
Wait ==
  /\ pc = "wait" /\ wg = 0
  /\ IF recordLost THEN pc' = "crashed" /\ UNCHANGED ret
                   ELSE pc' = "returned" /\ ret' = local
  /\ UNCHANGED <<frame, cpuVars, calls, hostVars, natVars, gpu, worker, local, answered, wg, rows>>

-----------------------------------------------------------------------------
(***************************************************************************)
(* CheckSystemInfo: the rows that depend on what is known. The structured   *)
(* report's congestion control stands in for the algorithm.                 *)
(***************************************************************************)

SwapRow == IF "swap" \in ret["memory"] THEN "swap" ELSE "no swap"

\* The status of balloon and KSM is not for Windows and macOS.
Hidden == IF os \in {"windows", "darwin"} THEN {"status"} ELSE {}

RowsOf(report) ==
  {SwapRow} \cup ret["disk"] \cup (ret["memory"] \ Hidden) \cup ret["load"]
  \cup (IF ret["tcp"] = {} THEN report ELSE ret["tcp"])
  \cup (IF gpu THEN {"gpu"} ELSE {})
  \cup (IF natType # "none" THEN {"nat"} ELSE {})

Show ==
  /\ pc = "returned"
  /\ \E report \in {{}, {"congestion control"}} : rows' = RowsOf(report)
  /\ pc' = "shown"
  /\ UNCHANGED <<frame, cpuVars, calls, hostVars, natVars, gpu, taskVars>>

Host == HostFails \/ HostKnown \/ NatAttempt \/ NatConcludes
Gpu == GpuKnown \/ NoGpu
Task(t) == TaskAnswers(t) \/ TaskPanics(t) \/ TaskDone(t)

Next ==
  \/ Call \/ Host \/ CpuBegins \/ CpuSteps \/ CpuEnds \/ Gpu
  \/ Spawn \/ Wait \/ Show
  \/ \E t \in Tasks : Task(t)

Spec == Init /\ [][Next]_vars

-----------------------------------------------------------------------------
(***************************************************************************)
(* Properties.                                                              *)
(***************************************************************************)

\* The variables' types; the WaitGroup's counter is the number of goroutines
\* born and not yet done, so it never goes negative (system.go:67-114).
TypeOK ==
  /\ os \in Systems /\ stack \in StackTypes
  /\ calls \in 0..MaxCalls
  /\ pc \in {"idle", "host", "nat", "cpu", "gpu", "spawn", "wait", "returned", "shown", "crashed"}
  /\ cpuType \in {"blank", "Virtual", "Physical"}
  /\ nat.method \in 1..(Methods + 1) /\ nat.server \in 1..Servers
  /\ natType \in {"none", "named", "Inconclusive", "gateway"}
  /\ worker \in [Tasks -> {"unborn", "asking", "leaving", "done"}]
  /\ wg = Cardinality({t \in Tasks : worker[t] \in {"asking", "leaving"}})
  /\ CpuTypeOK

\* Whatever order the goroutines end in and whichever of them panic, the text has
\* every answer of the others, and the panicking ones cost their own rows only.
AnswersShown ==
  pc = "shown" =>
    \A t \in Tasks : answered[t] \ Hidden \subseteq rows /\ (answered[t] # {} => ret[t] = answered[t])

\* The process goes down for one reason only: on Windows a failing CPU query takes
\* the record away, and then no report ever comes (cpu.go:567, system.go:36).
OnlyLostRecordCrashes ==
  /\ pc = "crashed" => recordLost /\ os = "windows"
  /\ pc \in {"returned", "shown"} => ~recordLost

\* An attempt that found both behaviours is not followed by another one that
\* overwrites them (nat.go:16, nat.go:47-50).
NatAnswerKept == natHeard => natType \in {"none", "named"} /\ (pc # "nat" => natType = "named")
==============================================================================
