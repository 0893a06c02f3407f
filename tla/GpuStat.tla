------------------------------ MODULE GpuStat -------------------------------
(***************************************************************************)
(* getGPUInfo and updateGPUStat (system/gpu.go), called by several          *)
(* goroutines of one process: each call that finds a GPU starts a goroutine *)
(* that reads the GPU's utilisation, retrying a failure up to a limit, and  *)
(* waits for it. A compare-and-swap flag lets one such goroutine through    *)
(* at a time; the reading and the counters of failures are package          *)
(* variables that outlive the call.                                        *)
(*                                                                         *)
(* A call waits for the goroutine it starts, so the two share a control     *)
(* state.                                                                  *)
(***************************************************************************)
EXTENDS Naturals

CONSTANTS
  Callers,                      \* the goroutines that call getGPUInfo, over and over
  Readings,                     \* the utilisations GetGPUStat may report
  maxDeviceDataFetchAttempts,   \* 3 in the code
  HostBound                     \* where the counter of missing GPUs stops counting

ASSUME ReadingsAssumption == Readings \subseteq Nat
ASSUME AttemptsAssumption == maxDeviceDataFetchAttempts \in Nat \ {0}
ASSUME HostBoundAssumption == HostBound \in Nat \ {0}

VARIABLES
  pc,
  updateGPUStatus,        \* 1 while a goroutine is reading the utilisation
  hostDataFetchAttempts,  \* calls in a row that found no GPU; nothing reads it
  statDataFetchAttempts,  \* failures in a row to read the utilisation
  gpuStat,                \* the last reading
  fetched,                \* every reading GetGPUStat ever returned
  fresh,                  \* fresh[c]: {} or {the reading c's own call got}
  reported                \* reported[c]: {} or {what c's call put in GpuStats}

vars == <<pc, updateGPUStatus, hostDataFetchAttempts, statDataFetchAttempts, gpuStat,
          fetched, fresh, reported>>
readings == <<gpuStat, fetched, fresh, reported>>
counters == <<updateGPUStatus, hostDataFetchAttempts, statDataFetchAttempts>>

Init ==
  /\ pc = [c \in Callers |-> "idle"]
  /\ updateGPUStatus = 0
  /\ hostDataFetchAttempts = 0
  /\ statDataFetchAttempts = 0
  /\ gpuStat = 0
  /\ fetched = {}
  /\ fresh = [c \in Callers |-> {}]
  /\ reported = [c \in Callers |-> {}]

Goto(c, from, to) == pc[c] = from /\ pc' = [pc EXCEPT ![c] = to]

-----------------------------------------------------------------------------

Call(c) ==
  /\ Goto(c, "idle", "model")
  /\ fresh' = [fresh EXCEPT ![c] = {}]
  /\ reported' = [reported EXCEPT ![c] = {}]
  /\ UNCHANGED <<counters, gpuStat, fetched>>

\* GetGPUModel finds none, or fails.
NoModel(c) ==
  /\ Goto(c, "model", "idle")
  /\ hostDataFetchAttempts' = IF hostDataFetchAttempts < HostBound
                                THEN hostDataFetchAttempts + 1 ELSE HostBound
  /\ UNCHANGED <<updateGPUStatus, statDataFetchAttempts, readings>>

ModelFound(c) ==
  /\ Goto(c, "model", "swap")
  /\ hostDataFetchAttempts' = 0
  /\ UNCHANGED <<updateGPUStatus, statDataFetchAttempts, readings>>

-----------------------------------------------------------------------------
(***************************************************************************)
(* The goroutine updateGPUStat.                                             *)
(***************************************************************************)

Acquire(c) ==
  /\ Goto(c, "swap", "loop")
  /\ updateGPUStatus = 0
  /\ updateGPUStatus' = 1
  /\ UNCHANGED <<hostDataFetchAttempts, statDataFetchAttempts, readings>>

BugBusyResets(c) ==
  /\ Goto(c, "swap", "read")
  /\ updateGPUStatus = 1
  /\ updateGPUStatus' = 0
  /\ UNCHANGED <<hostDataFetchAttempts, statDataFetchAttempts, readings>>

\* Another goroutine is reading the utilisation: this one leaves.
Busy(c) ==
  /\ Goto(c, "swap", "read")
  /\ updateGPUStatus = 1
  /\ UNCHANGED <<counters, readings>>

BugLoopTriesOnceMore(c) ==
  /\ Goto(c, "loop", "fetch")
  /\ statDataFetchAttempts <= maxDeviceDataFetchAttempts
  /\ UNCHANGED <<counters, readings>>

LoopTries(c) ==
  /\ Goto(c, "loop", "fetch")
  /\ statDataFetchAttempts < maxDeviceDataFetchAttempts
  /\ UNCHANGED <<counters, readings>>

BugLoopEndsForgets(c) ==
  /\ Goto(c, "loop", "release")
  /\ statDataFetchAttempts >= maxDeviceDataFetchAttempts
  /\ statDataFetchAttempts' = 0
  /\ UNCHANGED <<updateGPUStatus, hostDataFetchAttempts, readings>>

LoopEnds(c) ==
  /\ Goto(c, "loop", "release")
  /\ statDataFetchAttempts >= maxDeviceDataFetchAttempts
  /\ UNCHANGED <<counters, readings>>

FetchFails(c) ==
  /\ Goto(c, "fetch", "sleep")
  /\ statDataFetchAttempts' = statDataFetchAttempts + 1
  /\ UNCHANGED <<updateGPUStatus, hostDataFetchAttempts, readings>>

Wake(c) ==
  /\ Goto(c, "sleep", "loop")
  /\ UNCHANGED <<counters, readings>>

FetchSucceeds(c, gs) ==
  /\ Goto(c, "fetch", "release")
  /\ statDataFetchAttempts' = 0
  /\ gpuStat' = gs
  /\ fetched' = fetched \cup {gs}
  /\ fresh' = [fresh EXCEPT ![c] = {gs}]
  /\ UNCHANGED <<updateGPUStatus, hostDataFetchAttempts, reported>>

BugFetchPanicsKeepsFlag(c) ==
  /\ Goto(c, "fetch", "read")
  /\ UNCHANGED <<counters, readings>>

\* A panic of GetGPUStat runs the deferred reset of the flag and is recovered.
FetchPanics(c) ==
  /\ Goto(c, "fetch", "release")
  /\ UNCHANGED <<counters, readings>>

Release(c) ==
  /\ Goto(c, "release", "read")
  /\ updateGPUStatus' = 0
  /\ UNCHANGED <<hostDataFetchAttempts, statDataFetchAttempts, readings>>

-----------------------------------------------------------------------------
(***************************************************************************)
(* The caller reads gpuStat twice: to see whether there is something to      *)
(* report, and to report it.                                               *)
(***************************************************************************)

BugReadNothing(c) ==
  /\ Goto(c, "read", "idle")
  /\ gpuStat = 0
  /\ reported' = [reported EXCEPT ![c] = {gpuStat}]
  /\ UNCHANGED <<counters, gpuStat, fetched, fresh>>

ReadNothing(c) ==
  /\ Goto(c, "read", "idle")
  /\ gpuStat = 0
  /\ UNCHANGED <<counters, readings>>

ReadSomething(c) ==
  /\ Goto(c, "read", "format")
  /\ gpuStat > 0
  /\ UNCHANGED <<counters, readings>>

Format(c) ==
  /\ Goto(c, "format", "idle")
  /\ reported' = [reported EXCEPT ![c] = {gpuStat}]
  /\ UNCHANGED <<counters, gpuStat, fetched, fresh>>

-----------------------------------------------------------------------------

\* The query for the model, and GetGPUStat, end: the vendors' tools run without a time-out.
ToolAnswers(c) ==
  \/ NoModel(c) \/ ModelFound(c)
  \/ FetchFails(c)
  \/ \E gs \in Readings : FetchSucceeds(c, gs)
  \/ FetchPanics(c)

\* The goroutine's own steps.
Runs(c) ==
  \/ Acquire(c) \/ Busy(c)
  \/ LoopTries(c) \/ LoopEnds(c)
  \/ Wake(c)
  \/ Release(c)
  \/ ReadNothing(c) \/ ReadSomething(c) \/ Format(c)

InCall(c) == ToolAnswers(c) \/ Runs(c)

Next == \E c \in Callers : Call(c) \/ InCall(c)

\* A goroutine that can run does. Nothing is assumed of the tools: a query may hang for ever.
Fairness == \A c \in Callers : WF_vars(Runs(c))

Spec == Init /\ [][Next]_vars
FairSpec == Spec /\ Fairness

-----------------------------------------------------------------------------
(***************************************************************************)
(* Properties                                                               *)
(***************************************************************************)

Reading == {"loop", "fetch", "sleep", "release"}
CallStates == {"idle", "model", "swap", "read", "format"} \cup Reading

\* The variables stay within their types; in particular failures are counted up
\* to the limit and no further.
TypeOK ==
  /\ pc \in [Callers -> CallStates]
  /\ updateGPUStatus \in {0, 1}
  /\ hostDataFetchAttempts \in 0 .. HostBound
  /\ statDataFetchAttempts \in 0 .. maxDeviceDataFetchAttempts
  /\ gpuStat \in Readings \cup {0}
  /\ fetched \subseteq Readings
  /\ fresh \in [Callers -> SUBSET Readings]
  /\ reported \in [Callers -> SUBSET (Readings \cup {0})]

\* The counter of failures is a plain Go map entry, which two goroutines must
\* not touch at once: only one of them is ever in the retry loop.
RetryLoopExclusive ==
  \A c, d \in Callers : c # d => ~(pc[c] \in Reading /\ pc[d] \in Reading)

\* What a call reports was read from a GPU at some time: the zero that gpuStat
\* starts with is never reported, whatever other calls do between the two reads.
ReportedWasFetched == \A c \in Callers : reported[c] \subseteq fetched

\* After the limit of failures in a row the utilisation is given up for good: no
\* later call, however long after, tries again.
GivenUpForGood ==
  [][statDataFetchAttempts = maxDeviceDataFetchAttempts =>
       UNCHANGED <<statDataFetchAttempts, gpuStat>>]_vars

\* Only a tool that hangs holds anybody up, and only its own call: unless a goroutine stays
\* in its query of the utilisation for ever, the flag comes free again and again, whatever
\* fails or panics; and a call that finds the flag set by a query that hangs returns all
\* the same.
OnlyHungQueryBlocks ==
  /\ (\A c \in Callers : []<>(pc[c] # "fetch")) => []<>(updateGPUStatus = 0)
  /\ \A c \in Callers : pc[c] = "swap" ~> pc[c] \in {"fetch", "idle"}

\* The README says that what cannot be read from the system now is not made up:
\* a call reports a reading of its own.
ReportedIsFresh == \A c \in Callers : reported[c] \subseteq fresh[c]

=============================================================================
