# Verification of `basics`

`basics` is a Go program that prints what it can find out about the machine it runs on:
hardware and operating system, and, when the network is up, the machine's public addresses
with their location and AS number. This directory holds TLA+ models of the parts of it
where goroutines, channels, shared variables and time-outs interact, or where one source
after another is asked, the TLC configurations that check them on small instances, and
proofs, checked by TLAPS, of what matters most.

## The system

| Part | Source | State it keeps | Operations | Modelled |
|---|---|---|---|---|
| Command line | `cmd/main.go` | flags, the text | parses its arguments; connectivity check, lookup, network report and system information, or the structured report | `NetworkReport` (the usage counter's goroutine is left out) |
| Connectivity check | `utils/utils.go` | result channel, WaitGroup, context, package variable `StackType` | `CheckPublicAccess` | `PublicAccess` |
| IP information lookup | `network/baseinfo/baseinfo.go`, `network/utils/merge.go` | two channels, WaitGroup, received lists, merged records | `RunIpCheck`, `executeFunctions`, `CompareAndMergeIpInfo` | `IpCheck`, `IpInfo`, `IpLookup` |
| ASN fallback | `network/baseinfo/baseinfo.go` | channel, WaitGroup, the record it writes through a pointer | `fillASNWithFallback` | `AsnFallback` |
| IP information services | `network/baseinfo/*.go`, `network/utils/utils.go` | none | HTTP requests | by their answers |
| Network report | `network/network.go` | the rows of the text | turns each record into rows and asks for what is missing | `NetworkReport` |
| BGP prefix, active addresses | `network/baseinfo/bgp.go` | none | asks two services for the prefix, counts the pixels of a picture | `NetworkReport` |
| IPv6 prefix length | `network/ipv6/*.go` | raw socket, deadline | listens for router advertisements, parses their options, falls back | `Ipv6Mask` |
| GPU utilisation | `system/gpu.go` | flag, counters, last reading: package variables | `getGPUInfo`, `updateGPUStat` | `GpuStat` |
| GPU backends | `system/gpu/**` | none | vendors' tools | by their outcomes |
| Traditional system information | `system/system.go`, `host.go`, `load.go`, `system/utils/*.go` | one record filled in by sequential calls and four goroutines; the type of CPU and macOS's profile are package variables | `GetSystemInfo`, `CheckSystemInfo`, `getHostInfo`, `getSystemLoad` | `SystemInfo` |
| CPU information | `system/cpu.go` | the record's counts and name, written by one source after another | `getCpuInfo`, `getCpuCoreDetails`, `formatCpuCores` | `CpuInfo` (caches and features not) |
| Memory information | `system/memory.go` | none | `getMemoryInfo` | `SystemInfo`, by what is found |
| NAT type, TCP tuning | `system/nat.go`, `system/utils/*.go` | variables of the STUN client, overwritten by every attempt | `getNatType`, `GetTCPAccelerateStatus` | `SystemInfo` (TCP by its answer) |
| Disk list | `system/disk.go` | maps and lists of one call, the disk with the root | `getDiskInfo` | `DiskList` |
| Structured report | `system/report.go`, `report_text.go`, `raid.go`, `pci.go` | the report, a context | `collectSystemReport` and its collectors | `SystemReport` (numbers and text not; `detectRAID` of `raid.go` has no caller) |
| Disk health | `system/disk_health_*.go` | none | decode ATA and NVMe pages | no |
| SMART self-test, GPU compute | `system/deep_tools.go` | a test running on the device, a context | `runSMARTSelfTest`, `runGPUCompute` | `DeepTool` |
| Data model, canary, installer | `model/model.go`, `cmd/system-canary`, `basics_install.sh` | none | | no |

How they interact: the command calls the connectivity check and, from its answer, chooses
the argument of the lookup (`both`, `ipv4`, `ipv6`, or no lookup at all). The lookup calls
the ASN fallback for each family whose record places the address but has no AS number. The
network report asks the BGP services about the IPv4 address of the result and
`GetIPv6Mask` about the machine when the result has an IPv6 address. The system
information is collected after that, in the same goroutine, and asks for the GPU on the
way; a second caller of the same process (the module is also used as a library) shares the
GPU's package variables.

What is hard in it, and what must hold:

* **Lookup.** Eight goroutines answer in any order into two buffered channels with a
  *non-blocking* send; one closer waits for all of them and closes both; the caller drains
  IPv4 and then IPv6. It must not deadlock, must not send on a closed channel, must not
  lose an answer, and its result must not depend on the order of arrival.
* **ASN fallback.** The goroutines read the record's address through the same pointer the
  caller writes to; only the closed channel separates the two. Priority, not arrival, must
  decide.
* **Connectivity check.** The WaitGroup is counted up while it is already counted down;
  probes outlive a call whose context expired; the caller's `select` chooses freely
  between a buffered result and the expired context.
* **Network report.** The subnet and the prefix are counted by two independent queries
  which may disagree about the same network; the row must not say what neither of them
  said.
* **IPv6 prefix length.** The listener has two time-outs and looks at the outer one only
  between two reads, while any packet may end a read; the walk over the options of an
  advertisement trusts lengths that arrive from the network, in a byte that can wrap; and
  the printed length must be that of the first source that has one.
* **GPU utilisation.** A compare-and-swap flag is all that keeps a plain map from being
  written concurrently; counters and the reading outlive the call.
* **System information.** Four goroutines with a `recover` each write to variables that
  the caller reads after `wg.Wait`; one failure must cost its own rows only. The query for
  the CPU may take the whole record away.
* **CPU.** Four counts come from up to three sources, of which each may fail half way, and
  the label is computed from the mixture; the name and the frequency are merged by four
  rules of different places.
* **NAT type.** Every attempt clears and overwrites the STUN client's variables, so an
  attempt after the successful one would undo it.
* **Disk list.** Four systems collect the mounts in their own way, with Go's map order
  deciding in several places; then the list is completed, filtered and reduced, and
  neither a physical disk nor the disk with the root may be lost on the way.
* **SMART self-test.** The test runs inside the device and outlives the command that
  started it; polls, ticks, the test's end and the context's end interleave, and only one
  of the ways out aborts the test.
* **Structured report.** The context may end at any point of eleven collectors; what is
  returned must be the sections collected until then, marked as partial, and the RAID
  section is revised at the very end by what another one found.

PROJECT.json lists every hazard with its line and the properties that would catch it.

## Modules

**`IpInfo`** holds the data both lookups share. A record is a function from field names to
values, and a value is the number of the service that supplied it, with 0 for Go's empty
string: the properties tell apart *who* supplied a field. `chooseString` and
`CompareAndMergeIpInfo` are the functions of `merge.go`; `IsMergeOf` and `IsFilledMergeOf`
say what a merge must be without saying how it is computed. `CompareAndMergeIpInfo` also
has a branch for a nil source, which its only caller excludes.

**`IpCheck`** is `RunIpCheck`. Its state: for each family and service the goroutine's
state (`worker`) and what it was told (`answer`), the WaitGroup (`wg`), the two channels
(`channel`), the closer (`closer`), and the caller's position and variables (`stage`,
`family`, `list`, `order`, `at`, `result`). Its actions are the steps at which goroutines
can interleave: the launch (no other goroutine exists before the first `go`, and the
WaitGroup is raised by the whole number at once, so one step stands for it), one `Deliver`
and one `WorkerDone` per goroutine, the two closes one after the other, one `Receive` per
entry, one step per turn of the nested loops, and the fallback. An answer is any set of
known fields or Nil, which stands for an error or a recovered panic. The fallback appears
by what it may change; `AsnFallback` has it in detail.

**`IpLookup`** is the abstract specification: every service asked answers once, in any
order, and after the last one the call returns the merge. It has no goroutine, channel or
loop. `IpCheck!ImplementsLookup` is the refinement, with the mapping `answered <-` the
pairs whose goroutine has made its offer.

**`AsnFallback`** is `fillASNWithFallback`, called with every record the configuration
lists. `asnOrderMap` and the loop bound are those of the source. The write to the record
and the reads by the goroutines are steps of their own, so that a property can say that
they never overlap.

**`PublicAccess`** is `CheckPublicAccess` with `runSafeProbe`: the loop that starts the
probes one by one, the probes, the closer, the timer and the caller's `select`, each of
whose cases is an action. A probe's network operation succeeds, fails or never ends.
`BufferSize` is 8 in the code, one place per probe; the run keeps that relation with
three.

**`GpuStat`** is `getGPUInfo` with `updateGPUStat` for any set of callers that call over
and over. A caller waits for the goroutine it starts, so they share a control state. The
counter `hostDataFetchAttempts`, which nothing reads, stops at `HostBound`. A call's steps
are those of the goroutine itself (`Runs`) and the ends of the queries it makes of the
machine (`ToolAnswers`), which may never come: `nvidia-smi` and `rocm-smi` are run without
a context or a time-out (`system/gpu/stat/nvidia_smi.go:37`, `amd_rocm_smi.go:36`).

**`DeepTool`** is one call of `runSMARTSelfTest` or `runGPUCompute`, with the device.
`testPc` says which command the caller waits for; the command's end is an action of its
own (`TestStarted`, `PollEnds`, `Computed`, `AbortEnds` or `CommandFails`), so that the
context and the device can move while it runs. A command started under a context that is
over fails (`doomed`), as with `exec.CommandContext`. The two ready cases of the polling
loop's `select` are the actions `TakeTick` and `CtxTaken`. What `smartctl -c` prints is
any text, whatever the device does: one with a phrase that the code takes for a test in
progress, or another (`PollEnds`). The test in the device runs to its end, breaks off or
is aborted by somebody else (`TestEnds`), and `smartctl -t` may succeed without one.
`failed` remembers which commands failed, the abort included when it has no effect, and
`told` what the last poll printed; the properties alone read them. Not modelled: a test
that another program started before the call or starts during it.

**`SystemReport`** is `collectSystemReport`. `Proceed` and `Cancel` are the two outcomes
of a look at the context, `Collect` is the end of a collector, during which the context
may end, and `Finish` is what follows the last look. A section is its availability,
whether it has an error, and the items it lists; each collector is an operator from the
facts it finds on the machine to a section. `late` counts the collectors that ended after
the context did; the properties alone read it.

**`CpuInfo`** is `getCpuInfo`: its variables are the four counts, who gave the threads per
core, the form of the text, and the processor's name with its frequency; there is an
action for each source. A count is a number, with 0 for one that the source does not give;
a name is its length, because length is what `cpu.go:599` compares; a frequency is "plain"
when `hasFrequency` recognises it and "odd" when it does not. `threadsBy` is not in the
code: `HybridIsUneven` needs it to say of which counts the label is true.

**`SystemInfo`** extends `CpuInfo` to `GetSystemInfo` and `CheckSystemInfo`. The queries
before the goroutines are steps of one caller; the goroutines are spawned one at a time,
answer or panic, and call `Done`. Each action of the caller names the function it stands
for. What a query finds is a set of subjects ("total", "usage", "swap"), so that a row can
be compared with the answer it stems from. After the CPU's rows have been formed the
numbers are only printed, and the model forgets them. The caller may ask again, since
`cpuType` and `macInfo` outlive a call. `answered` and `natHeard` are read by the
properties alone.

**`DiskList`** is `getDiskInfo`: `LinuxDisks` (which is also Windows), `BSDDisks` and
`MacOSDisks` collect, `Fallback`, `Consolidate` and `Reduce` follow. The machine is a
table of mounts, the sizes of its devices and what `df` prints for "/". Where Go ranges
over a map and the order matters there is a choice: which of two largest partitions stands
for a disk, which of two roots counts, the order of equal sizes in the sorted list.

**`Ipv6Mask`** is `GetIPv6Mask` on its four systems. `Chain` is the order of the sources.
The listener is modelled with its clock: `Check` is the `select`, only a read takes time,
and a read ends with a foreign packet, an advertisement, an error or its own time-out. An
advertisement is a sequence of units of eight bytes of which the four bytes that the code
reads are kept; `WalkStep` is a turn of `extractPrefixFromRAOption`'s loop, with the
length computed in a byte as in the code. `offered` holds what each source gave; the
properties alone read it.

**`NetworkReport`** extends `Ipv6Mask` to the command: `ParseCLI`, `PreCheck`,
`RunIpCheck`, `PrintIPInfo`, the counts of the subnet and of the BGP prefix, the IPv6
length, the system information and the key press at the end. What `PublicAccess`,
`IpCheck` and `SystemInfo` have in detail appears here by what it may return. A record is
the set of facts known.

**`MCIpCheck`, `MCAsnFallback`, `MCPublicAccess`, `MCSystemReport`, `MCDiskList`,
`MCNetworkReport`** give TLC the constants that a configuration file cannot write down.

**`IpCheckProofs`, `AsnFallbackProofs`, `PublicAccessProofs`, `GpuStatProofs`,
`DiskProofs` (of `DiskList` and `DeepTool`), `SystemReportProofs`, `SystemInfoProofs`,
`NetworkReportProofs`** hold the proofs. **`LexOrder`** is the lexicographic order in
which they count what is left to do.

Operators whose name starts with `Bug` are faulty variants of the definition that follows
them. Nothing uses them; each says which mistake the property named in PROJECT.json under
"mutants" would catch.

## Runs

| Run | Configuration | Shows |
|---|---|---|
| `ip_check` | `IpCheckBoth.cfg` | no panic, no lost answer, the ordered merge, termination, refinement of `IpLookup` |
| `ip_merge` | `IpCheckMerge.cfg` | **violated**: a set field is replaced, against the comment at `merge.go:18` |
| `asn_fallback` | `AsnFallback.cfg` | priority, no race on the record, known fields kept |
| `asn_priority` | `AsnFallbackPriority.cfg` | **violated**: the last service's answer is never looked at |
| `public_access` | `PublicAccess.cfg` | no report on a closed channel, no false connectivity, complete unless timed out, termination, no leak |
| `gpu_stat` | `GpuStat.cfg` | one goroutine in the retry loop, the utilisation given up for good after the limit, only real readings are reported; a query that hangs holds up its own call only, and without one the flag comes free |
| `deep_tool` | `DeepTool.cfg` | "ok" never against what the call knows, a test left running only after a failed command or a text that did not show it, the call returns once its context is over |
| `system_report` | `SystemReport.cfg` | at most one collector ends after the context, partial reports say so, nothing collected is lost, RAID agrees with PCI, on Linux never unavailable |
| `system_info` | `SystemInfo.cfg` | every answer is shown whichever goroutine panics, a lost CPU record is the only way to crash, a conclusive NAT attempt is kept, "hybrid" is true of counts from one source, a frequency is not lost again |
| `disk_list` | `DiskList.cfg` | each physical disk has its largest part as a row and no second one beside the root's, the disk with the root is there |
| `network_report` | `NetworkReport.cfg` | the listener ends in bounded time, the walk stays on the options, the IPv6 length comes from the first source that has one, the row of active addresses says what was counted |
| `gpu_stale` | `GpuStatStale.cfg` | **violated**: an earlier call's reading is reported as current |

Bounds. Two services are enough for every order of arrival, for two that disagree about a
field and for one that is silent; three fields stand for the three roles a field can have
(place, AS number, organisation). Two of the four knowledge sets would do for the merge;
the four make the fallback's condition vary. Both families run in the same call, so that
the shared WaitGroup and the order of the two closes matter; one call type outside the
three is there for the error. Three probes are two of one family and one of the other:
enough for a family to be confirmed twice, once or not at all. Two callers of the GPU
query are enough for a busy flag and for a write between another caller's two reads; the
limit of three failures is that of the code. `SystemInfo` runs two calls on each of four
systems, because the second one meets the package variables of the first; counts up to 3
make quotients with and without a remainder and products that no other source confirms,
two sockets and two names suffice for every comparison, three methods are those of the
code and two servers make an inner loop of more than one turn. That is about 2.7 million
states. `DiskList` has every table of at most three different lines out of seven (a device
mounted twice, two roots, a rescue system's mount, a hidden one, a virtual one), four
devices on three physical disks and a size below, at and above each threshold.
`NetworkReport` has a time-out of 3 ticks, so that foreign packets can arrive before, at
and after the deadline; advertisements of up to two options, with one of 264 bytes, whose
length wraps, one of length 0 and one that is cut off; lengths and prefix lengths on both
sides of what is valid; a picture of four pixels. One call of a deep tool needs no bound
at all: its states are finitely many. A machine of `SystemReport` offers each collector
everything, nothing and, where that makes another section, a part; eleven collectors are
those of the code. The proofs below remove the bounds on the number of services and
callers.

Deadlock is checked where the system runs for ever (`GpuStat`); a call that returns stops,
so `CHECK_DEADLOCK FALSE` is there for the calls, and the liveness properties, where there
are some, say that they stop only after they have returned.

Fairness. A goroutine that can run is scheduled: weak fairness of each goroutine's steps.
`IpCheck` assumes that every request ends, because the HTTP client has a time-out
(`network/utils/utils.go:27`, 12 s). `PublicAccess` assumes nothing of a probe's target,
only that the context's timer fires. `GpuStat` assumes nothing of the queries for the
model and the utilisation, which may hang for ever: the condition under which the flag
comes free, that no query lasts for ever, is in `OnlyHungQueryBlocks` itself. `DeepTool`
assumes nothing of a command whose context lives, nor of the device, only that a command
ends when its context kills it; the abort has a context of its own of five seconds.
`AsnFallback`, `SystemReport`, `SystemInfo`, `DiskList` and `NetworkReport` state no
fairness, and no run asks whether they end: that the listener of `Ipv6Mask` ends is the
safety property `ListenerBounded`, on the clock. No strong fairness is assumed: the
`select` of `PublicAccess` may choose badly as often as it likes.

## Proofs

`IpCheckProofs` proves, for **any** number of services, any set of call types and any
knowledge the services may have:

* `TypeCorrect`, `ClosedAfterAllOffers`, `EveryAnswerKept`, `ResultIsOrdered`: the four
  invariants that the run `ip_check` checks for two services;
* `Refinement`: `Spec => ImplementsLookup`;
* `KnownFieldsAreHandedUp`: a field that is known stays known, and its value is replaced
  only in the merge, by that of a service further back in the order. This is what is true
  of the comment at `merge.go:18`, which the run `ip_merge` refutes.

The invariants are not inductive. `IInv` adds to them

* `CountInv`: `wg` is the number of goroutines that have not called `Done`, a cardinality;
  that is why a zero counter means that every offer has been made;
* `ControlInv`: how far goroutines, closer and caller are relative to each other, for
  instance that a drained channel is closed and empty;
* `QueueInv`: a family's channel and list together hold at most one entry of each service,
  and each is that service's answer. With the pigeonhole principle this bounds the channel
  and gives `RoomForOneMore`: the offer never finds the channel full;
* `ResultInv`: while the nested loops run, the result is the merge of the services in
  `Merged`, those of earlier orders and the current one if the inner loop has passed its
  entry.

There is a lemma per action. The lemmas about the merge (`MergeNext`, `MergeNone`,
`FillIsFilled`) say what one more answer does to a merge; those about queues (`MoveEntry`,
`AppendEntry`) what receiving does to channel and list. `Refinement` needs one more
conjunct, `AskedInv`: the goroutines that were started are exactly those of the families
asked for. Assumptions: there is at least one service; the fields named in the code exist;
`Nil` is not a record; "none", which marks the time before the call, is not a call type.

`GpuStatProofs` proves for any set of callers, any readings and any limit: `TypeCorrect`,
`LoopIsExclusive`, `ReportsAreReadings` and `StatsGivenUp`, the last one an action
property. The inductive invariant ties the flag to the control states (`FlagGuardsLoop`)
and the counter to them (`FetchBelowLimit`), because the counter may reach the limit only
in the hands of the one goroutine that is in the loop.

`SystemReportProofs` proves for any machine (any `Findings` that the code can tell apart):
`TypeCorrect`, `CancellationIsPrompt`, `WholeUnlessCanceled` and
`LinuxIsNeverUnavailable`, and the action property `CollectedSectionsStay`. The inductive
invariant says that a collector under way was started under a live context (`LateInv`, so
none before it was late) and that the sections before `at` are there while nothing is said
of the whole yet (`PrefixInv`). `CollectedIsSection` is the lemma about the collectors:
what they make is always a section with an availability, and virtualization's is always
"available" on Linux. That a collected section stays needs one invariant more,
`SectionsInv`: the collectors to come have left nothing yet, so that a section is there
once and for all; off Linux there are no controllers that could revise RAID, and on Linux
RAID is in a state in which the revision changes the one thing it may. A collector writes
its own section only (`CollectWrites`), and the revision at the end changes RAID's only
(`FinishRevisesRaidOnly`).

`PublicAccessProofs` proves for any number of probes of either family and any capacity of
the channel: `TypeCorrect`, `ClosedAfterAllReports`, `ConnectivityIsReal` and
`AnswerIsComplete`. The inductive invariant says that the counter is the number of probes
between their start and their `Done` (`CounterIsAlive`, a cardinality) and that they are
started in order (`StartedInOrder`). The counter may be zero between two starts, when the
earlier probes are done; the closer waits only after the last start, and a zero counter
then means that no probe is alive. `TagsAreTrue` follows a tag from the probe through the
buffer to the caller; `NothingLost` and `HeardAll` say that until the context is over no
tag leaves that way.

`AsnFallbackProofs` proves for any fields, any records the function is called with and
anything the services may know: `FirstServiceWins`, `RecordIsNotShared` (an action
property) and `RecordIsOnlyCompleted`. `Phases` ties the counter to the goroutines and
closing to their ends, which gives the absence of the race; `EntriesKept` says that each
service that has delivered has one entry in channel or list and that it holds what the
service said, `RecordSoFar` that the record is untouched before the loops and that no
entry they have passed knows the AS number. From `FilledInv` follow two theorems about the
loop at `network/baseinfo/baseinfo.go:306`. `OnlyTheFirstIsHeard`: what comes back is the
record completed by the first service alone, which is finding 2 for every input.
`FallbackIsOneStep`: the change is one that the action `Fallback` of `IpCheck` may make of
the record, so that the model of the lookup loses nothing by having the fallback as one
step.

`DiskProofs` proves for any machine, that is any table of mounts, sizes and physical
disks: `DisksOnce` and `RootIsShown`. `ListInv` follows the disk with the root through the
stages: what is listed is finite with sizes that are numbers, the root's disk is one of
its entries (or none, or the one that stands for "/" alone), and the boot path, if there
is one, is its device. The sum that completes the system's disk is a recursive function;
`SumDefined` shows that it has values at all. The sorted list has the elements of the set
it is made of, each once (`SortedIsWhole`, by counting), and what is picked has, for each
entry, one of the same physical disk that is at least as large, and two of a physical disk
only beside the current one (`PickedFacts`). For a deep tool on any targets and platforms
it proves `OkHasNoCounterevidence` and `TestIsLeftForAReason`; what is needed besides the
two is that a call which may still succeed has seen no failure and aborted nothing
(`NothingWrongYet`), and that the device is quiet before the call (`DeviceQuiet`).

`SystemInfoProofs` proves for any counts, names, methods, servers and calls: `TypeCorrect`
(the counter is the number of goroutines at work), `AnswersAreShown`, `CrashHasOneCause`,
`NatAnswerIsKept`, `HybridMeansUneven` and the action property `FrequencyIsKept`.
`HybridMeansUneven` is the one that needs an argument: `QuotientKept` says that the
threads per core are the quotient of the two other counts whenever one source gave both,
and the lemmas about division say when the product falls short. Assumptions: the constants
are natural numbers, 0 and 1 are counts, a name is longer than a frequency, the systems'
names are not among those of the places in `cpuStep`.

`NetworkReportProofs` proves for any time-outs, packets, listings and pictures:

* `ListenerEnds`: the clock stays below twice the time-out;
* `OnlyOneSourceOffers` and `MaskOfTheFirstSource`: when a length is printed no source but
  its own has given one, it is one that the source gave, and 128 only if none gave any.
  The sources form a sequence without repetition (`ChainWithoutRepetition`), and
  `PrintedInv` adds to `OnlyOneSourceOffers` what is printed, and that the listener is
  Linux's;
* `WalkStaysOnOptions`: up to the first option of 256 bytes or more the walk is at the
  beginning of an option. The reference is the set `OptionStarts`, the walk computes in a
  byte; `UnitsInAByte` says when both agree;
* `ActiveRowIsHonest`: the row of active addresses says no more than the networks have. By
  `ActiveInv` no count exceeds its network, and the row stands only where the counts are
  still those it was printed from. That a part of a network is no larger than the network
  needs powers of two, which the provers take as the number of subsets.

`CollectedSectionsStay`, `DisksOnce`, `WalkStaysOnOptions` and others speak of sets and
sequences of any size. The library's induction has an operator as its parameter and cannot
be instantiated by the provers installed; the lemma `UpTo` says the same of a *set* of
numbers (it has 0 and with a number the next one, hence all up to the bound). With it the
recursive functions behind sums and option starts are shown to have values.

### What is proved about termination

That a call *does* return needs fairness and ENABLED, and stays with TLC. What can go
wrong in the code is underneath, and is a safety property: a loop that does not end, a
goroutine that waits for one that has gone. Seven theorems say that neither happens, for
every value of the constants:

| Theorem | Liveness it is the core of | Measure, and who can move |
|---|---|---|
| `IpCheckProofs!CallComesToAnEnd` | `EventuallyReturns` | stages left, services asked, goroutines alive, entries in the channels, channels open, orders and entries left; while the caller waits, a goroutine is alive or a channel can be closed or drained |
| `AsnFallbackProofs!CallComesToAnEnd` | (no liveness is checked) | likewise with one channel |
| `PublicAccessProofs!NobodyIsLeftWaiting` | `EventuallyReturns`, `NoGoroutineLeak` | the caller's stages, probes by their place, the buffer; a probe before a full buffer has a caller that listens, or the context is over and it gives up |
| `GpuStatProofs!HolderLetsGo` | `OnlyHungQueryBlocks`, its first half | failures left before the limit and the place in the loop, for the one goroutine that holds the flag; there is always one when the flag is set |
| `SystemInfoProofs!WaitIsServed` | (no liveness is checked) | from the first goroutine's start on: the caller's place, goroutines unborn, asking, alive; `BornInOrder` says that the next one can always be started |
| `SystemInfoProofs!NatLoopsEnd` | (no liveness is checked) | methods left, servers left |
| `DiskProofs!OverMeansReturning` | `ReturnsWhenOver` | the place of the call, whether a poll is doomed, the device; only once the context is over |

Each measure is a tuple of naturals and goes down in `LexLess` with every step, which is
stronger than the liveness needs: the calls end under any scheduling that does not stop.
In `GpuStat` and `SystemInfo`, where callers come back, and in `DeepTool`, whose polling
may go on as long as its context lives, it goes down only where the theorem says so. There
is no measure for the listener of `Ipv6Mask`, which foreign packets that take no time can
keep busy, nor for the processors that `CpuInfo` lists, any number of which may come.

Only model-checked: the five liveness properties themselves (`EventuallyReturns` twice,
`NoGoroutineLeak`, `OnlyHungQueryBlocks`, `ReturnsWhenOver`), since the provers installed
do not do fairness or ENABLED. Every other property of a passing run is a theorem. The
three runs that find a violation state no theorem; what they show of the ASN fallback is
`OnlyTheFirstIsHeard`.

## Findings

1. `CompareAndMergeIpInfo` replaces fields that are set, against its comment
   (`network/utils/merge.go:18`). As called, the last service wins.
2. `fillASNWithFallback` never looks at ipapi's answer
   (`network/baseinfo/baseinfo.go:306`): the loop stops before the order 2 that the map
   gives it.
3. `getGPUInfo` reports the reading of an earlier call when its own fails
   (`system/gpu.go:84`), against `README.md:28`.

Seen while modelling, without a line of the repository that promises otherwise: a
self-test goes on in the device when a poll fails (`system/deep_tools.go:66`) or when
`smartctl -t` fails after it has started it (`:44`); only the context's end between two
polls aborts it. Nor does "ok" mean that the test finished: of every text of `smartctl -c`
without one of two phrases the code says "ok" (`:71`), also when the device shows no
status while the test runs on, or when the test was aborted, broke off or never began.
`TestLeftForAReason` and `OkAgainstNoEvidence` say exactly what is left. A vendor's tool
that hangs keeps the flag of the GPU set (`system/gpu.go:53`): its own call never returns,
and later calls find the flag set and report the last reading; `OnlyHungQueryBlocks` says
that they return. The overall "unavailable" of the structured report
(`system/report.go:335`) cannot occur on Linux.

Seen while modelling the system information and the network report, likewise:

* A machine is called hybrid by mistake when the threads per core are those of another
  source than the counts, or the default (`system/cpu.go:505`); hence the condition of
  `HybridIsUneven`.
* A second vendor line of `lscpu` that is not longer than the first ("BIOS Vendor ID")
  drops the frequency that the same output gave (`system/cpu.go:162`).
* `cpu.Info` failing on Windows returns no record, and the process goes down at the first
  write to it (`system/cpu.go:567`, `system/system.go:36`).
* "No swap" is shown when the memory query failed; an error of `load.Avg` erases the
  numbers that `/proc/loadavg` has given (`system/load.go:51`); the type of CPU is that of
  the last successful call when the host query fails (`system/host.go:105`).
* The boot path on Windows depends on the order of a map (`system/disk.go:311`), and a
  macOS snapshot device such as `/dev/disk3s1s1` is not reduced to its physical disk.
* The row of active addresses is bare when the prefix is the /24 itself and only the
  second of the two queries about it succeeded (`network/network.go:90`); a /0 from the
  first BGP service keeps the second from being asked.
* The length of a router advertisement's option is computed in a byte and wraps at 256
  (`network/ipv6/ipv6_mask_linux.go:34`). `SO_BINDTODEVICE` gets the index of the
  interface where Linux takes its name (`:117`), so that the listener normally ends at
  once. One that does listen may stay for almost twice its five seconds (`:130`). The
  number of an IPv4 netmask in a configuration file can be taken for the IPv6 length.

Seen while reading and not modelled: the retry settings at `network/utils/utils.go:40` are
applied to a request that is never sent; `determineLinuxRAIDType` (`system/raid.go:149`)
looks for "raid1" before "raid10", in a function that is never called; the text form of a
report does not say that it was canceled (`cmd/main.go:105`).

## Plan

What is left, in this order; each new module comes with its configuration, its properties
and, where it says so, proofs.

1. Proofs: that the outcomes which `NetworkReport` and `SystemInfo` give to the calls they
contain are those which `PublicAccess`, `IpCheck` and `GpuStat` can have, as
`FallbackIsOneStep` says of the fallback. 2. `CpuLimits`: quota, period and CPU set of
nested cgroups, in the traditional and in the    structured form, which should agree. 3.
`DmiTable`: the walk over the firmware's table, against a reference definition. 4. The
composition of `NetworkReport` with `PublicAccess`, `IpLookup` and `SystemInfo` in
place of their outcomes, and of the detailed fallback with `IpCheck`. 5. The structured
report's text, to say what a reader of a canceled one is told.

## Not modelled, and why

* Parsing of the services' pages and the tools' text by regular expressions, wording,
  translation, units and layout: input and output without interleaving or state. The
  models start from what is found.
* HTTP, ioctl, sysfs, WMI and the vendors' tools are external: they appear by their
  answers and failures.
* Disk health (`system/disk_health_*.go`): fixed offsets of pages that one caller reads.
  The collector's outcome is in `SystemReport`.
* `detectRAID` and what it calls: nothing in the program calls it.
* The slicing of tool output by position, such as the second part of a line split at ":"
  (`system/host.go:175`): a panic there, on macOS and outside any `recover`, is not among
  those of `OnlyLostRecordCrashes`.
* CPU caches and features, kernel, architecture, uptime and time zone: each is read from
  one source and printed, and nothing depends on it.
* The goroutine that counts the program's uses: it recovers from its panics, writes
  nothing that is shared, and the process does not wait for it.
* `model/model.go`, `cmd/system-canary` and `basics_install.sh`: declarations, a program
  that prints one report, and a download.
