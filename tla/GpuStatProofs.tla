---------------------------- MODULE GpuStatProofs ---------------------------
(***************************************************************************)
(* Proofs about GpuStat for any set of callers, any readings and any limit   *)
(* on the failures.                                                         *)
(***************************************************************************)
EXTENDS GpuStat, LexOrder, TLAPS

\* The flag is set while, and only while, one goroutine is in the retry loop.
FlagGuardsLoop ==
  /\ RetryLoopExclusive
  /\ updateGPUStatus = 0 => \A c \in Callers : pc[c] \notin Reading

\* A goroutine about to fetch has not used up the failures it may have.
FetchBelowLimit ==
  \A c \in Callers : pc[c] = "fetch" => statDataFetchAttempts < maxDeviceDataFetchAttempts

\* gpuStat is a reading, except before the first; a caller that has seen it above
\* zero comes after the first.
StatWasFetched ==
  /\ gpuStat # 0 => gpuStat \in fetched
  /\ \A c \in Callers : pc[c] = "format" => gpuStat \in fetched
  /\ ReportedWasFetched

IInv == TypeOK /\ FlagGuardsLoop /\ FetchBelowLimit /\ StatWasFetched

LEMMA InitIInv == Init => IInv
<1> USE HostBoundAssumption, AttemptsAssumption
<1>1. Init => TypeOK
  BY DEF Init, TypeOK, CallStates, Reading
<1>2. Init => FlagGuardsLoop /\ FetchBelowLimit /\ StatWasFetched
  BY DEF Init, FlagGuardsLoop, RetryLoopExclusive, FetchBelowLimit, StatWasFetched,
         ReportedWasFetched, Reading
<1>3. QED
  BY <1>1, <1>2 DEF IInv

\* One step of the system, taken by caller c, keeps the invariant.
LEMMA StepIInv ==
  ASSUME NEW c \in Callers, IInv, Call(c) \/ InCall(c)
  PROVE  IInv'
<1> USE HostBoundAssumption, AttemptsAssumption, ReadingsAssumption
<1> USE DEF IInv, Goto, counters, readings
<1>t. TypeOK'
  <2> USE DEF TypeOK, CallStates, Reading
  <2>1. CASE Call(c)
    BY <2>1 DEF Call
  <2>2a. CASE NoModel(c)
    BY <2>2a DEF NoModel
  <2>2b. CASE ModelFound(c)
    BY <2>2b DEF ModelFound
  <2>3. CASE Acquire(c) \/ Busy(c) \/ LoopTries(c) \/ LoopEnds(c) \/ Wake(c)
    BY <2>3 DEF Acquire, Busy, LoopTries, LoopEnds, Wake
  <2>4. CASE FetchFails(c)
    BY <2>4 DEF FetchFails, FetchBelowLimit
  <2>5. ASSUME NEW gs \in Readings, FetchSucceeds(c, gs) PROVE TypeOK'
    BY <2>5 DEF FetchSucceeds
  <2>6. CASE FetchPanics(c) \/ Release(c) \/ ReadNothing(c) \/ ReadSomething(c)
    BY <2>6 DEF FetchPanics, Release, ReadNothing, ReadSomething
  <2>7. CASE Format(c)
    BY <2>7 DEF Format
  <2>8. QED
    BY <2>1, <2>2a, <2>2b, <2>3, <2>4, <2>5, <2>6, <2>7 DEF InCall, ToolAnswers, Runs
<1>f. FlagGuardsLoop'
  <2> USE DEF TypeOK, FlagGuardsLoop, RetryLoopExclusive, Reading
  <2>1. CASE Call(c) \/ NoModel(c) \/ ModelFound(c) \/ Busy(c)
    BY <2>1 DEF Call, NoModel, ModelFound, Busy
  <2>2. CASE Acquire(c)
    BY <2>2 DEF Acquire
  <2>3. CASE LoopTries(c) \/ LoopEnds(c) \/ Wake(c) \/ FetchFails(c) \/ FetchPanics(c)
    BY <2>3 DEF LoopTries, LoopEnds, Wake, FetchFails, FetchPanics
  <2>4. ASSUME NEW gs \in Readings, FetchSucceeds(c, gs) PROVE FlagGuardsLoop'
    BY <2>4 DEF FetchSucceeds
  <2>5. CASE Release(c)
    BY <2>5 DEF Release
  <2>6. CASE ReadNothing(c) \/ ReadSomething(c) \/ Format(c)
    BY <2>6 DEF ReadNothing, ReadSomething, Format
  <2>7. QED
    BY <2>1, <2>2, <2>3, <2>4, <2>5, <2>6 DEF InCall, ToolAnswers, Runs
<1>b. FetchBelowLimit'
  <2> USE DEF TypeOK, FetchBelowLimit
  <2>1. CASE Call(c) \/ NoModel(c) \/ ModelFound(c) \/ Acquire(c) \/ Busy(c)
    BY <2>1 DEF Call, NoModel, ModelFound, Acquire, Busy
  <2>2. CASE LoopTries(c) \/ LoopEnds(c) \/ Wake(c) \/ FetchPanics(c) \/ Release(c)
    BY <2>2 DEF LoopTries, LoopEnds, Wake, FetchPanics, Release
  <2>3. CASE FetchFails(c)
    \* Nobody else is in the loop, so nobody else is about to fetch.
    BY <2>3 DEF FetchFails, FlagGuardsLoop, RetryLoopExclusive, Reading
  <2>4. ASSUME NEW gs \in Readings, FetchSucceeds(c, gs) PROVE FetchBelowLimit'
    BY <2>4 DEF FetchSucceeds
  <2>5. CASE ReadNothing(c) \/ ReadSomething(c) \/ Format(c)
    BY <2>5 DEF ReadNothing, ReadSomething, Format
  <2>6. QED
    BY <2>1, <2>2, <2>3, <2>4, <2>5 DEF InCall, ToolAnswers, Runs
<1>s. StatWasFetched'
  <2> USE DEF TypeOK, StatWasFetched, ReportedWasFetched
  <2>1. CASE Call(c)
    BY <2>1 DEF Call
  <2>2. CASE NoModel(c) \/ ModelFound(c) \/ Acquire(c) \/ Busy(c) \/ LoopTries(c)
    BY <2>2 DEF NoModel, ModelFound, Acquire, Busy, LoopTries
  <2>3. CASE LoopEnds(c) \/ Wake(c) \/ FetchFails(c) \/ FetchPanics(c) \/ Release(c)
    BY <2>3 DEF LoopEnds, Wake, FetchFails, FetchPanics, Release
  <2>4. ASSUME NEW gs \in Readings, FetchSucceeds(c, gs) PROVE StatWasFetched'
    BY <2>4 DEF FetchSucceeds
  <2>5. CASE ReadNothing(c) \/ ReadSomething(c)
    BY <2>5 DEF ReadNothing, ReadSomething
  <2>6. CASE Format(c)
    BY <2>6 DEF Format
  <2>7. QED
    BY <2>1, <2>2, <2>3, <2>4, <2>5, <2>6 DEF InCall, ToolAnswers, Runs
<1>q. QED
  BY <1>t, <1>f, <1>b, <1>s

LEMMA NextIInv == IInv /\ [Next]_vars => IInv'
<1>1. CASE UNCHANGED vars
  BY <1>1 DEF IInv, vars, TypeOK, FlagGuardsLoop, RetryLoopExclusive, FetchBelowLimit,
              StatWasFetched, ReportedWasFetched, Reading
<1>2. QED
  BY <1>1, StepIInv DEF Next

LEMMA Invariance == Spec => []IInv
<1>1. QED
  BY InitIInv, NextIInv, PTL DEF Spec

\* However many goroutines call, every variable keeps its type; in particular failures
\* are counted up to the limit and no further.
THEOREM TypeCorrect == Spec => []TypeOK
<1>1. IInv => TypeOK
  BY DEF IInv
<1>2. QED
  BY <1>1, Invariance, PTL

\* However many goroutines call, at most one is ever in the retry loop.
THEOREM LoopIsExclusive == Spec => []RetryLoopExclusive
<1>1. IInv => RetryLoopExclusive
  BY DEF IInv, FlagGuardsLoop
<1>2. QED
  BY <1>1, Invariance, PTL

\* However many goroutines call, what each reports was once read from a GPU.
THEOREM ReportsAreReadings == Spec => []ReportedWasFetched
<1>1. IInv => ReportedWasFetched
  BY DEF IInv, StatWasFetched
<1>2. QED
  BY <1>1, Invariance, PTL

\* Once the limit of failures is reached no call, by whoever, reads the GPU again.
THEOREM StatsGivenUp == Spec => GivenUpForGood
<1> DEFINE A == statDataFetchAttempts = maxDeviceDataFetchAttempts =>
                  UNCHANGED <<statDataFetchAttempts, gpuStat>>
<1>1. ASSUME IInv, NEW c \in Callers, Call(c) \/ InCall(c) PROVE A
  <2> USE DEF IInv, TypeOK, FetchBelowLimit, Goto, counters, readings
  <2>1. CASE FetchFails(c)
    BY <2>1, <1>1, AttemptsAssumption DEF FetchFails
  <2>2. ASSUME NEW gs \in Readings, FetchSucceeds(c, gs) PROVE A
    BY <2>2, <1>1, AttemptsAssumption DEF FetchSucceeds
  <2>3. CASE Call(c) \/ NoModel(c) \/ ModelFound(c) \/ Acquire(c) \/ Busy(c) \/ LoopTries(c)
    BY <2>3 DEF Call, NoModel, ModelFound, Acquire, Busy, LoopTries
  <2>4. CASE LoopEnds(c) \/ Wake(c) \/ FetchPanics(c) \/ Release(c)
    BY <2>4 DEF LoopEnds, Wake, FetchPanics, Release
  <2>5. CASE ReadNothing(c) \/ ReadSomething(c) \/ Format(c)
    BY <2>5 DEF ReadNothing, ReadSomething, Format
  <2>6. QED
    BY <1>1, <2>1, <2>2, <2>3, <2>4, <2>5 DEF InCall, ToolAnswers, Runs
<1>2. IInv /\ [Next]_vars => [A]_vars
  BY <1>1 DEF Next
<1>3. QED
  BY <1>2, Invariance, PTL DEF Spec, GivenUpForGood

-----------------------------------------------------------------------------
(***************************************************************************)
(* The flag comes free: somebody holds it, and has only so much left to do. *)
(***************************************************************************)

FlagIsHeld == updateGPUStatus = 1 => \E c \in Callers : pc[c] \in Reading

PlaceLeft == [sleep |-> 3, loop |-> 2, fetch |-> 1, release |-> 0]

\* What the goroutine of c has left to do in the retry loop. A success resets the failures,
\* but only on the way out.
HoldLeft(c) == <<IF pc[c] = "release" THEN 0 ELSE 1,
                 maxDeviceDataFetchAttempts - statDataFetchAttempts,
                 PlaceLeft[pc[c]]>>

\* A goroutine in the loop leaves it, or comes closer to doing so, or another one moves,
\* which leaves it where it is and changes nothing it counts.
HolderComesCloser(c) ==
  pc[c] \in Reading =>
    \/ pc'[c] = "read" /\ updateGPUStatus' = 0
    \/ pc'[c] \in Reading /\ LexLess(HoldLeft(c)', HoldLeft(c))
    \/ pc'[c] = pc[c] /\ HoldLeft(c)' = HoldLeft(c)

LEMMA HoldLeftIsNatural ==
  ASSUME IInv, NEW c \in Callers, pc[c] \in Reading
  PROVE  \A i \in 1 .. 3 : HoldLeft(c)[i] \in Nat
<1>1. maxDeviceDataFetchAttempts - statDataFetchAttempts \in Nat /\ PlaceLeft[pc[c]] \in Nat
  BY AttemptsAssumption DEF IInv, TypeOK, PlaceLeft, Reading
<1>2. HoldLeft(c)[1] \in Nat /\ HoldLeft(c)[2] \in Nat /\ HoldLeft(c)[3] \in Nat
  BY <1>1 DEF HoldLeft
<1> HIDE DEF HoldLeft
<1>3. QED
  BY <1>2

\* A tuple whose first component that changes goes down is smaller.
LEMMA FirstDown ==
  ASSUME NEW a, NEW b, DOMAIN b = 1 .. 3, NEW i \in 1 .. 3, a[i] < b[i],
         \A j \in 1 .. (i - 1) : a[j] = b[j]
  PROVE  LexLess(a, b)
BY DEF LexLess

\* The goroutine's own steps.
LEMMA OwnStep ==
  ASSUME IInv, NEW c \in Callers, pc[c] \in Reading, Call(c) \/ InCall(c)
  PROVE  HolderComesCloser(c)
<1>1. /\ pc \in [Callers -> CallStates] /\ statDataFetchAttempts \in Nat
      /\ maxDeviceDataFetchAttempts \in Nat
  BY AttemptsAssumption DEF IInv, TypeOK
<1>2. DOMAIN HoldLeft(c) = 1 .. 3
  BY DEF HoldLeft
<1>3. CASE LoopTries(c) \/ Wake(c)
  <2>1. /\ statDataFetchAttempts' = statDataFetchAttempts
        /\ \/ pc[c] = "loop" /\ pc'[c] = "fetch"
           \/ pc[c] = "sleep" /\ pc'[c] = "loop"
    BY <1>1, <1>3 DEF LoopTries, Wake, Goto, counters
  <2>2. /\ HoldLeft(c)'[1] = HoldLeft(c)[1] /\ HoldLeft(c)'[2] = HoldLeft(c)[2]
        /\ HoldLeft(c)'[3] < HoldLeft(c)[3]
    BY <2>1 DEF HoldLeft, PlaceLeft
  <2>3. LexLess(HoldLeft(c)', HoldLeft(c))
    BY <1>2, <2>2, FirstDown
  <2>4. QED
    BY <2>1, <2>3 DEF HolderComesCloser, Reading
<1>4. CASE FetchFails(c)
  <2>1. /\ statDataFetchAttempts' = statDataFetchAttempts + 1
        /\ pc[c] = "fetch" /\ pc'[c] = "sleep"
    BY <1>1, <1>4 DEF FetchFails, Goto
  <2>2. HoldLeft(c)'[1] = HoldLeft(c)[1] /\ HoldLeft(c)'[2] < HoldLeft(c)[2]
    BY <1>1, <2>1 DEF HoldLeft
  <2>3. LexLess(HoldLeft(c)', HoldLeft(c))
    BY <1>2, <2>2, FirstDown
  <2>4. QED
    BY <2>1, <2>3 DEF HolderComesCloser, Reading
<1>5. CASE LoopEnds(c) \/ FetchPanics(c) \/ \E gs \in Readings : FetchSucceeds(c, gs)
  <2>1. pc[c] # "release" /\ pc'[c] = "release"
    BY <1>1, <1>5 DEF LoopEnds, FetchPanics, FetchSucceeds, Goto
  <2>2. HoldLeft(c)'[1] < HoldLeft(c)[1]
    BY <2>1 DEF HoldLeft
  <2>3. LexLess(HoldLeft(c)', HoldLeft(c))
    BY <1>2, <2>2, FirstDown
  <2>4. QED
    BY <2>1, <2>3 DEF HolderComesCloser, Reading
<1>6. CASE Release(c)
  BY <1>1, <1>6 DEF Release, Goto, HolderComesCloser
<1>7. QED
  BY <1>3, <1>4, <1>5, <1>6 DEF InCall, ToolAnswers, Runs, Call, NoModel, ModelFound, Acquire, Busy,
     ReadNothing, ReadSomething, Format, Goto, Reading

\* The steps of the others, who are not in the loop.
LEMMA OthersStep ==
  ASSUME IInv, NEW c \in Callers, pc[c] \in Reading,
         NEW d \in Callers, d # c, Call(d) \/ InCall(d)
  PROVE  HolderComesCloser(c)
<1>1. pc[d] \notin Reading /\ pc \in [Callers -> CallStates]
  BY DEF IInv, TypeOK, FlagGuardsLoop, RetryLoopExclusive
<1>2. pc'[c] = pc[c]
  BY <1>1 DEF Call, InCall, ToolAnswers, Runs, NoModel, ModelFound, Acquire, Busy, LoopTries, LoopEnds,
     FetchFails, Wake, FetchSucceeds, FetchPanics, Release, ReadNothing, ReadSomething, Format, Goto
<1>3. statDataFetchAttempts' = statDataFetchAttempts
  BY <1>1 DEF Call, InCall, ToolAnswers, Runs, NoModel, ModelFound, Acquire, Busy, LoopTries, LoopEnds,
     FetchFails, Wake, FetchSucceeds, FetchPanics, Release, ReadNothing, ReadSomething, Format, Goto,
     Reading, counters
<1>4. HoldLeft(c)' = HoldLeft(c)
  BY <1>2, <1>3 DEF HoldLeft
<1>5. QED
  BY <1>2, <1>4 DEF HolderComesCloser

\* Each step of the system keeps a holder for the flag.
LEMMA NextFlagIsHeld == IInv /\ FlagIsHeld /\ [Next]_vars => FlagIsHeld'
<1> SUFFICES ASSUME IInv, FlagIsHeld, [Next]_vars PROVE FlagIsHeld'
  OBVIOUS
<1>1. CASE UNCHANGED vars
  BY <1>1 DEF vars, FlagIsHeld
<1>2. ASSUME NEW d \in Callers, Call(d) \/ InCall(d) PROVE FlagIsHeld'
  <2>1. pc \in [Callers -> CallStates] /\ updateGPUStatus \in {0, 1}
    BY DEF IInv, TypeOK
  <2>2. CASE pc[d] \in Reading
    <3>1. pc'[d] \in Reading \/ updateGPUStatus' = 0
      BY <1>2, <2>2, OwnStep DEF HolderComesCloser
    <3>2. QED
      BY <3>1 DEF FlagIsHeld
  <2>3. CASE pc[d] \notin Reading
    <3>1. CASE Acquire(d)
      BY <2>1, <3>1 DEF Acquire, Goto, FlagIsHeld, Reading
    <3>2. CASE ~Acquire(d)
      <4>1. updateGPUStatus' = updateGPUStatus
        BY <1>2, <2>3, <3>2 DEF Call, InCall, ToolAnswers, Runs, NoModel, ModelFound, Busy, LoopTries,
           LoopEnds, FetchFails, Wake, FetchSucceeds, FetchPanics, Release, ReadNothing, ReadSomething, Format,
           Goto, Reading, counters
      <4>2. ASSUME updateGPUStatus = 1 PROVE \E c \in Callers : pc'[c] \in Reading
        <5>1. PICK c \in Callers : pc[c] \in Reading
          BY <4>2 DEF FlagIsHeld
        <5>2. HolderComesCloser(c)
          BY <1>2, <2>3, <5>1, OthersStep
        <5>3. QED
          BY <4>1, <4>2, <5>1, <5>2 DEF HolderComesCloser
      <4>3. QED
        BY <4>1, <4>2 DEF FlagIsHeld
    <3>3. QED
      BY <3>1, <3>2
  <2>4. QED
    BY <2>2, <2>3
<1>3. QED
  BY <1>1, <1>2 DEF Next

\* However many goroutines call, a flag that is set has a holder in the retry loop, and
\* each of the holder's steps takes down a tuple of naturals or resets the flag, while the
\* others can neither delay it nor undo what it counts: no call, no failure and no panic
\* leaves the flag set, only a query that never ends does (gpu.go:50-67).
THEOREM HolderLetsGo ==
  Spec => /\ []FlagIsHeld
          /\ [](\A c \in Callers : pc[c] \in Reading => \A i \in 1 .. 3 : HoldLeft(c)[i] \in Nat)
          /\ [][\A c \in Callers : HolderComesCloser(c)]_vars
<1>1. Init => FlagIsHeld
  BY DEF Init, FlagIsHeld
<1>2. ASSUME IInv, Next, NEW c \in Callers PROVE HolderComesCloser(c)
  BY <1>2, OwnStep, OthersStep DEF Next, HolderComesCloser
<1>3. IInv => \A c \in Callers : pc[c] \in Reading => \A i \in 1 .. 3 : HoldLeft(c)[i] \in Nat
  BY HoldLeftIsNatural
<1>4. IInv /\ [Next]_vars => [\A c \in Callers : HolderComesCloser(c)]_vars
  BY <1>2
<1>5. QED
  BY <1>1, <1>3, <1>4, NextFlagIsHeld, Invariance, PTL DEF Spec

=============================================================================
