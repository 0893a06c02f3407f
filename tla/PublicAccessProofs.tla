------------------------- MODULE PublicAccessProofs -------------------------
(***************************************************************************)
(* Proofs about PublicAccess for any number of probes of either family and   *)
(* any capacity of the channel.                                             *)
(***************************************************************************)
EXTENDS PublicAccess, LexOrder, FiniteSets, FiniteSetTheorems, TLAPS

Alive == {"probing", "reporting", "leaving"}
AliveProbes == {p \in Probes : probe[p] \in Alive}

\* The counter is the number of probes between their start and their wg.Done.
CounterIsAlive == wg = Cardinality(AliveProbes)

\* The probes are started in order, all of them before the caller listens.
StartedInOrder ==
  /\ \A p \in Probes : probe[p] = "unborn" <=> p > spawned
  /\ caller # "spawn" => spawned = Len(Tags)

\* The closer waits for the last probe.
ClosedAfterAll == closed => caller # "spawn" /\ \A p \in Probes : probe[p] = "done"

\* Tags that are buffered or heard come from targets that answered.
TagsAreTrue ==
  /\ \A p \in Probes : probe[p] = "reporting" => p \in reachable
  /\ \A i \in DOMAIN resultChan : resultChan[i] \in TagsOf(reachable)
  /\ has \subseteq TagsOf(reachable)

\* Until the context is over no answer is lost on its way to the caller.
OnItsWay(p) ==
  \/ Tags[p] \in has
  \/ \E i \in DOMAIN resultChan : resultChan[i] = Tags[p]
  \/ probe[p] = "reporting"

NothingLost == ctx = "live" => \A p \in reachable : OnItsWay(p)

\* The deferred cancel runs when the call returns; unless the time was over by then,
\* the caller has heard every target that answered.
HeardAll ==
  /\ ctx = "canceled" => caller = "returned"
  /\ caller \in {"result", "returned"} /\ ctx # "expired" =>
       closed /\ TagsOf(reachable) \subseteq has
  /\ StackType # "none" => caller = "returned"
  /\ caller = "returned" => StackType = StackOf(has)

IInv ==
  /\ TypeOK /\ CounterIsAlive /\ StartedInOrder /\ ClosedAfterAll
  /\ TagsAreTrue /\ NothingLost /\ HeardAll

-----------------------------------------------------------------------------
\* Helpers.

LEMMA ProbesFinite == IsFiniteSet(Probes) /\ Cardinality(Probes) = Len(Tags)
<1>1. Len(Tags) \in Nat
  BY TagsAssumption
<1>2. /\ IsFiniteSet(1 .. Len(Tags))
      /\ Cardinality(1 .. Len(Tags)) = IF 1 > Len(Tags) THEN 0 ELSE Len(Tags) - 1 + 1
  <2>1. 1 \in Int /\ Len(Tags) \in Int
    BY <1>1
  <2>2. QED
    BY <2>1, FS_Interval
<1>3. QED
  BY <1>1, <1>2 DEF Probes

\* The stack is always named, and never with the word that stands for none yet.
LEMMA StackIsNamed ==
  ASSUME NEW heard PROVE StackOf(heard) \in {"None", "IPv4", "IPv6", "DualStack"}
BY Zenon DEF StackOf

\* The counter never exceeds the number of probes.
LEMMA CounterBounded == CounterIsAlive => wg \in 0 .. Len(Tags)
<1>1. AliveProbes \subseteq Probes
  BY DEF AliveProbes
<1>2. IsFiniteSet(AliveProbes) /\ Cardinality(AliveProbes) <= Len(Tags)
  BY <1>1, ProbesFinite, FS_Subset
<1>3. Cardinality(AliveProbes) \in Nat /\ Len(Tags) \in Nat
  BY <1>2, FS_CardinalityType, TagsAssumption
<1>4. QED
  BY <1>2, <1>3 DEF CounterIsAlive

\* The probe that starts is counted, the one that ends is no longer.
LEMMA OneMoreAlive ==
  ASSUME NEW p \in Probes, p \notin AliveProbes, AliveProbes' = AliveProbes \cup {p},
         CounterIsAlive, wg' = wg + 1
  PROVE  CounterIsAlive'
<1>1. IsFiniteSet(AliveProbes)
  BY ProbesFinite, FS_Subset DEF AliveProbes
<1>2. Cardinality(AliveProbes \cup {p}) = Cardinality(AliveProbes) + 1
  BY <1>1, FS_AddElement
<1>3. QED
  BY <1>2 DEF CounterIsAlive

LEMMA OneFewerAlive ==
  ASSUME NEW p \in AliveProbes, AliveProbes' = AliveProbes \ {p},
         CounterIsAlive, wg' = wg - 1
  PROVE  CounterIsAlive'
<1>1. IsFiniteSet(AliveProbes)
  BY ProbesFinite, FS_Subset DEF AliveProbes
<1>2. Cardinality(AliveProbes \ {p}) = Cardinality(AliveProbes) - 1
  BY <1>1, FS_RemoveElement
<1>3. QED
  BY <1>2 DEF CounterIsAlive

\* When the counter is zero no probe is alive.
LEMMA NobodyAlive == CounterIsAlive /\ wg = 0 => AliveProbes = {}
<1>1. IsFiniteSet(AliveProbes)
  BY ProbesFinite, FS_Subset DEF AliveProbes
<1>2. QED
  BY <1>1, FS_EmptySet DEF CounterIsAlive

LEMMA InitIInv == Init => IInv
<1> SUFFICES ASSUME Init PROVE IInv
  OBVIOUS
<1>1. Len(Tags) \in Nat \ {0}
  BY TagsAssumption
<1>2. AliveProbes = {}
  BY DEF Init, AliveProbes, Alive
<1>3. CounterIsAlive
  BY <1>2, FS_EmptySet DEF Init, CounterIsAlive
<1>4. TypeOK
  <2>1. resultChan \in Seq({"IPv4", "IPv6"}) /\ Len(resultChan) <= BufferSize
    BY BufferAssumption DEF Init
  <2>2. probe \in [Probes -> ProbeStates]
    BY DEF Init, ProbeStates
  <2>3. wg \in 0 .. Len(Tags) /\ spawned \in 0 .. Len(Tags)
    BY <1>1 DEF Init
  <2>4. reachable \subseteq Probes /\ has \subseteq {"IPv4", "IPv6"} /\ closed \in BOOLEAN
    BY DEF Init
  <2>5. /\ ctx \in {"live", "expired", "canceled"}
        /\ caller \in {"spawn", "listen", "result", "returned"}
        /\ StackType \in {"none", "None", "IPv4", "IPv6", "DualStack"}
    BY DEF Init
  <2>6. QED
    BY <2>1, <2>2, <2>3, <2>4, <2>5 DEF TypeOK
<1>5. StartedInOrder
  BY <1>1 DEF Init, StartedInOrder, Probes
<1>6. ClosedAfterAll /\ TagsAreTrue /\ NothingLost /\ HeardAll
  BY DEF Init, ClosedAfterAll, TagsAreTrue, NothingLost, HeardAll
<1>7. QED
  BY <1>3, <1>4, <1>5, <1>6 DEF IInv

-----------------------------------------------------------------------------
\* One lemma for each action or group of actions.

LEMMA SpawnIInv == ASSUME IInv, Spawn PROVE IInv'
<1> DEFINE p == spawned + 1
<1>1. Len(Tags) \in Nat /\ spawned \in 0 .. Len(Tags) /\ spawned < Len(Tags)
  BY TagsAssumption DEF IInv, TypeOK, Spawn
<1>2. p \in Probes /\ probe[p] = "unborn" /\ probe \in [Probes -> ProbeStates]
  BY <1>1 DEF IInv, TypeOK, StartedInOrder, Probes
<1>3. probe' = [probe EXCEPT ![p] = "probing"] /\ wg' = wg + 1 /\ spawned' = p
      /\ caller = "spawn" /\ UNCHANGED <<reachable, resultChan, closed, ctx, caller, has, StackType>>
  BY DEF Spawn
<1> HIDE DEF p
<1>4. AliveProbes' = AliveProbes \cup {p} /\ p \notin AliveProbes
  BY <1>2, <1>3 DEF AliveProbes, Alive
<1>5. CounterIsAlive'
  BY <1>2, <1>3, <1>4, OneMoreAlive DEF IInv
<1>6. wg' \in 0 .. Len(Tags)
  <2>1. AliveProbes' \subseteq Probes
    BY DEF AliveProbes
  <2>2. IsFiniteSet(AliveProbes') /\ Cardinality(AliveProbes') <= Len(Tags)
    BY <2>1, ProbesFinite, FS_Subset
  <2>3. QED
    BY <2>2, <1>1, <1>5, FS_CardinalityType DEF CounterIsAlive
<1>7. TypeOK'
  BY <1>1, <1>2, <1>3, <1>6 DEF IInv, TypeOK, ProbeStates, p
<1>8. StartedInOrder'
  BY <1>1, <1>2, <1>3 DEF IInv, StartedInOrder, Probes, p
<1>9. ClosedAfterAll'
  BY <1>3 DEF IInv, ClosedAfterAll
<1>10. TagsAreTrue' /\ NothingLost' /\ HeardAll'
  BY <1>2, <1>3 DEF IInv, TagsAreTrue, TagsOf, NothingLost, OnItsWay, HeardAll
<1>11. QED
  BY <1>5, <1>7, <1>8, <1>9, <1>10 DEF IInv

\* A step of a probe that leaves the counter alone.
LEMMA ProbeIInv ==
  ASSUME IInv, NEW p \in Probes,
         ProbeSucceeds(p) \/ ProbeFails(p) \/ Report(p) \/ GiveUp(p)
  PROVE  IInv'
<1> USE DEF ProbeSucceeds, ProbeFails, Report, GiveUp, callerVars
<1>1. probe \in [Probes -> ProbeStates] /\ probe[p] \in {"probing", "reporting"}
      /\ UNCHANGED <<wg, closed, ctx, callerVars>>
  BY DEF IInv, TypeOK
<1>2. \E s \in {"reporting", "leaving"} : probe' = [probe EXCEPT ![p] = s]
  BY Zenon
<1>3. AliveProbes' = AliveProbes
  BY <1>1, <1>2 DEF AliveProbes, Alive
<1>4. CounterIsAlive'
  BY <1>1, <1>3 DEF IInv, CounterIsAlive
<1>5. ~closed
  BY <1>1 DEF IInv, ClosedAfterAll
<1>6. Tags[p] \in {"IPv4", "IPv6"} /\ Len(Tags) \in Nat
  BY TagsAssumption DEF Probes
<1>7. resultChan \in Seq({"IPv4", "IPv6"}) /\ Len(resultChan) <= BufferSize
  BY DEF IInv, TypeOK
<1>8. TypeOK'
  BY <1>1, <1>2, <1>6, <1>7, BufferAssumption DEF IInv, TypeOK, ProbeStates
<1>9. StartedInOrder' /\ ClosedAfterAll'
  BY <1>1, <1>2, <1>5 DEF IInv, StartedInOrder, ClosedAfterAll
<1>10. TagsAreTrue'
  <2>1. CASE ProbeSucceeds(p) \/ ProbeFails(p) \/ GiveUp(p)
    BY <2>1, <1>1 DEF IInv, TagsAreTrue, TagsOf
  <2>2. CASE Report(p)
    <3>1. resultChan' = Append(resultChan, Tags[p]) /\ p \in reachable /\ reachable' = reachable
      BY <2>2 DEF IInv, TagsAreTrue
    <3>2. \A i \in DOMAIN resultChan' : resultChan'[i] \in TagsOf(reachable)
      BY <3>1, <1>7, <1>6 DEF IInv, TagsAreTrue, TagsOf
    <3>3. QED
      BY <2>2, <3>1, <3>2, <1>1 DEF IInv, TagsAreTrue, TagsOf
  <2>3. QED
    BY <2>1, <2>2
<1>11. NothingLost'
  <2> SUFFICES ASSUME ctx' = "live", NEW q \in reachable' PROVE OnItsWay(q)'
    BY DEF NothingLost
  <2>1. ctx = "live"
    BY <1>1
  <2>2. CASE ProbeSucceeds(p)
    BY <2>1, <2>2, <1>1 DEF IInv, TypeOK, NothingLost, OnItsWay
  <2>3. CASE ProbeFails(p)
    BY <2>1, <2>3, <1>1 DEF IInv, TypeOK, NothingLost, OnItsWay
  <2>4. CASE Report(p)
    <3>1. q \in reachable /\ OnItsWay(q)
      BY <2>1, <2>4 DEF IInv, NothingLost
    <3>2. resultChan' = Append(resultChan, Tags[p]) /\ has' = has
      BY <2>4
    <3>3. CASE q = p
      <4>1. Len(resultChan) + 1 \in DOMAIN resultChan' /\ resultChan'[Len(resultChan) + 1] = Tags[p]
        BY <3>2, <1>7, <1>6
      <4>2. QED
        BY <4>1, <3>3 DEF OnItsWay
    <3>4. CASE q # p
      <4>1. probe'[q] = probe[q]
        BY <2>4, <3>4, <1>1
      <4>2. \A i \in DOMAIN resultChan : i \in DOMAIN resultChan' /\ resultChan'[i] = resultChan[i]
        BY <3>2, <1>7, <1>6
      <4>3. QED
        BY <3>1, <3>2, <4>1, <4>2 DEF OnItsWay
    <3>5. QED
      BY <3>3, <3>4
  <2>5. CASE GiveUp(p)
    BY <2>1, <2>5 DEF CtxDone
  <2>6. QED
    BY <2>2, <2>3, <2>4, <2>5
<1>12. HeardAll'
  BY <1>1, <1>5 DEF IInv, HeardAll, TypeOK
<1>13. QED
  BY <1>4, <1>8, <1>9, <1>10, <1>11, <1>12 DEF IInv

LEMMA ProbeDoneIInv == ASSUME IInv, NEW p \in Probes, ProbeDone(p) PROVE IInv'
<1>1. /\ probe \in [Probes -> ProbeStates] /\ probe[p] = "leaving"
      /\ probe' = [probe EXCEPT ![p] = "done"] /\ wg' = wg - 1
      /\ UNCHANGED <<reachable, resultChan, closed, ctx, callerVars>>
  BY DEF ProbeDone, IInv, TypeOK
<1>2. p \in AliveProbes /\ AliveProbes' = AliveProbes \ {p}
  BY <1>1 DEF AliveProbes, Alive
<1>3. CounterIsAlive'
  BY <1>1, <1>2, OneFewerAlive DEF IInv
<1>4. wg' \in 0 .. Len(Tags)
  <2>1. AliveProbes' \subseteq Probes
    BY DEF AliveProbes
  <2>2. IsFiniteSet(AliveProbes') /\ Cardinality(AliveProbes') <= Len(Tags)
    BY <2>1, ProbesFinite, FS_Subset
  <2>3. QED
    BY <2>2, <1>3, FS_CardinalityType, TagsAssumption DEF CounterIsAlive
<1>5. TypeOK'
  BY <1>1, <1>4 DEF IInv, TypeOK, ProbeStates, callerVars
<1>6. StartedInOrder' /\ ClosedAfterAll'
  BY <1>1 DEF IInv, StartedInOrder, ClosedAfterAll, callerVars
<1>7. TagsAreTrue' /\ HeardAll'
  BY <1>1 DEF IInv, TagsAreTrue, TagsOf, HeardAll, callerVars
<1>8. NothingLost'
  BY <1>1 DEF IInv, TypeOK, NothingLost, OnItsWay, callerVars
<1>9. QED
  BY <1>3, <1>5, <1>6, <1>7, <1>8 DEF IInv

LEMMA CloseIInv == ASSUME IInv, Close PROVE IInv'
<1>1. UNCHANGED <<probeVars, ctx, callerVars>> /\ wg = 0 /\ caller # "spawn" /\ closed' = TRUE
  BY DEF Close
<1>2. AliveProbes = {}
  BY <1>1, NobodyAlive DEF IInv
<1>3. \A p \in Probes : probe[p] = "done"
  <2> TAKE p \in Probes
  <2>1. p \in 1 .. Len(Tags) /\ spawned = Len(Tags) /\ Len(Tags) \in Nat
    BY <1>1, TagsAssumption DEF IInv, StartedInOrder, Probes
  <2>2. probe[p] # "unborn"
    BY <2>1 DEF IInv, StartedInOrder
  <2>3. probe[p] \in ProbeStates /\ probe[p] \notin Alive
    BY <1>2 DEF AliveProbes, IInv, TypeOK
  <2>4. QED
    BY <2>2, <2>3 DEF ProbeStates, Alive
<1>4. AliveProbes' = AliveProbes
  BY <1>1 DEF AliveProbes, probeVars
<1>5. TypeOK' /\ CounterIsAlive' /\ StartedInOrder'
  BY <1>1, <1>4 DEF IInv, TypeOK, CounterIsAlive, StartedInOrder, probeVars, callerVars
<1>6. ClosedAfterAll'
  BY <1>1, <1>3 DEF ClosedAfterAll, probeVars, callerVars
<1>7. TagsAreTrue' /\ NothingLost' /\ HeardAll'
  BY <1>1 DEF IInv, TagsAreTrue, TagsOf, NothingLost, OnItsWay, HeardAll, probeVars, callerVars
<1>8. QED
  BY <1>5, <1>6, <1>7 DEF IInv

\* Hear takes one tag out of the buffer.
LEMMA HearIInv == ASSUME IInv, Hear PROVE IInv'
<1>1. /\ caller = "listen" /\ resultChan # <<>>
      /\ has' = has \cup {Head(resultChan)} /\ resultChan' = Tail(resultChan)
      /\ UNCHANGED <<probe, reachable, wg, closed, ctx, caller, spawned, StackType>>
  BY DEF Hear
<1>2. resultChan \in Seq({"IPv4", "IPv6"}) /\ Len(resultChan) <= BufferSize
  BY DEF IInv, TypeOK
<1>3. 1 \in DOMAIN resultChan /\ Head(resultChan) = resultChan[1]
  BY <1>1, <1>2
<1>4. \A i \in DOMAIN resultChan' : i + 1 \in DOMAIN resultChan /\ resultChan'[i] = resultChan[i + 1]
  BY <1>1, <1>2
<1>5. \A i \in DOMAIN resultChan : i = 1 \/ (i - 1 \in DOMAIN resultChan' /\ resultChan'[i - 1] = resultChan[i])
  BY <1>1, <1>2
<1>6. resultChan' \in Seq({"IPv4", "IPv6"}) /\ Len(resultChan') <= BufferSize
  BY <1>1, <1>2, BufferAssumption
<1>7. TypeOK'
  <2>1. Head(resultChan) \in {"IPv4", "IPv6"}
    BY <1>2, <1>3
  <2>2. has' \subseteq {"IPv4", "IPv6"}
    BY <1>1, <2>1 DEF IInv, TypeOK
  <2>3. QED
    BY <1>1, <1>6, <2>2 DEF IInv, TypeOK
<1>8. AliveProbes' = AliveProbes
  BY <1>1 DEF AliveProbes
<1>9. CounterIsAlive' /\ StartedInOrder' /\ ClosedAfterAll'
  BY <1>1, <1>8 DEF IInv, CounterIsAlive, StartedInOrder, ClosedAfterAll
<1>10. TagsAreTrue'
  BY <1>1, <1>3, <1>4 DEF IInv, TagsAreTrue, TagsOf
<1>11. NothingLost'
  <2> SUFFICES ASSUME ctx' = "live", NEW p \in reachable' PROVE OnItsWay(p)'
    BY DEF NothingLost
  <2>1. OnItsWay(p)
    BY <1>1 DEF IInv, NothingLost
  <2>2. CASE Tags[p] \in has \/ probe[p] = "reporting"
    BY <2>2, <1>1 DEF OnItsWay
  <2>3. CASE \E i \in DOMAIN resultChan : resultChan[i] = Tags[p]
    <3>1. PICK i \in DOMAIN resultChan : resultChan[i] = Tags[p]
      BY <2>3
    <3>2. CASE i = 1
      BY <3>1, <3>2, <1>1, <1>3 DEF OnItsWay
    <3>3. CASE i - 1 \in DOMAIN resultChan' /\ resultChan'[i - 1] = resultChan[i]
      BY <3>1, <3>3 DEF OnItsWay
    <3>4. QED
      BY <3>2, <3>3, <1>5
  <2>4. QED
    BY <2>1, <2>2, <2>3 DEF OnItsWay
<1>12. HeardAll'
  BY <1>1 DEF IInv, HeardAll
<1>13. QED
  BY <1>7, <1>9, <1>10, <1>11, <1>12 DEF IInv

LEMMA CallerIInv ==
  ASSUME IInv, Listen \/ CtxExpires \/ HearClosed \/ TimeOut \/ Return
  PROVE  IInv'
<1> USE DEF Listen, CtxExpires, HearClosed, TimeOut, Return, probeVars, callerVars
<1>1. UNCHANGED <<probe, reachable, wg, resultChan, closed, spawned, has>>
  OBVIOUS
<1>2. AliveProbes' = AliveProbes
  BY <1>1 DEF AliveProbes
<1>3. TypeOK'
  BY <1>1, StackIsNamed DEF IInv, TypeOK
<1>4. CounterIsAlive' /\ TagsAreTrue'
  BY <1>1, <1>2 DEF IInv, CounterIsAlive, TagsAreTrue, TagsOf
<1>5. StartedInOrder' /\ ClosedAfterAll'
  BY <1>1, TagsAssumption DEF IInv, TypeOK, StartedInOrder, ClosedAfterAll
<1>6. NothingLost'
  BY <1>1 DEF IInv, NothingLost, OnItsWay
<1>7. HeardAll'
  <2>1. CASE Listen
    BY <2>1 DEF IInv, TypeOK, HeardAll
  <2>2. CASE CtxExpires
    BY <2>2 DEF IInv, TypeOK, HeardAll
  <2>3. CASE TimeOut
    BY <2>3 DEF IInv, TypeOK, HeardAll, CtxDone
  <2>4. CASE HearClosed
    <3>1. ctx = "live" => TagsOf(reachable) \subseteq has
      <4> SUFFICES ASSUME ctx = "live", NEW p \in reachable PROVE Tags[p] \in has
        BY DEF TagsOf
      <4>1. OnItsWay(p) /\ p \in Probes /\ probe[p] = "done"
        BY <2>4 DEF IInv, TypeOK, NothingLost, ClosedAfterAll
      <4>2. QED
        BY <2>4, <4>1 DEF OnItsWay
    <3>2. ctx # "canceled" /\ StackType = "none"
      BY <2>4 DEF IInv, TypeOK, HeardAll
    <3>3. QED
      BY <2>4, <3>1, <3>2, <1>1 DEF IInv, TypeOK, HeardAll, TagsOf
  <2>5. CASE Return
    BY <2>5, <1>1 DEF IInv, TypeOK, HeardAll, TagsOf
  <2>6. QED
    BY <2>1, <2>2, <2>3, <2>4, <2>5
<1>8. QED
  BY <1>3, <1>4, <1>5, <1>6, <1>7 DEF IInv

LEMMA NextIInv == IInv /\ [Next]_vars => IInv'
<1> SUFFICES ASSUME IInv, [Next]_vars PROVE IInv'
  OBVIOUS
<1>1. CASE Next
  BY <1>1, SpawnIInv, ProbeIInv, ProbeDoneIInv, CloseIInv, HearIInv, CallerIInv DEF Next
<1>2. CASE UNCHANGED vars
  <2>1. AliveProbes' = AliveProbes
    BY <1>2 DEF vars, AliveProbes
  <2>2. TypeOK' /\ CounterIsAlive' /\ StartedInOrder' /\ ClosedAfterAll'
    BY <1>2, <2>1 DEF vars, IInv, TypeOK, CounterIsAlive, StartedInOrder, ClosedAfterAll
  <2>3. TagsAreTrue' /\ NothingLost' /\ HeardAll'
    BY <1>2 DEF vars, IInv, TagsAreTrue, TagsOf, NothingLost, OnItsWay, HeardAll
  <2>4. QED
    BY <2>2, <2>3 DEF IInv
<1>3. QED
  BY <1>1, <1>2

LEMMA Invariance == Spec => []IInv
<1>1. QED
  BY InitIInv, NextIInv, PTL DEF Spec

-----------------------------------------------------------------------------

\* The WaitGroup's counter never goes negative and the buffer never overflows,
\* however many probes there are.
THEOREM TypeCorrect == Spec => []TypeOK
<1>1. IInv => TypeOK
  BY DEF IInv
<1>2. QED
  BY <1>1, Invariance, PTL

\* The closer never closes the channel under a probe that has still to report,
\* although wg is counted up while earlier probes count it down (utils.go:131).
THEOREM ClosedAfterAllReports == Spec => []NoReportOnClosedChannel
<1>1. IInv => NoReportOnClosedChannel
  BY DEF IInv, ClosedAfterAll, NoReportOnClosedChannel
<1>2. QED
  BY <1>1, Invariance, PTL

\* StackType never names a family none of whose targets answered.
THEOREM ConnectivityIsReal == Spec => []NoFalseConnectivity
<1>1. IInv => NoFalseConnectivity
  BY DEF IInv, TagsAreTrue, HeardAll, NoFalseConnectivity
<1>2. QED
  BY <1>1, Invariance, PTL

\* A call that the context did not cut short reports exactly the families whose
\* targets answered, in whatever order they did.
THEOREM AnswerIsComplete == Spec => []CompleteUnlessTimedOut
<1>1. IInv => CompleteUnlessTimedOut
  <2> SUFFICES ASSUME IInv, caller = "returned", ctx # "expired"
               PROVE  StackType = StackOf(TagsOf(reachable))
    BY DEF CompleteUnlessTimedOut
  <2>1. has = TagsOf(reachable)
    BY DEF IInv, TagsAreTrue, HeardAll
  <2>2. QED
    BY <2>1 DEF IInv, HeardAll
<1>2. QED
  BY <1>1, Invariance, PTL

-----------------------------------------------------------------------------
(***************************************************************************)
(* The call and its goroutines come to an end: each step takes down what is *)
(* left to do, and nobody waits for somebody who will not come.             *)
(***************************************************************************)

ProbesAt(place) == {p \in Probes : probe[p] = place}

CallerLeft == [spawn |-> 3, listen |-> 2, result |-> 1, returned |-> 0]
Unspawned == Len(Tags) - spawned

\* What is left to do, the parts that later steps may raise again last.
Left == <<CallerLeft[caller], Unspawned, Cardinality(ProbesAt("probing")),
          Cardinality(ProbesAt("reporting")), Cardinality(AliveProbes), Len(resultChan),
          IF closed THEN 0 ELSE 1, IF CtxDone THEN 0 ELSE 1>>

\* A probe that waits for room in the channel has the caller listening, or the context's
\* end, after which it gives up, although the caller may be gone; the caller waits for a
\* tag, the channel's end or the context's; the closer for a probe that is alive.
EverybodyServed ==
  /\ \A p \in Probes : probe[p] = "reporting" =>
       \/ Len(resultChan) < BufferSize
       \/ CtxDone
       \/ caller = "spawn"
       \/ caller = "listen" /\ resultChan # <<>>
  /\ caller = "listen" => resultChan # <<>> \/ closed \/ CtxDone \/ wg = 0 \/ AliveProbes # {}
  /\ caller # "spawn" /\ ~closed => wg = 0 \/ AliveProbes # {}

LEMMA PlacesFinite ==
  /\ \A place : IsFiniteSet(ProbesAt(place)) /\ Cardinality(ProbesAt(place)) \in Nat
  /\ IsFiniteSet(AliveProbes) /\ Cardinality(AliveProbes) \in Nat
<1>1. AliveProbes \subseteq Probes /\ \A place : ProbesAt(place) \subseteq Probes
  BY DEF AliveProbes, ProbesAt
<1>2. QED
  BY <1>1, ProbesFinite, FS_Subset, FS_CardinalityType

LEMMA LeftIsNatural == IInv => \A i \in 1 .. 8 : Left[i] \in Nat
<1> SUFFICES ASSUME IInv PROVE \A i \in 1 .. 8 : Left[i] \in Nat
  OBVIOUS
<1>1. CallerLeft[caller] \in Nat /\ Len(resultChan) \in Nat
  BY DEF IInv, TypeOK, CallerLeft
<1>2. Unspawned \in Nat
  BY TagsAssumption DEF IInv, TypeOK, Unspawned
<1>3. /\ Left[1] \in Nat /\ Left[2] \in Nat /\ Left[3] \in Nat /\ Left[4] \in Nat
      /\ Left[5] \in Nat /\ Left[6] \in Nat /\ Left[7] \in Nat /\ Left[8] \in Nat
  BY <1>1, <1>2, PlacesFinite DEF Left
<1> HIDE DEF Left
<1>4. QED
  BY <1>3

\* A tuple whose first component that changes goes down is smaller.
LEMMA FirstDown ==
  ASSUME NEW a, NEW b, DOMAIN b = 1 .. 8, NEW i \in 1 .. 8, a[i] < b[i],
         \A j \in 1 .. (i - 1) : a[j] = b[j]
  PROVE  LexLess(a, b)
BY DEF LexLess

LEMMA CallerLess ==
  ASSUME IInv, Spawn \/ Listen \/ HearClosed \/ TimeOut \/ Return PROVE LexLess(Left', Left)
<1>1. DOMAIN Left = 1 .. 8
  BY DEF Left
<1>2. CASE Spawn
  <2>1. caller' = caller /\ spawned' = spawned + 1 /\ spawned \in Nat /\ Len(Tags) \in Nat
    BY <1>2, TagsAssumption DEF Spawn, IInv, TypeOK
  <2>2. Left'[1] = Left[1] /\ Left'[2] < Left[2]
    BY <2>1 DEF Left, Unspawned
  <2>3. QED
    BY <1>1, <2>2, FirstDown
<1>3. CASE Listen \/ HearClosed \/ TimeOut \/ Return
  <2>1. CallerLeft[caller'] < CallerLeft[caller]
    BY <1>3 DEF Listen, HearClosed, TimeOut, Return, CallerLeft
  <2>2. Left'[1] < Left[1]
    BY <2>1 DEF Left
  <2>3. QED
    BY <1>1, <2>2, FirstDown
<1>4. QED
  BY <1>2, <1>3

\* A step that the caller does not make.
LEMMA SameCaller ==
  ASSUME UNCHANGED <<caller, spawned>>
  PROVE  DOMAIN Left = 1 .. 8 /\ Left'[1] = Left[1] /\ Left'[2] = Left[2]
BY DEF Left, Unspawned

LEMMA ProbeLess ==
  ASSUME IInv, NEW p \in Probes,
         ProbeSucceeds(p) \/ ProbeFails(p) \/ Report(p) \/ GiveUp(p) \/ ProbeDone(p)
  PROVE  LexLess(Left', Left)
<1>1. UNCHANGED <<caller, spawned>> /\ probe \in [Probes -> ProbeStates]
  BY DEF ProbeSucceeds, ProbeFails, Report, GiveUp, ProbeDone, callerVars, IInv, TypeOK
<1>2. CASE ProbeSucceeds(p) \/ ProbeFails(p)
  <2>1. ProbesAt("probing")' = ProbesAt("probing") \ {p} /\ p \in ProbesAt("probing")
    BY <1>1, <1>2 DEF ProbeSucceeds, ProbeFails, ProbesAt
  <2>2. Cardinality(ProbesAt("probing")') = Cardinality(ProbesAt("probing")) - 1
    BY <2>1, PlacesFinite, FS_RemoveElement
  <2>3. Left'[3] < Left[3]
    BY <2>2, PlacesFinite DEF Left
  <2>4. QED
    BY <1>1, <2>3, SameCaller, FirstDown
<1>3. CASE Report(p) \/ GiveUp(p)
  <2>1. /\ ProbesAt("reporting")' = ProbesAt("reporting") \ {p} /\ p \in ProbesAt("reporting")
        /\ ProbesAt("probing")' = ProbesAt("probing")
    BY <1>1, <1>3 DEF Report, GiveUp, ProbesAt
  <2>2. Cardinality(ProbesAt("reporting")') = Cardinality(ProbesAt("reporting")) - 1
    BY <2>1, PlacesFinite, FS_RemoveElement
  <2>3. Left'[4] < Left[4] /\ Left'[3] = Left[3]
    BY <2>1, <2>2, PlacesFinite DEF Left
  <2>4. QED
    BY <1>1, <2>3, SameCaller, FirstDown
<1>4. CASE ProbeDone(p)
  <2>1. /\ AliveProbes' = AliveProbes \ {p} /\ p \in AliveProbes
        /\ ProbesAt("probing")' = ProbesAt("probing") /\ ProbesAt("reporting")' = ProbesAt("reporting")
    BY <1>1, <1>4 DEF ProbeDone, ProbesAt, AliveProbes, Alive
  <2>2. Cardinality(AliveProbes') = Cardinality(AliveProbes) - 1
    BY <2>1, PlacesFinite, FS_RemoveElement
  <2>3. Left'[5] < Left[5] /\ Left'[3] = Left[3] /\ Left'[4] = Left[4]
    BY <2>1, <2>2, PlacesFinite DEF Left
  <2>4. QED
    BY <1>1, <2>3, SameCaller, FirstDown
<1>5. QED
  BY <1>2, <1>3, <1>4

LEMMA ChannelLess == ASSUME IInv, Hear \/ Close \/ CtxExpires PROVE LexLess(Left', Left)
<1>1. UNCHANGED <<caller, spawned, probe>>
  BY DEF Hear, Close, CtxExpires, probeVars, callerVars
<1>2. AliveProbes' = AliveProbes /\ \A place : ProbesAt(place)' = ProbesAt(place)
  BY <1>1 DEF AliveProbes, ProbesAt
<1>3. Left'[3] = Left[3] /\ Left'[4] = Left[4] /\ Left'[5] = Left[5]
  BY <1>2 DEF Left
<1>4. CASE Hear
  <2>1. resultChan # <<>> /\ resultChan' = Tail(resultChan) /\ resultChan \in Seq({"IPv4", "IPv6"})
    BY <1>4 DEF Hear, IInv, TypeOK
  <2>2. Len(resultChan') < Len(resultChan)
    BY <2>1
  <2>3. Left'[6] < Left[6]
    BY <2>2 DEF Left
  <2>4. QED
    BY <1>1, <1>3, <2>3, SameCaller, FirstDown
<1>5. CASE Close
  <2>1. Left'[6] = Left[6] /\ Left'[7] < Left[7]
    BY <1>5 DEF Close, probeVars, Left
  <2>2. QED
    BY <1>1, <1>3, <2>1, SameCaller, FirstDown
<1>6. CASE CtxExpires
  <2>1. Left'[6] = Left[6] /\ Left'[7] = Left[7] /\ Left'[8] < Left[8]
    BY <1>6 DEF CtxExpires, CtxDone, probeVars, Left
  <2>2. QED
    BY <1>1, <1>3, <2>1, SameCaller, FirstDown
<1>7. QED
  BY <1>4, <1>5, <1>6

LEMMA NextLess == IInv /\ Next => LexLess(Left', Left)
BY CallerLess, ProbeLess, ChannelLess DEF Next

\* For any probes and any buffer, every step of the call and of the goroutines that outlive
\* it takes down a tuple of naturals, and who waits is served: a probe that reports after
\* the call has returned finds the context over, so no full buffer holds it for ever.
THEOREM NobodyIsLeftWaiting ==
  Spec => /\ [](\A i \in 1 .. 8 : Left[i] \in Nat)
          /\ [][LexLess(Left', Left)]_vars
          /\ []EverybodyServed
<1>1. IInv => EverybodyServed
  <2> SUFFICES ASSUME IInv PROVE EverybodyServed
    OBVIOUS
  <2>1. wg = 0 \/ AliveProbes # {}
    BY FS_EmptySet DEF IInv, CounterIsAlive
  <2>2. ASSUME NEW p \in Probes, probe[p] = "reporting", Len(resultChan) >= BufferSize, ctx = "live"
        PROVE  caller = "spawn" \/ (caller = "listen" /\ resultChan # <<>>)
    <3>1. ~closed
      BY <2>2 DEF IInv, ClosedAfterAll
    <3>2. caller \in {"spawn", "listen"}
      BY <2>2, <3>1 DEF IInv, TypeOK, HeardAll
    <3>3. resultChan # <<>>
      BY <2>2, BufferAssumption DEF IInv, TypeOK
    <3>4. QED
      BY <3>2, <3>3
  <2>3. Len(resultChan) \in Nat /\ BufferSize \in Nat
    BY BufferAssumption DEF IInv, TypeOK
  <2>4. QED
    BY <2>1, <2>2, <2>3 DEF EverybodyServed, CtxDone
<1>2. QED
  BY <1>1, NextLess, LeftIsNatural, Invariance, PTL DEF Spec
=============================================================================
