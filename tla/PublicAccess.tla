---------------------------- MODULE PublicAccess ----------------------------
(***************************************************************************)
(* CheckPublicAccess (utils/utils.go): the caller starts one goroutine per  *)
(* probe, each of which reports its family's tag on a buffered channel when *)
(* its target answers; a closer goroutine closes the channel after the last *)
(* probe; the caller listens until the channel is closed or the context     *)
(* expires, whichever its select sees, and records what it heard in the     *)
(* package variable StackType. Probes may outlive the call.                *)
(***************************************************************************)
EXTENDS Naturals, Sequences

CONSTANTS
  Tags,       \* the checks' tags, in order: a sequence of "IPv4" and "IPv6"
  BufferSize  \* the capacity of resultChan

ASSUME TagsAssumption == Tags \in Seq({"IPv4", "IPv6"}) /\ Tags # <<>>
ASSUME BufferAssumption == BufferSize \in Nat \ {0}

Probes == 1 .. Len(Tags)

VARIABLES
  probe,      \* probe[p]: where the goroutine of probe p is
  reachable,  \* the probes whose target answered
  wg,
  resultChan, closed,
  ctx,        \* "live", "expired", or "canceled" by the deferred cancel
  caller,     \* what CheckPublicAccess is doing
  spawned,    \* the number of goroutines it has started
  has,        \* hasV4 and hasV6: the tags it has heard
  StackType   \* the package variable, "none" for blank before any call

vars == <<probe, reachable, wg, resultChan, closed, ctx, caller, spawned, has, StackType>>
probeVars == <<probe, reachable, wg, resultChan>>
callerVars == <<caller, spawned, has, StackType>>

Init ==
  /\ probe = [p \in Probes |-> "unborn"]
  /\ reachable = {}
  /\ wg = 0
  /\ resultChan = <<>>
  /\ closed = FALSE
  /\ ctx = "live"
  /\ caller = "spawn"
  /\ spawned = 0
  /\ has = {}
  /\ StackType = "none"

CtxDone == ctx # "live"

-----------------------------------------------------------------------------

BugSpawnNoAdd ==
  /\ caller = "spawn"
  /\ spawned < Len(Tags)
  /\ spawned' = spawned + 1
  /\ wg' = IF spawned = 0 THEN 1 ELSE wg
  /\ probe' = [probe EXCEPT ![spawned + 1] = "probing"]
  /\ UNCHANGED <<reachable, resultChan, closed, ctx, caller, has, StackType>>

Spawn ==
  /\ caller = "spawn"
  /\ spawned < Len(Tags)
  /\ spawned' = spawned + 1
  /\ wg' = wg + 1
  /\ probe' = [probe EXCEPT ![spawned + 1] = "probing"]
  /\ UNCHANGED <<reachable, resultChan, closed, ctx, caller, has, StackType>>

\* All probes are started; the closer goroutine starts now.
Listen ==
  /\ caller = "spawn"
  /\ spawned = Len(Tags)
  /\ caller' = "listen"
  /\ UNCHANGED <<probeVars, closed, ctx, spawned, has, StackType>>

-----------------------------------------------------------------------------

ProbeSucceeds(p) ==
  /\ probe[p] = "probing"
  /\ probe' = [probe EXCEPT ![p] = "reporting"]
  /\ reachable' = reachable \cup {p}
  /\ UNCHANGED <<wg, resultChan, closed, ctx, callerVars>>

\* An error, an answer that does not count, or a panic that runSafeProbe recovers.
ProbeFails(p) ==
  /\ probe[p] = "probing"
  /\ probe' = [probe EXCEPT ![p] = "leaving"]
  /\ UNCHANGED <<reachable, wg, resultChan, closed, ctx, callerVars>>

BugReportIPv4(p) ==
  /\ probe[p] = "reporting"
  /\ Len(resultChan) < BufferSize
  /\ resultChan' = Append(resultChan, "IPv4")
  /\ probe' = [probe EXCEPT ![p] = "leaving"]
  /\ UNCHANGED <<reachable, wg, closed, ctx, callerVars>>

\* The two cases of the probe's select.
Report(p) ==
  /\ probe[p] = "reporting"
  /\ Len(resultChan) < BufferSize
  /\ resultChan' = Append(resultChan, Tags[p])
  /\ probe' = [probe EXCEPT ![p] = "leaving"]
  /\ UNCHANGED <<reachable, wg, closed, ctx, callerVars>>

GiveUp(p) ==
  /\ probe[p] = "reporting"
  /\ CtxDone
  /\ probe' = [probe EXCEPT ![p] = "leaving"]
  /\ UNCHANGED <<reachable, wg, resultChan, closed, ctx, callerVars>>

BugProbeDoneKeepsWg(p) ==
  /\ probe[p] = "leaving"
  /\ probe' = [probe EXCEPT ![p] = "done"]
  /\ wg' = IF p \in reachable THEN wg - 1 ELSE wg
  /\ UNCHANGED <<reachable, resultChan, closed, ctx, callerVars>>

\* The deferred wg.Done.
ProbeDone(p) ==
  /\ probe[p] = "leaving"
  /\ probe' = [probe EXCEPT ![p] = "done"]
  /\ wg' = wg - 1
  /\ UNCHANGED <<reachable, resultChan, closed, ctx, callerVars>>

BugCloseNoWait ==
  /\ caller # "spawn" /\ ~closed
  /\ closed' = TRUE
  /\ UNCHANGED <<probeVars, ctx, callerVars>>

Close ==
  /\ caller # "spawn" /\ ~closed
  /\ wg = 0
  /\ closed' = TRUE
  /\ UNCHANGED <<probeVars, ctx, callerVars>>

CtxExpires ==
  /\ ctx = "live"
  /\ ctx' = "expired"
  /\ UNCHANGED <<probeVars, closed, callerVars>>

-----------------------------------------------------------------------------
(***************************************************************************)
(* The caller's select: a tag, the closed channel or the end of the context.*)
(* With a tag buffered and the context over, it may take either.           *)
(***************************************************************************)

Hear ==
  /\ caller = "listen"
  /\ resultChan # <<>>
  /\ has' = has \cup {Head(resultChan)}
  /\ resultChan' = Tail(resultChan)
  /\ UNCHANGED <<probe, reachable, wg, closed, ctx, caller, spawned, StackType>>

HearClosed ==
  /\ caller = "listen"
  /\ resultChan = <<>> /\ closed
  /\ caller' = "result"
  /\ UNCHANGED <<probeVars, closed, ctx, spawned, has, StackType>>

BugTimeOutNever ==
  /\ caller = "listen"
  /\ CtxDone
  /\ closed
  /\ caller' = "result"
  /\ UNCHANGED <<probeVars, closed, ctx, spawned, has, StackType>>

TimeOut ==
  /\ caller = "listen"
  /\ CtxDone
  /\ caller' = "result"
  /\ UNCHANGED <<probeVars, closed, ctx, spawned, has, StackType>>

StackOf(heard) == CASE heard = {"IPv4", "IPv6"} -> "DualStack"
                    [] heard = {"IPv4"} -> "IPv4"
                    [] heard = {"IPv6"} -> "IPv6"
                    [] OTHER -> "None"

\* StackType is set, the result is returned and the deferred cancel runs.
Return ==
  /\ caller = "result"
  /\ caller' = "returned"
  /\ StackType' = StackOf(has)
  /\ ctx' = IF ctx = "live" THEN "canceled" ELSE ctx
  /\ UNCHANGED <<probeVars, closed, spawned, has>>

-----------------------------------------------------------------------------

Next ==
  \/ Spawn
  \/ Listen
  \/ \E p \in Probes : ProbeSucceeds(p) \/ ProbeFails(p)
  \/ \E p \in Probes : Report(p)
  \/ \E p \in Probes : GiveUp(p)
  \/ \E p \in Probes : ProbeDone(p)
  \/ Close
  \/ CtxExpires
  \/ Hear
  \/ HearClosed
  \/ TimeOut
  \/ Return

\* Goroutines are scheduled and the timer fires. Nothing is assumed of a probe's
\* target: it may leave the probe hanging.
Fairness ==
  /\ WF_vars(Spawn \/ Listen \/ Hear \/ HearClosed \/ Return)
  /\ WF_vars(TimeOut)
  /\ WF_vars(CtxExpires)
  /\ WF_vars(Close)
  /\ \A p \in Probes : WF_vars(Report(p) \/ GiveUp(p)) /\ WF_vars(ProbeDone(p))

Spec == Init /\ [][Next]_vars
FairSpec == Spec /\ Fairness

-----------------------------------------------------------------------------
(***************************************************************************)
(* Properties                                                               *)
(***************************************************************************)

ProbeStates == {"unborn", "probing", "reporting", "leaving", "done"}

\* The variables stay within their types; in particular wg never goes negative
\* (sync.WaitGroup would panic).
TypeOK ==
  /\ probe \in [Probes -> ProbeStates]
  /\ reachable \subseteq Probes
  /\ wg \in 0 .. Len(Tags)
  /\ resultChan \in Seq({"IPv4", "IPv6"}) /\ Len(resultChan) <= BufferSize
  /\ closed \in BOOLEAN
  /\ ctx \in {"live", "expired", "canceled"}
  /\ caller \in {"spawn", "listen", "result", "returned"}
  /\ spawned \in 0 .. Len(Tags)
  /\ has \subseteq {"IPv4", "IPv6"}
  /\ StackType \in {"none", "None", "IPv4", "IPv6", "DualStack"}

\* The channel is closed only when no probe can report any more: a report on a
\* closed channel would panic. This holds although wg counts up while probes that
\* were started earlier already count it down.
NoReportOnClosedChannel ==
  closed => \A p \in Probes : probe[p] \in {"leaving", "done"}

TagsOf(ps) == {Tags[p] : p \in ps}

\* A family is reported only if a probe of that family had its target answer.
NoFalseConnectivity ==
  StackType # "none" => StackType \in {StackOf(heard) : heard \in SUBSET TagsOf(reachable)}

\* Unless the context expires, every target that answered is accounted for: the
\* answer is complete, not what happened to arrive first.
CompleteUnlessTimedOut ==
  caller = "returned" /\ ctx # "expired" => StackType = StackOf(TagsOf(reachable))

\* The call returns, even when a target leaves its probe hanging.
EventuallyReturns == <>(caller = "returned")

\* No goroutine outlives its probe's network operation for ever, the closer's
\* included: once every operation has ended, the channel gets closed.
NoGoroutineLeak ==
  (\A p \in Probes : <>(probe[p] \notin {"unborn", "probing"})) => <>closed

=============================================================================
