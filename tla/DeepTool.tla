------------------------------ MODULE DeepTool -------------------------------
(***************************************************************************)
(* RunSMARTSelfTest and RunGPUCompute (system/deep_tools.go): a call checks *)
(* its target and runs an external command under the caller's context. A    *)
(* SMART self-test goes on inside the device after the command that started *)
(* it has ended: the call polls for its end and, when the context is over,  *)
(* asks the device to abort it. What the call knows of the test is the text  *)
(* that smartctl prints, which need not say what the device does.           *)
(***************************************************************************)
EXTENDS Naturals

CONSTANTS
  Targets,  \* the targets a call is made with: "none" for a blank one, "safe" or "unsafe"
  Platforms \* the values of runtime.GOOS told apart: "linux" or "other"

VARIABLES
  tool,    \* the function called: "smart" or "gpu", "none" before the call
  target,
  testPc,
  ctx,     \* "live" or "over"
  doomed,  \* the command under way was started after the context's end
  tick,    \* the ticker's channel holds a tick
  device,  \* the self-test in the device
  told,    \* what the last poll that succeeded printed: "progress", "other" or "nothing" yet
  failed,  \* the commands that failed, by where the call was
  cause,   \* why the last of them did
  status   \* result.Status

testVars == <<tool, target, testPc, ctx, doomed, tick, device, told, failed, cause, status>>

TestInit ==
  /\ tool = "none" /\ target = "none"
  /\ testPc = "idle"
  /\ ctx = "live"
  /\ doomed = FALSE
  /\ tick = FALSE
  /\ device = "quiet" /\ told = "nothing"
  /\ failed = {} /\ cause = "none"
  /\ status = "none"

-----------------------------------------------------------------------------

\* What a call that runs no command returns, and "run" for one that does.
Verdict(t, tg, goos) ==
  CASE tg = "none" -> "skipped"
    [] t = "smart" /\ tg # "none" /\ goos # "linux" -> "unsupported"
    [] t = "smart" /\ tg = "unsafe" /\ goos = "linux" -> "error"
    [] OTHER -> "run"

\* A command started under a context that is over does not run and fails.
Start(place) == testPc' = place /\ doomed' = (ctx = "over")

\* The result's status is "skipped" until something else is known.
Call(t, tg, goos) ==
  /\ testPc = "idle"
  /\ tool' = t /\ target' = tg
  /\ LET v == Verdict(t, tg, goos) IN
       IF v = "run" THEN status' = "skipped" /\ Start("starting")
                    ELSE status' = v /\ testPc' = "returned" /\ UNCHANGED doomed
  /\ UNCHANGED <<ctx, tick, device, told, failed, cause>>

\* The test begins while smartctl -t runs, and so possibly before smartctl fails.
TestBegins ==
  /\ testPc = "starting" /\ tool = "smart" /\ ~doomed
  /\ device = "quiet"
  /\ device' = "running"
  /\ UNCHANGED <<tool, target, testPc, ctx, doomed, tick, told, failed, cause, status>>

\* The test runs to its end, breaks off with an error, or is aborted by a reset or by
\* another program.
TestEnds(how) ==
  /\ device = "running"
  /\ device' = how
  /\ UNCHANGED <<tool, target, testPc, ctx, doomed, tick, told, failed, cause, status>>

\* smartctl -t succeeds, whether or not a test has begun.
TestStarted ==
  /\ testPc = "starting" /\ tool = "smart" /\ ~doomed
  /\ testPc' = "waiting"
  /\ UNCHANGED <<tool, target, ctx, doomed, tick, device, told, failed, cause, status>>

Computed ==
  /\ testPc = "starting" /\ tool = "gpu" /\ ~doomed
  /\ testPc' = "returned" /\ status' = "ok"
  /\ UNCHANGED <<tool, target, ctx, doomed, tick, device, told, failed, cause>>

-----------------------------------------------------------------------------
(***************************************************************************)
(* The polling loop's select: the context's end or a tick, either when both *)
(* are there. The ticker drops a tick that nobody has taken.                *)
(***************************************************************************)

CtxEnds ==
  /\ ctx = "live"
  /\ ctx' = "over"
  /\ UNCHANGED <<tool, target, testPc, doomed, tick, device, told, failed, cause, status>>

Tick ==
  /\ testPc \in {"waiting", "polling"} /\ ~tick
  /\ tick' = TRUE
  /\ UNCHANGED <<tool, target, testPc, ctx, doomed, device, told, failed, cause, status>>

TakeTick ==
  /\ testPc = "waiting" /\ tick
  /\ tick' = FALSE
  /\ Start("polling")
  /\ UNCHANGED <<tool, target, ctx, device, told, failed, cause, status>>

BugPollEndsAnyway(text) ==
  /\ testPc = "polling" /\ ~doomed
  /\ told' = text
  /\ testPc' = "returned" /\ status' = "ok"
  /\ UNCHANGED <<tool, target, ctx, doomed, tick, device, failed, cause>>

\* smartctl -c prints a text that says "in progress" in words the code knows, or any
\* other, whatever the device does: of every other text the code says "ok".
PollEnds(text) ==
  /\ testPc = "polling" /\ ~doomed
  /\ told' = text
  /\ IF text = "progress" THEN testPc' = "waiting" /\ UNCHANGED status
                          ELSE testPc' = "returned" /\ status' = "ok"
  /\ UNCHANGED <<tool, target, ctx, doomed, tick, device, failed, cause>>

BugCtxTakenReturns ==
  /\ testPc = "waiting" /\ ctx = "over"
  /\ testPc' = "failing"
  /\ UNCHANGED <<tool, target, ctx, doomed, tick, device, told, failed, cause, status>>

CtxTaken ==
  /\ testPc = "waiting" /\ ctx = "over"
  /\ testPc' = "aborting"
  /\ UNCHANGED <<tool, target, ctx, doomed, tick, device, told, failed, cause, status>>

\* smartctl -X has a context of its own, of five seconds; whether it works is ignored.
AbortEnds(works) ==
  /\ testPc = "aborting"
  /\ device' = IF works /\ device = "running" THEN "canceled" ELSE device
  /\ failed' = IF works THEN failed ELSE failed \cup {testPc}
  /\ testPc' = "returned" /\ status' = "canceled"
  /\ UNCHANGED <<tool, target, ctx, doomed, tick, told, cause>>

-----------------------------------------------------------------------------

BugCommandFailsPollsOn(why) ==
  /\ testPc \in {"starting", "polling"}
  /\ testPc' = IF testPc = "polling" THEN "waiting" ELSE "failing"
  /\ failed' = failed \cup {testPc}
  /\ cause' = why
  /\ UNCHANGED <<tool, target, ctx, doomed, tick, device, told, status>>

\* A command is not found, exits with an error or is killed by the context.
CommandFails(why) ==
  /\ testPc \in {"starting", "polling"}
  /\ why = "unavailable" /\ testPc = "starting" => device = "quiet"
  /\ testPc' = "failing"
  /\ failed' = failed \cup {testPc}
  /\ cause' = why
  /\ UNCHANGED <<tool, target, ctx, doomed, tick, device, told, status>>

\* failedDeepTool looks at the context now, not at the time of the failure.
Report ==
  /\ testPc = "failing"
  /\ status' = CASE ctx = "over" -> "canceled"
                 [] ctx = "live" /\ cause = "unavailable" -> "unavailable"
                 [] OTHER -> "error"
  /\ testPc' = "returned"
  /\ UNCHANGED <<tool, target, ctx, doomed, tick, device, told, failed, cause>>

-----------------------------------------------------------------------------

TestNext ==
  \/ \E t \in {"smart", "gpu"}, tg \in Targets, goos \in Platforms : Call(t, tg, goos)
  \/ TestBegins
  \/ \E how \in {"finished", "broken", "aborted"} : TestEnds(how)
  \/ TestStarted
  \/ Computed
  \/ CtxEnds
  \/ Tick
  \/ TakeTick
  \/ \E text \in {"progress", "other"} : PollEnds(text)
  \/ CtxTaken
  \/ \E works \in BOOLEAN : AbortEnds(works)
  \/ \E why \in {"unavailable", "other"} : CommandFails(why)
  \/ Report

\* The caller runs; a command ends at the latest when its context kills it. Nothing
\* is assumed of a command whose context lives, nor of the device.
Fairness ==
  /\ WF_testVars(TakeTick \/ CtxTaken)
  /\ WF_testVars(\E works \in BOOLEAN : AbortEnds(works))
  /\ WF_testVars(ctx = "over" /\ \E why \in {"unavailable", "other"} : CommandFails(why))
  /\ WF_testVars(Report)

TestSpec == TestInit /\ [][TestNext]_testVars
FairSpec == TestSpec /\ Fairness

-----------------------------------------------------------------------------
(***************************************************************************)
(* Properties                                                               *)
(***************************************************************************)

\* "ok" is never said of a self-test against what the call knows: when a command failed,
\* when the call aborted the test, or when the last poll's text showed it in progress.
\* That the test finished, or that there was one, does not follow.
OkAgainstNoEvidence ==
  tool = "smart" /\ status = "ok" =>
    told = "other" /\ failed = {} /\ device # "canceled"

\* A call leaves a test running in the device only when a command failed, or when a poll's
\* text did not show it: when the context ends between two polls the test is aborted, or
\* the abort fails.
TestLeftForAReason ==
  testPc = "returned" /\ device = "running" => failed # {} \/ told = "other"

\* Once its context is over a call returns, even from a command that hangs and
\* however often the select prefers the tick.
ReturnsWhenOver == (ctx = "over" /\ testPc # "idle") ~> (testPc = "returned")

=============================================================================
