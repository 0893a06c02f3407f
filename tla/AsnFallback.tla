---------------------------- MODULE AsnFallback -----------------------------
(***************************************************************************)
(* fillASNWithFallback (network/baseinfo/baseinfo.go): when a record places *)
(* the address but has no AS number, one goroutine per ASN service looks it *)
(* up, the caller drains their channel until it is closed and then goes     *)
(* through the answers in order, filling in blanks, until the AS number is  *)
(* known.                                                                  *)
(***************************************************************************)
EXTENDS IpInfo, Sequences

CONSTANTS
  Inputs,     \* the records the function is called with
  Knowledge   \* the sets of fields an ASN service's answer may fill in

ASSUME InputsAssumption == Inputs \subseteq IpInfos \cup {Nil} /\ Knowledge \subseteq SUBSET Fields

asnFuncNames == <<"hackertarget", "ipapi">>
AsnServices == {"hackertarget", "ipapi"}

asnOrderMap == [asnlookup |-> 0, hackertarget |-> 1, ipapi |-> 2]

\* The values the two services supply: told apart from each other and from 1,
\* which stands for whoever filled in the record before the call.
Voice == [hackertarget |-> 2, ipapi |-> 3]

VARIABLES
  input,    \* *ipInfo when the function is called
  ipInfo,   \* *ipInfo now
  worker,   \* worker[s]: the goroutine that asks service s
  answer,   \* answer[s]: what it was told, Nil for an error or a panic
  wg, channel, closed,
  stage,    \* what the caller is doing
  list,     \* the answers it has received, in order of arrival
  order, at \* the counters of its nested loops over them

vars == <<input, ipInfo, worker, answer, wg, channel, closed, stage, list, order, at>>
workerVars == <<worker, answer, wg, channel>>

Init ==
  /\ input \in Inputs
  /\ ipInfo = input
  /\ worker = [s \in AsnServices |-> "idle"]
  /\ answer = [s \in AsnServices |-> Nil]
  /\ wg = 0
  /\ channel = <<>>
  /\ closed = FALSE
  /\ stage = "start"
  /\ list = <<>>
  /\ order = 0 /\ at = 1

-----------------------------------------------------------------------------

NothingToDo ==
  /\ stage = "start"
  /\ ~needsASNFallback(ipInfo)
  /\ stage' = "returned"
  /\ UNCHANGED <<input, ipInfo, workerVars, closed, list, order, at>>

Launch ==
  /\ stage = "start"
  /\ needsASNFallback(ipInfo)
  /\ wg' = Len(asnFuncNames)
  /\ worker' = [s \in AsnServices |-> "asking"]
  /\ stage' = "range"
  /\ UNCHANGED <<input, ipInfo, answer, channel, closed, list, order, at>>

\* The goroutine reads ipInfo.Ip for its request, and then offers what it is told.
Deliver(s, info) ==
  /\ worker[s] = "asking"
  /\ worker' = [worker EXCEPT ![s] = "sent"]
  /\ answer' = [answer EXCEPT ![s] = info]
  /\ channel' = IF Len(channel) < Len(asnFuncNames)
                  THEN Append(channel, [source |-> s, info |-> info])
                  ELSE channel
  /\ UNCHANGED <<input, ipInfo, wg, closed, stage, list, order, at>>

WorkerDone(s) ==
  /\ worker[s] = "sent"
  /\ worker' = [worker EXCEPT ![s] = "done"]
  /\ wg' = wg - 1
  /\ UNCHANGED <<input, ipInfo, answer, channel, closed, stage, list, order, at>>

BugCloseNoWait ==
  /\ stage # "start" /\ ~closed
  /\ closed' = TRUE
  /\ UNCHANGED <<input, ipInfo, workerVars, stage, list, order, at>>

Close ==
  /\ stage = "range" /\ ~closed
  /\ wg = 0
  /\ closed' = TRUE
  /\ UNCHANGED <<input, ipInfo, workerVars, stage, list, order, at>>

Receive ==
  /\ stage = "range"
  /\ channel # <<>>
  /\ list' = Append(list, Head(channel))
  /\ channel' = Tail(channel)
  /\ UNCHANGED <<input, ipInfo, worker, answer, wg, closed, stage, order, at>>

RangeEnds ==
  /\ stage = "range"
  /\ channel = <<>> /\ closed
  /\ stage' = "apply"
  /\ UNCHANGED <<input, ipInfo, workerVars, closed, list, order, at>>

-----------------------------------------------------------------------------
(***************************************************************************)
(* The nested loops: for each order, every entry of that order is applied,  *)
(* and the function returns as soon as the AS number is known. order runs   *)
(* from 0 to one less than the number of services.                         *)
(***************************************************************************)

BugApplyOverwrites(info, src) ==
  [info EXCEPT !["ASN"] = chooseString(src["ASN"], @), !["Org"] = chooseString(src["Org"], @)]

ApplyTo(info, src) == FillASN(info, src["ASN"], src["Org"])

BugApplyEntryAsArrived ==
  /\ stage = "apply"
  /\ order < Len(asnFuncNames)
  /\ at <= Len(list)
  /\ LET entry == list[at]
         after == IF entry.info # Nil THEN ApplyTo(ipInfo, entry.info) ELSE ipInfo
     IN /\ ipInfo' = after
        /\ stage' = IF entry.info # Nil /\ Knows(after, "ASN") THEN "returned" ELSE stage
  /\ at' = at + 1
  /\ UNCHANGED <<input, workerVars, closed, list, order>>

ApplyEntry ==
  /\ stage = "apply"
  /\ order < Len(asnFuncNames)
  /\ at <= Len(list)
  /\ LET entry == list[at]
         mine == asnOrderMap[entry.source] = order /\ entry.info # Nil
         after == IF mine THEN ApplyTo(ipInfo, entry.info) ELSE ipInfo
     IN /\ ipInfo' = after
        /\ stage' = IF mine /\ Knows(after, "ASN") THEN "returned" ELSE stage
  /\ at' = at + 1
  /\ UNCHANGED <<input, workerVars, closed, list, order>>

NextOrder ==
  /\ stage = "apply"
  /\ order < Len(asnFuncNames)
  /\ at > Len(list)
  /\ order' = order + 1
  /\ at' = 1
  /\ UNCHANGED <<input, ipInfo, workerVars, closed, stage, list>>

LoopsEnd ==
  /\ stage = "apply"
  /\ order >= Len(asnFuncNames)
  /\ stage' = "returned"
  /\ UNCHANGED <<input, ipInfo, workerVars, closed, list, order, at>>

-----------------------------------------------------------------------------

Replies(s) == {Supplied(Voice[s], known) : known \in Knowledge} \cup {Nil}

Next ==
  \/ NothingToDo
  \/ Launch
  \/ \E s \in AsnServices : \E info \in Replies(s) : Deliver(s, info)
  \/ \E s \in AsnServices : WorkerDone(s)
  \/ Close
  \/ Receive
  \/ RangeEnds
  \/ ApplyEntry
  \/ NextOrder
  \/ LoopsEnd

Spec == Init /\ [][Next]_vars

-----------------------------------------------------------------------------
(***************************************************************************)
(* Properties                                                               *)
(***************************************************************************)

\* The variables stay within their types; in particular wg never goes negative
\* (sync.WaitGroup would panic).
TypeOK ==
  /\ {input, ipInfo} \subseteq IpInfos \cup {Nil}
  /\ worker \in [AsnServices -> {"idle", "asking", "sent", "done"}]
  /\ answer \in [AsnServices -> IpInfos \cup {Nil}]
  /\ wg \in 0 .. 2
  /\ \A q \in {channel, list} :
       q \in Seq([source : AsnServices, info : IpInfos \cup {Nil}]) /\ Len(q) <= 2
  /\ closed \in BOOLEAN
  /\ stage \in {"start", "range", "apply", "returned"}
  /\ order \in 0 .. 2 /\ at \in 1 .. 3

\* The record is written only when no goroutine can still be reading its Ip: the
\* caller and the goroutines share the pointer and no lock protects it.
NoRaceOnIpInfo ==
  [][ipInfo' # ipInfo => \A s \in AsnServices : worker[s] # "asking"]_vars

\* What the record already says is never replaced, whatever the services answer,
\* and nothing but the AS number and the organisation is ever added to it.
KnownFieldsKept ==
  [][IF ipInfo = Nil
       THEN ipInfo' = Nil
       ELSE \A x \in Fields : Knows(ipInfo, x) \/ x \notin {"ASN", "Org"} =>
              ipInfo'[x] = ipInfo[x]]_vars

\* An AS number filled in is that of the service with the highest priority among
\* those that know it, whichever of them answered first.
AsnByPriority ==
  stage = "returned" /\ needsASNFallback(input) /\ Knows(ipInfo, "ASN") =>
    \E s \in AsnServices :
      /\ Knows(answer[s], "ASN")
      /\ ipInfo["ASN"] = answer[s]["ASN"]
      /\ \A t \in AsnServices :
           asnOrderMap[t] < asnOrderMap[s] => ~Knows(answer[t], "ASN")

\* The fallback's comments: a missing AS number is filled in by the alternative
\* services, in order of priority. So it is known if one of them knows it.
FilledWhenAnyServiceKnows ==
  stage = "returned" /\ needsASNFallback(input) /\ (\E s \in AsnServices : Knows(answer[s], "ASN"))
    => Knows(ipInfo, "ASN")

=============================================================================
