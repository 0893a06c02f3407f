------------------------------ MODULE IpCheck -------------------------------
(***************************************************************************)
(* RunIpCheck (network/baseinfo/baseinfo.go): one goroutine per service and *)
(* address family asks for the machine's IP information and offers its      *)
(* answer to the family's buffered channel; a closer goroutine waits for    *)
(* all of them and closes both channels; the caller drains the IPv4 and     *)
(* then the IPv6 channel, merges each family's answers in the services'     *)
(* order and has a missing AS number filled in.                            *)
(*                                                                         *)
(* A service is named by its place in funcNames (orderMap + 1).            *)
(***************************************************************************)
EXTENDS IpInfo, Sequences, FiniteSets

CONSTANTS
  NumServices,  \* len(functions)
  CheckTypes,   \* the values of checkType RunIpCheck is called with
  Knowledge     \* the sets of fields a service's answer may fill in

ASSUME NumServicesAssumption == NumServices \in Nat \ {0}
\* "none" stands for no call yet, so no call is made with it.
ASSUME CheckTypesAssumption == "none" \notin CheckTypes
ASSUME KnowledgeAssumption == Knowledge \subseteq SUBSET Fields

Services == 1 .. NumServices
Families == {"ipv4", "ipv6"}
Asked(ct) == CASE ct = "both" -> Families
               [] ct \in Families -> {ct}
               [] OTHER -> {}

VARIABLES
  checkType,  \* the argument of the call
  worker,     \* worker[f][s]: the goroutine that asks service s over family f
  answer,     \* answer[f][s]: what that goroutine was told, Nil for an error
  wg,         \* the WaitGroup's counter
  channel,    \* channel[f]: what is buffered in ipInfoIPv4 and ipInfoIPv6
  closer,     \* the goroutine that closes the two channels
  stage,      \* what the caller is doing ...
  family,     \* ... for which family ...
  list,       \* list[f]: what it has received, in order of arrival
  order, at,  \* ... and the counters of its nested merge loops
  result      \* result[f]: ipInfoV4Result and ipInfoV6Result

workerVars == <<worker, answer, wg, channel>>
callerVars == <<checkType, stage, family, list, order, at, result>>
vars == <<checkType, worker, answer, wg, channel, closer, stage, family, list,
          order, at, result>>

Entries == [source : Services, info : IpInfos \cup {Nil}]
ForEach(v) == [f \in Families |-> v]

Init ==
  /\ checkType = "none"
  /\ worker = ForEach([s \in Services |-> "idle"])
  /\ answer = ForEach([s \in Services |-> Nil])
  /\ wg = 0
  /\ channel = ForEach(<<>>)
  /\ closer = "idle"
  /\ stage = "start"
  /\ family = "ipv4"
  /\ list = ForEach(<<>>)
  /\ order = 1 /\ at = 1
  /\ result = ForEach(Nil)

-----------------------------------------------------------------------------

(***************************************************************************)
(* An operator whose name starts with Bug is a faulty variant of the one    *)
(* that follows it. Nothing uses it: it says which mistake in the code the  *)
(* properties would catch.                                                 *)
(***************************************************************************)

BugAnnouncedOneFamily(ct) == NumServices

BugAnnouncedBothFamilies(ct) == NumServices * 2

\* What wg.Add is given before the goroutines start.
Announced(ct) == IF ct = "both" THEN NumServices * 2 ELSE NumServices

Launch(ct) ==
  /\ stage = "start"
  /\ Asked(ct) # {}
  /\ checkType' = ct
  /\ wg' = Announced(ct)
  /\ worker' = [f \in Families |-> [s \in Services |->
                  IF f \in Asked(ct) THEN "fetching" ELSE "idle"]]
  /\ closer' = "waiting"
  /\ stage' = "range"
  /\ UNCHANGED <<answer, channel, family, list, order, at, result>>

\* A wrong checkType: both results are nil and there is an error.
Reject(ct) ==
  /\ stage = "start"
  /\ Asked(ct) = {}
  /\ checkType' = ct
  /\ stage' = "failed"
  /\ UNCHANGED <<workerVars, closer, family, list, order, at, result>>

-----------------------------------------------------------------------------
(***************************************************************************)
(* A goroutine's fetch returns (an error or a panic counts as Nil) and its  *)
(* answer goes to the channel if the channel has room, else nowhere. Only   *)
(* then does the deferred wg.Done run.                                      *)
(***************************************************************************)

BugChannelCapShort == NumServices - 1

ChannelCap == NumServices

Offer(ch, entry) == IF Len(ch) < ChannelCap THEN Append(ch, entry) ELSE ch

Deliver(f, s, info) ==
  /\ worker[f][s] = "fetching"
  /\ worker' = [worker EXCEPT ![f][s] = "sent"]
  /\ answer' = [answer EXCEPT ![f][s] = info]
  /\ channel' = [channel EXCEPT ![f] = Offer(@, [source |-> s, info |-> info])]
  /\ UNCHANGED <<wg, closer, callerVars>>

WorkerDone(f, s) ==
  /\ worker[f][s] = "sent"
  /\ worker' = [worker EXCEPT ![f][s] = "done"]
  /\ wg' = wg - 1
  /\ UNCHANGED <<answer, channel, closer, callerVars>>

BugCloseV4NoWait ==
  /\ closer = "waiting"
  /\ closer' = "closedV4"
  /\ UNCHANGED <<workerVars, callerVars>>

CloseV4 ==
  /\ closer = "waiting"
  /\ wg = 0
  /\ closer' = "closedV4"
  /\ UNCHANGED <<workerVars, callerVars>>

CloseV6 ==
  /\ closer = "closedV4"
  /\ closer' = "closedBoth"
  /\ UNCHANGED <<workerVars, callerVars>>

Closed(f) == IF f = "ipv4" THEN closer \in {"closedV4", "closedBoth"}
                           ELSE closer = "closedBoth"

-----------------------------------------------------------------------------
(***************************************************************************)
(* The caller. It treats IPv4 before IPv6 at each stage.                    *)
(***************************************************************************)

FollowingStage == [range |-> "merge", merge |-> "fallback", fallback |-> "returned"]

NextFamily ==
  IF family = "ipv4" THEN family' = "ipv6" /\ stage' = stage
                     ELSE family' = "ipv4" /\ stage' = FollowingStage[stage]

Receive ==
  /\ stage = "range"
  /\ channel[family] # <<>>
  /\ list' = [list EXCEPT ![family] = Append(@, Head(channel[family]))]
  /\ channel' = [channel EXCEPT ![family] = Tail(@)]
  /\ UNCHANGED <<checkType, worker, answer, wg, closer, stage, family, order, at, result>>

BugRangeEndsWhenEmpty ==
  /\ stage = "range"
  /\ channel[family] = <<>>
  /\ NextFamily
  /\ UNCHANGED <<checkType, workerVars, closer, list, order, at, result>>

RangeEnds ==
  /\ stage = "range"
  /\ channel[family] = <<>>
  /\ Closed(family)
  /\ NextFamily
  /\ UNCHANGED <<checkType, workerVars, closer, list, order, at, result>>

\* The inner loop's body: merge the entry if it is the service's whose turn it is.
MergeInto(r, info) == CompareAndMergeIpInfo(IF r = Nil THEN EmptyIpInfo ELSE r, info)

BugMergeEntryAsArrived ==
  /\ stage = "merge"
  /\ order <= NumServices
  /\ at <= Len(list[family])
  /\ LET entry == list[family][at] IN
       IF entry.info # Nil
         THEN result' = [result EXCEPT ![family] = MergeInto(@, entry.info)]
         ELSE UNCHANGED result
  /\ at' = at + 1
  /\ UNCHANGED <<checkType, workerVars, closer, stage, family, list, order>>

MergeEntry ==
  /\ stage = "merge"
  /\ order <= NumServices
  /\ at <= Len(list[family])
  /\ LET entry == list[family][at] IN
       IF entry.source = order /\ entry.info # Nil
         THEN result' = [result EXCEPT ![family] = MergeInto(@, entry.info)]
         ELSE UNCHANGED result
  /\ at' = at + 1
  /\ UNCHANGED <<checkType, workerVars, closer, stage, family, list, order>>

NextOrder ==
  /\ stage = "merge"
  /\ order <= NumServices
  /\ at > Len(list[family])
  /\ order' = order + 1
  /\ at' = 1
  /\ UNCHANGED <<checkType, workerVars, closer, stage, family, list, result>>

MergeEnds ==
  /\ stage = "merge"
  /\ order > NumServices
  /\ order' = 1
  /\ NextFamily
  /\ UNCHANGED <<checkType, workerVars, closer, list, at, result>>

\* The value a fallback service supplies, told apart from all the services'.
FallbackSource == NumServices + 1

\* fillASNWithFallback, by what it may change (module AsnFallback has the call).
Fallback ==
  /\ stage = "fallback"
  /\ IF needsASNFallback(result[family])
       THEN \E asn, org \in {Blank, FallbackSource} :
              result' = [result EXCEPT ![family] = FillASN(@, asn, org)]
       ELSE UNCHANGED result
  /\ NextFamily
  /\ UNCHANGED <<checkType, workerVars, closer, list, order, at>>

-----------------------------------------------------------------------------

Replies(s) == {Supplied(s, known) : known \in Knowledge} \cup {Nil}

Next ==
  \/ \E ct \in CheckTypes : Launch(ct) \/ Reject(ct)
  \/ \E f \in Families, s \in Services : \E info \in Replies(s) : Deliver(f, s, info)
  \/ \E f \in Families, s \in Services : WorkerDone(f, s)
  \/ CloseV4
  \/ CloseV6
  \/ Receive
  \/ RangeEnds
  \/ MergeEntry
  \/ NextOrder
  \/ MergeEnds
  \/ Fallback

\* Goroutines are scheduled, and every request ends: its client has a timeout.
Fairness ==
  /\ WF_vars(\E ct \in CheckTypes : Launch(ct) \/ Reject(ct))
  /\ \A f \in Families, s \in Services :
       /\ WF_vars(\E info \in Replies(s) : Deliver(f, s, info))
       /\ WF_vars(WorkerDone(f, s))
  /\ WF_vars(CloseV4 \/ CloseV6)
  /\ WF_vars(Receive \/ RangeEnds \/ MergeEntry \/ NextOrder \/ MergeEnds \/ Fallback)

Spec == Init /\ [][Next]_vars
FairSpec == Spec /\ Fairness

-----------------------------------------------------------------------------
(***************************************************************************)
(* Properties                                                               *)
(***************************************************************************)

WorkerStates == {"idle", "fetching", "sent", "done"}
Stages == {"start", "range", "merge", "fallback", "returned", "failed"}

\* The variables stay within their types; in particular wg never goes negative
\* (sync.WaitGroup would panic) and no channel outgrows its buffer.
TypeOK ==
  /\ checkType \in CheckTypes \cup {"none"}
  /\ worker \in [Families -> [Services -> WorkerStates]]
  /\ answer \in [Families -> [Services -> IpInfos \cup {Nil}]]
  /\ wg \in Nat
  /\ channel \in [Families -> Seq(Entries)]
  /\ \A f \in Families : Len(channel[f]) <= ChannelCap
  /\ closer \in {"idle", "waiting", "closedV4", "closedBoth"}
  /\ stage \in Stages
  /\ family \in Families
  /\ list \in [Families -> Seq(Entries)]
  /\ order \in 1 .. NumServices + 1
  /\ at \in Nat \ {0}
  /\ result \in [Families -> IpInfos \cup {Nil}]

\* A channel is closed only when every goroutine that writes to it has made its
\* offer: an offer to a closed channel would panic outside any recover.
NoSendOnClosedChannel ==
  \A f \in Families : Closed(f) => \A s \in Services : worker[f][s] # "fetching"

Holds(entries, s, info) ==
  \E i \in 1 .. Len(entries) : entries[i].source = s /\ entries[i].info = info

\* The non-blocking offer never finds the channel full: each answer given is
\* still in the channel or already in the caller's list.
NoAnswerDropped ==
  \A f \in Families, s \in Services :
    worker[f][s] \in {"sent", "done"} =>
      Holds(channel[f], s, answer[f][s]) \/ Holds(list[f], s, answer[f][s])

\* The result depends on who answered what and not on the order of arrival: each
\* field is the last service's that knows it, nil only if every service failed.
ResultInServiceOrder ==
  stage = "returned" =>
    \A f \in Families : IsFilledMergeOf(result[f], answer[f], Services)

\* The call returns, whatever the services answer and in whatever order.
EventuallyReturns == <>(stage \in {"returned", "failed"})

Lookup == INSTANCE IpLookup WITH
  answered <- {fs \in Families \X Services : worker[fs[1]][fs[2]] \in {"sent", "done"}},
  outcome <- IF stage \in {"returned", "failed"} THEN stage ELSE "pending",
  reply <- IF stage = "returned" THEN result ELSE ForEach(Nil)

\* The call does what IpLookup promises: each service asked is heard once, and the
\* call waits for all of them before it returns their merge in the services' order.
ImplementsLookup == Lookup!Spec

\* CompareAndMergeIpInfo's comment says that what is not empty is not replaced:
\* while one family's answers are merged, a field that is set keeps its value.
MergeKeepsNonEmpty ==
  [][stage = "merge" =>
       \A f \in Families, x \in Fields :
         Knows(result[f], x) => result'[f][x] = result[f][x]]_vars

=============================================================================
