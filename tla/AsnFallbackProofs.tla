-------------------------- MODULE AsnFallbackProofs --------------------------
(***************************************************************************)
(* Proofs about AsnFallback for any fields, any records the function may be  *)
(* called with and anything the two ASN services may know.                  *)
(***************************************************************************)
EXTENDS AsnFallback, LexOrder, FiniteSetTheorems, TLAPS

Answers == IpInfos \cup {Nil}
Entries == [source : AsnServices, info : Answers]
Alive == {s \in AsnServices : worker[s] \in {"asking", "sent"}}

Types ==
  /\ input \in Answers /\ ipInfo \in Answers
  /\ worker \in [AsnServices -> {"idle", "asking", "sent", "done"}]
  /\ answer \in [AsnServices -> Answers]
  /\ channel \in Seq(Entries) /\ list \in Seq(Entries)
  /\ closed \in BOOLEAN
  /\ stage \in {"start", "range", "apply", "returned"}
  /\ order \in 0 .. 2 /\ at \in Nat \ {0}

\* Where the goroutines are at each stage; the caller applies nothing before the last of
\* them is done.
Phases ==
  /\ wg = Cardinality(Alive)
  /\ stage = "start" => ~closed /\ \A s \in AsnServices : worker[s] = "idle"
  /\ stage = "range" => \A s \in AsnServices : worker[s] # "idle"
  /\ closed => \A s \in AsnServices : worker[s] = "done"
  /\ stage = "apply" => closed
  /\ stage = "returned" => \A s \in AsnServices : worker[s] \in {"idle", "done"}

\* Each goroutine that has delivered has one entry, which is in the channel or in the list
\* and holds what it was told.
Carries(q, s) == \E i \in DOMAIN q : q[i].source = s

Honest(q) == \A i \in DOMAIN q : worker[q[i].source] \in {"sent", "done"}
                                /\ q[i].info = answer[q[i].source]

Distinct(q) == \A i, j \in DOMAIN q : q[i].source = q[j].source => i = j

EntriesKept ==
  /\ Honest(channel) /\ Honest(list) /\ Distinct(channel)
  /\ \A s \in AsnServices : worker[s] \in {"sent", "done"} => Carries(channel, s) \/ Carries(list, s)
  /\ stage = "apply" => \A s \in AsnServices : Carries(list, s)

\* An entry the nested loops have been at.
Applied(i) ==
  \/ asnOrderMap[list[i].source] < order
  \/ asnOrderMap[list[i].source] = order /\ i < at

RecordSoFar ==
  /\ stage \in {"start", "range"} => ipInfo = input /\ order = 0 /\ at = 1
  /\ stage \in {"range", "apply"} => ipInfo # Nil /\ ipInfo["ASN"] = Blank /\ needsASNFallback(input)
  /\ stage = "apply" => \A i \in DOMAIN list : Applied(i) => ~Knows(list[i].info, "ASN")

IInv == Types /\ Phases /\ EntriesKept /\ RecordSoFar /\ AsnByPriority

-----------------------------------------------------------------------------
\* Helpers.

LEMMA OrderOf ==
  /\ asnOrderMap["hackertarget"] = 1 /\ asnOrderMap["ipapi"] = 2
  /\ \A s \in AsnServices : asnOrderMap[s] \in 1 .. 2
  /\ Len(asnFuncNames) = 2
BY DEF asnOrderMap, AsnServices, asnFuncNames

LEMMA AliveFinite == Alive \subseteq AsnServices /\ IsFiniteSet(Alive)
<1>1. IsFiniteSet({"hackertarget"})
  BY FS_Singleton
<1>2. IsFiniteSet({"hackertarget"} \cup {"ipapi"})
  BY <1>1, FS_AddElement
<1>3. {"hackertarget"} \cup {"ipapi"} = AsnServices
  BY DEF AsnServices
<1>4. QED
  BY <1>2, <1>3, FS_Subset DEF Alive

LEMMA TwoAlive ==
  ASSUME Alive' = AsnServices PROVE Cardinality(Alive') = 2
<1>1. IsFiniteSet({"hackertarget"}) /\ Cardinality({"hackertarget"}) = 1
  BY FS_Singleton
<1>2. Cardinality({"hackertarget"} \cup {"ipapi"}) = 2
  BY <1>1, FS_AddElement
<1>3. {"hackertarget"} \cup {"ipapi"} = AsnServices
  BY DEF AsnServices
<1>4. QED
  BY <1>2, <1>3

LEMMA AppendEntry ==
  ASSUME NEW q \in Seq(Entries), NEW e \in Entries
  PROVE  /\ Append(q, e) \in Seq(Entries)
         /\ DOMAIN Append(q, e) = 1 .. (Len(q) + 1) /\ DOMAIN q = 1 .. Len(q) /\ Len(q) \in Nat
         /\ \A i \in 1 .. Len(q) : Append(q, e)[i] = q[i]
         /\ Append(q, e)[Len(q) + 1] = e
OBVIOUS

LEMMA TailEntry ==
  ASSUME NEW q \in Seq(Entries), q # <<>>
  PROVE  /\ Head(q) \in Entries /\ Head(q) = q[1]
         /\ Tail(q) \in Seq(Entries)
         /\ Len(q) \in Nat \ {0} /\ DOMAIN q = 1 .. Len(q)
         /\ DOMAIN Tail(q) = 1 .. (Len(q) - 1)
         /\ \A i \in 1 .. (Len(q) - 1) : Tail(q)[i] = q[i + 1]
OBVIOUS

\* A channel with no entry of a service has room for it.
LEMMA RoomForEntry ==
  ASSUME NEW q \in Seq(Entries), Distinct(q), NEW s \in AsnServices, ~Carries(q, s)
  PROVE  Len(q) < 2
<1> SUFFICES ASSUME ~(Len(q) < 2) PROVE FALSE
  OBVIOUS
<1>1. 1 \in DOMAIN q /\ 2 \in DOMAIN q
  OBVIOUS
<1>2. q[1].source \in AsnServices \ {s} /\ q[2].source \in AsnServices \ {s}
  <2>1. q[1] \in Entries /\ q[2] \in Entries
    BY <1>1
  <2>2. q[1].source # s /\ q[2].source # s
    BY <1>1 DEF Carries
  <2>3. QED
    BY <2>1, <2>2 DEF Entries
<1>3. q[1].source = q[2].source
  BY <1>2 DEF AsnServices
<1>4. QED
  BY <1>1, <1>3 DEF Distinct

\* What a service may answer.
LEMMA RepliesType == \A s \in AsnServices : Replies(s) \subseteq Answers
<1> TAKE s \in AsnServices
<1>1. Voice[s] \in Nat
  BY DEF Voice, AsnServices
<1>2. \A known \in Knowledge : Supplied(Voice[s], known) \in IpInfos
  BY <1>1 DEF Supplied, IpInfos, Blank
<1>3. QED
  BY <1>2 DEF Replies, Answers

\* What filling in does to a record.
LEMMA ApplyToFills ==
  ASSUME NEW info \in IpInfos, NEW src \in IpInfos
  PROVE  /\ ApplyTo(info, src) \in IpInfos
         /\ info["ASN"] = Blank => ApplyTo(info, src)["ASN"] = src["ASN"]
         /\ \A x \in Fields : info[x] # Blank \/ x \notin {"ASN", "Org"} => ApplyTo(info, src)[x] = info[x]
<1>1. "ASN" \in Fields /\ "Org" \in Fields
  BY FieldsAssumption
<1>2. info \in [Fields -> Nat] /\ src \in [Fields -> Nat]
  BY DEF IpInfos
<1>3. chooseString(info["ASN"], src["ASN"]) \in Nat /\ chooseString(info["Org"], src["Org"]) \in Nat
  BY <1>1, <1>2 DEF chooseString
<1>4. ApplyTo(info, src) = [info EXCEPT !["ASN"] = chooseString(info["ASN"], src["ASN"]),
                                        !["Org"] = chooseString(info["Org"], src["Org"])]
  BY <1>1, <1>2 DEF ApplyTo, FillASN
<1>5. ApplyTo(info, src) \in [Fields -> Nat]
      /\ ApplyTo(info, src)["ASN"] = chooseString(info["ASN"], src["ASN"])
      /\ ApplyTo(info, src)["Org"] = chooseString(info["Org"], src["Org"])
      /\ \A x \in Fields \ {"ASN", "Org"} : ApplyTo(info, src)[x] = info[x]
  BY <1>1, <1>2, <1>3, <1>4
<1>6. QED
  BY <1>1, <1>5 DEF chooseString, IpInfos

LEMMA NilIsNoRecord == Answers \ {Nil} = IpInfos
BY NilAssumption DEF Answers

-----------------------------------------------------------------------------
\* The steps.

LEMMA InitIInv == Init => IInv
<1> SUFFICES ASSUME Init PROVE IInv
  OBVIOUS
<1>1. input \in Answers /\ ipInfo = input
  BY InputsAssumption DEF Init, Answers
<1>2. answer \in [AsnServices -> Answers]
  BY DEF Init, Answers
<1>3. Types
  <2>1. channel \in Seq(Entries) /\ list \in Seq(Entries)
    BY DEF Init
  <2>2. worker \in [AsnServices -> {"idle", "asking", "sent", "done"}]
    BY DEF Init
  <2>3. order = 0 /\ at = 1 /\ closed = FALSE /\ stage = "start"
    BY DEF Init
  <2>4. order \in 0 .. 2 /\ at \in Nat \ {0}
    BY <2>3
  <2>5. QED
    BY <1>1, <1>2, <2>1, <2>2, <2>3, <2>4 DEF Types
<1>4. Phases
  <2>1. Alive = {}
    BY DEF Init, Alive
  <2>2. QED
    BY <2>1, FS_EmptySet DEF Init, Phases
<1>5. EntriesKept /\ RecordSoFar /\ AsnByPriority
  BY DEF Init, EntriesKept, Honest, Distinct, RecordSoFar, AsnByPriority
<1>6. QED
  BY <1>3, <1>4, <1>5 DEF IInv

\* While the caller works no answer changes, and what was returned stays right.
LEMMA NothingToDoIInv == ASSUME IInv, NothingToDo PROVE IInv'
<1>1. /\ stage = "start" /\ stage' = "returned" /\ ~needsASNFallback(ipInfo)
      /\ UNCHANGED <<input, ipInfo, workerVars, closed, list, order, at>>
  BY DEF NothingToDo
<1>2. Alive' = Alive
  BY <1>1 DEF Alive, workerVars
<1>3. Types' /\ Phases'
  BY <1>1, <1>2 DEF IInv, Types, Phases, workerVars
<1>4. EntriesKept'
  BY <1>1 DEF IInv, EntriesKept, Honest, Distinct, Carries, workerVars
<1>5. RecordSoFar' /\ AsnByPriority'
  BY <1>1 DEF IInv, RecordSoFar, AsnByPriority
<1>6. QED
  BY <1>3, <1>4, <1>5 DEF IInv

LEMMA LaunchIInv == ASSUME IInv, Launch PROVE IInv'
<1>1. /\ stage = "start" /\ stage' = "range" /\ needsASNFallback(ipInfo) /\ wg' = 2
      /\ worker' = [s \in AsnServices |-> "asking"]
      /\ UNCHANGED <<input, ipInfo, answer, channel, closed, list, order, at>>
  BY OrderOf DEF Launch
<1>2. \A s \in AsnServices : worker[s] = "idle" /\ worker'[s] = "asking"
  BY <1>1 DEF IInv, Phases
<1>3. Types'
  BY <1>1 DEF IInv, Types
<1>4. Phases'
  <2>1. Alive' = AsnServices
    BY <1>2 DEF Alive
  <2>2. ~closed'
    BY <1>1 DEF IInv, Phases
  <2>3. QED
    BY <1>1, <1>2, <2>1, <2>2, TwoAlive DEF Phases
<1>5. EntriesKept'
  <2>1. \A q \in {channel, list} : \A i \in DOMAIN q : FALSE
    <3> SUFFICES ASSUME NEW q \in {channel, list}, NEW i \in DOMAIN q PROVE FALSE
      OBVIOUS
    <3>1. q \in Seq(Entries) /\ Honest(q)
      BY DEF IInv, Types, EntriesKept
    <3>2. q[i] \in Entries
      BY <3>1
    <3>3. q[i].source \in AsnServices
      BY <3>2 DEF Entries
    <3>4. QED
      BY <1>2, <3>1, <3>3 DEF Honest
  <2>2. QED
    BY <1>1, <1>2, <2>1 DEF EntriesKept, Honest, Distinct, Carries
<1>6. RecordSoFar' /\ AsnByPriority'
  BY <1>1 DEF IInv, RecordSoFar, AsnByPriority, needsASNFallback, hasGeoInfo
<1>7. QED
  BY <1>3, <1>4, <1>5, <1>6 DEF IInv

LEMMA DeliverIInv ==
  ASSUME IInv, NEW s \in AsnServices, NEW info \in Replies(s), Deliver(s, info) PROVE IInv'
<1> DEFINE entry == [source |-> s, info |-> info]
<1>1. /\ worker[s] = "asking"
      /\ worker' = [worker EXCEPT ![s] = "sent"] /\ answer' = [answer EXCEPT ![s] = info]
      /\ UNCHANGED <<input, ipInfo, wg, closed, stage, list, order, at>>
      /\ Len(channel) < 2 => channel' = Append(channel, entry)
  BY OrderOf DEF Deliver
<1>2. worker \in [AsnServices -> {"idle", "asking", "sent", "done"}]
      /\ answer \in [AsnServices -> Answers] /\ channel \in Seq(Entries) /\ list \in Seq(Entries)
  BY DEF IInv, Types
<1>3. info \in Answers /\ entry \in Entries /\ entry.source = s /\ entry.info = info
  BY RepliesType DEF Entries
<1>4. ~Carries(channel, s) /\ ~Carries(list, s)
  BY <1>1 DEF IInv, EntriesKept, Honest, Carries
<1>5. channel' = Append(channel, entry)
  BY <1>1, <1>2, <1>4, RoomForEntry DEF IInv, EntriesKept
<1> HIDE DEF entry
<1>6. /\ channel' \in Seq(Entries) /\ Len(channel) \in Nat
      /\ DOMAIN channel' = 1 .. (Len(channel) + 1) /\ DOMAIN channel = 1 .. Len(channel)
      /\ \A i \in 1 .. Len(channel) : channel'[i] = channel[i]
      /\ channel'[Len(channel) + 1] = entry
  BY <1>2, <1>3, <1>5, AppendEntry
<1>7. Types'
  BY <1>1, <1>2, <1>3, <1>6 DEF IInv, Types
<1>8. Phases'
  <2>1. Alive' = Alive
    BY <1>1, <1>2 DEF Alive
  <2>2. ~closed /\ stage \notin {"start", "returned", "apply"}
    BY <1>1 DEF IInv, Phases
  <2>3. QED
    BY <1>1, <1>2, <2>1, <2>2 DEF IInv, Phases, Types
<1>9. \A t \in AsnServices \ {s} : worker'[t] = worker[t] /\ answer'[t] = answer[t]
  BY <1>1, <1>2
<1>10. worker'[s] = "sent" /\ answer'[s] = info
  BY <1>1, <1>2
<1>11. \A q \in {channel, list} : \A i \in DOMAIN q :
         /\ q[i].source \in AsnServices \ {s}
         /\ worker[q[i].source] \in {"sent", "done"} /\ q[i].info = answer[q[i].source]
  <2> TAKE q \in {channel, list}
  <2> TAKE i \in DOMAIN q
  <2>1. q[i] \in Entries
    BY <1>2
  <2>2. q[i].source # s
    BY <1>4 DEF Carries
  <2>3. QED
    BY <2>1, <2>2 DEF Entries, IInv, EntriesKept, Honest
<1>12. EntriesKept'
  <2>1. Honest(list)'
    BY <1>1, <1>9, <1>11 DEF Honest
  <2>2. Honest(channel)'
    <3> SUFFICES ASSUME NEW i \in DOMAIN channel'
                 PROVE  /\ worker'[channel'[i].source] \in {"sent", "done"}
                        /\ channel'[i].info = answer'[channel'[i].source]
      BY DEF Honest
    <3>1. CASE i \in DOMAIN channel
      BY <1>6, <1>9, <1>11, <3>1
    <3>2. CASE i = Len(channel) + 1
      BY <1>3, <1>6, <1>10, <3>2
    <3>3. QED
      BY <1>6, <3>1, <3>2
  <2>3. Distinct(channel)'
    <3> SUFFICES ASSUME NEW i \in DOMAIN channel', NEW j \in DOMAIN channel',
                        channel'[i].source = channel'[j].source
                 PROVE  i = j
      BY DEF Distinct
    <3>1. CASE i \in DOMAIN channel /\ j \in DOMAIN channel
      BY <1>6, <3>1 DEF IInv, EntriesKept, Distinct
    <3>2. CASE i \in DOMAIN channel /\ j = Len(channel) + 1
      BY <1>3, <1>6, <1>11, <3>2
    <3>3. CASE j \in DOMAIN channel /\ i = Len(channel) + 1
      BY <1>3, <1>6, <1>11, <3>3
    <3>4. QED
      BY <1>6, <3>1, <3>2, <3>3
  <2>4. \A t \in AsnServices : worker'[t] \in {"sent", "done"} =>
          Carries(channel', t) \/ Carries(list', t)
    <3> TAKE t \in AsnServices
    <3>1. CASE t = s
      <4>1. Len(channel) + 1 \in DOMAIN channel'
        BY <1>6
      <4>2. QED
        BY <1>3, <1>6, <3>1, <4>1 DEF Carries
    <3>2. CASE t # s
      <4>1. worker[t] \in {"sent", "done"} => Carries(channel, t) \/ Carries(list, t)
        BY DEF IInv, EntriesKept
      <4>2. Carries(channel, t) => Carries(channel', t)
        BY <1>6 DEF Carries
      <4>3. QED
        BY <1>1, <1>9, <3>2, <4>1, <4>2
    <3>3. QED
      BY <3>1, <3>2
  <2>5. stage' # "apply"
    BY <1>1 DEF IInv, Phases
  <2>6. QED
    BY <2>1, <2>2, <2>3, <2>4, <2>5 DEF EntriesKept
<1>13. RecordSoFar' /\ AsnByPriority'
  BY <1>1 DEF IInv, Phases, RecordSoFar, AsnByPriority
<1>14. QED
  BY <1>7, <1>8, <1>12, <1>13 DEF IInv

LEMMA WorkerDoneIInv == ASSUME IInv, NEW s \in AsnServices, WorkerDone(s) PROVE IInv'
<1>1. /\ worker[s] = "sent" /\ worker' = [worker EXCEPT ![s] = "done"] /\ wg' = wg - 1
      /\ UNCHANGED <<input, ipInfo, answer, channel, closed, stage, list, order, at>>
  BY DEF WorkerDone
<1>2. worker \in [AsnServices -> {"idle", "asking", "sent", "done"}]
  BY DEF IInv, Types
<1>3. \A t \in AsnServices :
        /\ worker'[t] \in {"sent", "done"} <=> worker[t] \in {"sent", "done"}
        /\ worker'[t] = "idle" <=> worker[t] = "idle"
        /\ worker[t] = "done" => worker'[t] = "done"
  BY <1>1, <1>2
<1>4. Types'
  BY <1>1 DEF IInv, Types
<1>5. Phases'
  <2>1. Alive' = Alive \ {s} /\ s \in Alive
    BY <1>1, <1>2 DEF Alive
  <2>2. wg' = Cardinality(Alive')
    BY <1>1, <2>1, AliveFinite, FS_RemoveElement DEF IInv, Phases
  <2>3. ~closed /\ stage \notin {"start", "returned", "apply"}
    BY <1>1 DEF IInv, Phases
  <2>4. QED
    BY <1>1, <1>3, <2>2, <2>3 DEF IInv, Phases, Types
<1>6. EntriesKept'
  <2>1. ASSUME NEW q \in {channel, list} PROVE \A i \in DOMAIN q : q[i].source \in AsnServices
    <3> TAKE i \in DOMAIN q
    <3>1. q[i] \in Entries
      BY DEF IInv, Types
    <3>2. QED
      BY <3>1 DEF Entries
  <2>2. Honest(channel)' /\ Honest(list)'
    BY <1>1, <1>3, <2>1 DEF IInv, EntriesKept, Honest
  <2>3. QED
    BY <1>1, <1>3, <2>2 DEF IInv, EntriesKept, Distinct, Carries
<1>7. RecordSoFar' /\ AsnByPriority'
  BY <1>1 DEF IInv, Phases, RecordSoFar, AsnByPriority
<1>8. QED
  BY <1>4, <1>5, <1>6, <1>7 DEF IInv

LEMMA CloseIInv == ASSUME IInv, Close PROVE IInv'
<1>1. /\ stage = "range" /\ wg = 0 /\ closed' = TRUE
      /\ UNCHANGED <<input, ipInfo, workerVars, stage, list, order, at>>
  BY DEF Close
<1>2. Alive = {}
  BY <1>1, AliveFinite, FS_EmptySet DEF IInv, Phases
<1>3. \A s \in AsnServices : worker[s] = "done"
  BY <1>1, <1>2 DEF IInv, Phases, Types, Alive
<1>4. Alive' = Alive
  BY <1>1 DEF Alive, workerVars
<1>5. Types' /\ Phases'
  BY <1>1, <1>3, <1>4 DEF IInv, Types, Phases, workerVars
<1>6. EntriesKept' /\ RecordSoFar' /\ AsnByPriority'
  BY <1>1 DEF IInv, EntriesKept, Honest, Distinct, Carries, RecordSoFar, AsnByPriority, workerVars
<1>7. QED
  BY <1>5, <1>6 DEF IInv

LEMMA ReceiveIInv == ASSUME IInv, Receive PROVE IInv'
<1>1. /\ stage = "range" /\ channel # <<>>
      /\ list' = Append(list, Head(channel)) /\ channel' = Tail(channel)
      /\ UNCHANGED <<input, ipInfo, worker, answer, wg, closed, stage, order, at>>
  BY DEF Receive
<1>2. channel \in Seq(Entries) /\ list \in Seq(Entries)
  BY DEF IInv, Types
<1>3. /\ Head(channel) \in Entries /\ Head(channel) = channel[1]
      /\ channel' \in Seq(Entries)
      /\ Len(channel) \in Nat \ {0} /\ DOMAIN channel = 1 .. Len(channel)
      /\ DOMAIN channel' = 1 .. (Len(channel) - 1)
      /\ \A i \in 1 .. (Len(channel) - 1) : channel'[i] = channel[i + 1]
  BY <1>1, <1>2, TailEntry
<1>4. /\ list' \in Seq(Entries) /\ Len(list) \in Nat
      /\ DOMAIN list' = 1 .. (Len(list) + 1) /\ DOMAIN list = 1 .. Len(list)
      /\ \A i \in 1 .. Len(list) : list'[i] = list[i]
      /\ list'[Len(list) + 1] = channel[1]
  BY <1>1, <1>2, <1>3, AppendEntry
<1>5. Types'
  BY <1>1, <1>3, <1>4 DEF IInv, Types
<1>6. Phases'
  <2>1. Alive' = Alive
    BY <1>1 DEF Alive
  <2>2. QED
    BY <1>1, <2>1 DEF IInv, Phases
<1>7. EntriesKept'
  <2>1. Honest(channel)' /\ Distinct(channel)'
    <3>1. \A i \in DOMAIN channel' : i + 1 \in DOMAIN channel /\ i \in Nat /\ channel'[i] = channel[i + 1]
      BY <1>3
    <3>2. Honest(channel)'
      BY <1>1, <3>1 DEF IInv, EntriesKept, Honest
    <3>3. Distinct(channel)'
      <4> SUFFICES ASSUME NEW i \in DOMAIN channel', NEW j \in DOMAIN channel',
                          channel'[i].source = channel'[j].source
                   PROVE  i = j
        BY DEF Distinct
      <4>1. i + 1 = j + 1
        BY <3>1 DEF IInv, EntriesKept, Distinct
      <4>2. QED
        BY <3>1, <4>1
    <3>4. QED
      BY <3>2, <3>3
  <2>2. Honest(list)'
    <3> SUFFICES ASSUME NEW i \in DOMAIN list'
                 PROVE  /\ worker[list'[i].source] \in {"sent", "done"}
                        /\ list'[i].info = answer[list'[i].source]
      BY <1>1 DEF Honest
    <3>1. CASE i \in DOMAIN list
      BY <1>4, <3>1 DEF IInv, EntriesKept, Honest
    <3>2. CASE i = Len(list) + 1
      BY <1>3, <1>4, <3>2 DEF IInv, EntriesKept, Honest
    <3>3. QED
      BY <1>4, <3>1, <3>2
  <2>3. ASSUME NEW s \in AsnServices, Carries(channel, s) \/ Carries(list, s)
        PROVE  Carries(channel', s) \/ Carries(list', s)
    <3>1. CASE Carries(list, s)
      BY <1>4, <3>1 DEF Carries
    <3>2. CASE Carries(channel, s)
      <4>1. PICK i \in DOMAIN channel : channel[i].source = s
        BY <3>2 DEF Carries
      <4>2. CASE i = 1
        <5>1. Len(list) + 1 \in DOMAIN list'
          BY <1>4
        <5>2. QED
          BY <1>4, <4>1, <4>2, <5>1 DEF Carries
      <4>3. CASE i # 1
        <5>1. i - 1 \in DOMAIN channel' /\ channel'[i - 1] = channel[i]
          BY <1>3, <4>1, <4>3
        <5>2. QED
          BY <4>1, <5>1 DEF Carries
      <4>4. QED
        BY <4>2, <4>3
    <3>3. QED
      BY <2>3, <3>1, <3>2
  <2>4. \A s \in AsnServices : worker'[s] \in {"sent", "done"} =>
          Carries(channel', s) \/ Carries(list', s)
    BY <1>1, <2>3 DEF IInv, EntriesKept
  <2>5. QED
    BY <1>1, <2>1, <2>2, <2>4 DEF EntriesKept
<1>8. RecordSoFar' /\ AsnByPriority'
  BY <1>1 DEF IInv, RecordSoFar, AsnByPriority
<1>9. QED
  BY <1>5, <1>6, <1>7, <1>8 DEF IInv

\* No entry of the list has been applied when the loops begin.
LEMMA NothingApplied ==
  ASSUME list \in Seq(Entries), order = 0, at = 1, NEW i \in DOMAIN list PROVE ~Applied(i)
<1>1. list[i] \in Entries /\ i \in Nat /\ i >= 1
  OBVIOUS
<1>2. asnOrderMap[list[i].source] \in 1 .. 2
  BY <1>1, OrderOf DEF Entries
<1>3. QED
  BY <1>1, <1>2 DEF Applied

LEMMA LoopIInv ==
  ASSUME IInv, ApplyEntry \/ NextOrder \/ LoopsEnd PROVE IInv'
<1>1. /\ stage = "apply" /\ UNCHANGED <<input, workerVars, closed, list>>
      /\ stage' \in {"apply", "returned"}
  BY DEF ApplyEntry, NextOrder, LoopsEnd
<1>2. /\ ipInfo \in IpInfos /\ ipInfo # Nil /\ ipInfo["ASN"] = Blank /\ needsASNFallback(input)
      /\ list \in Seq(Entries) /\ order \in 0 .. 2 /\ at \in Nat \ {0}
      /\ \A s \in AsnServices : worker[s] = "done"
      /\ \A s \in AsnServices : Carries(list, s)
      /\ \A i \in DOMAIN list : Applied(i) => ~Knows(list[i].info, "ASN")
  BY <1>1, NilIsNoRecord DEF IInv, Types, Phases, EntriesKept, RecordSoFar
<1>3. \A i \in DOMAIN list : /\ i \in Nat \ {0} /\ list[i].source \in AsnServices
                            /\ list[i].info \in Answers /\ list[i].info = answer[list[i].source]
                            /\ asnOrderMap[list[i].source] \in 1 .. 2
  <2> TAKE i \in DOMAIN list
  <2>1. list[i] \in Entries /\ i \in Nat \ {0}
    BY <1>2
  <2>2. QED
    BY <2>1, OrderOf DEF Entries, IInv, EntriesKept, Honest
<1>4. Phases'
  <2>1. Alive' = Alive
    BY <1>1 DEF Alive, workerVars
  <2>2. QED
    BY <1>1, <1>2, <2>1 DEF IInv, Phases, workerVars
<1>5. EntriesKept'
  BY <1>1, <1>2 DEF IInv, EntriesKept, Honest, Distinct, Carries, workerVars
<1>6. CASE NextOrder
  <2>1. /\ stage' = stage /\ ipInfo' = ipInfo /\ order < 2 /\ at > Len(list)
        /\ order' = order + 1 /\ at' = 1
    BY <1>6, OrderOf DEF NextOrder
  <2>2. \A i \in DOMAIN list : Applied(i)' => Applied(i)
    <3> SUFFICES ASSUME NEW i \in DOMAIN list, Applied(i)' PROVE Applied(i)
      OBVIOUS
    <3>1. asnOrderMap[list[i].source] < order + 1
      BY <1>1, <1>2, <1>3, <2>1 DEF Applied
    <3>2. i < at
      BY <1>2, <2>1
    <3>3. QED
      BY <1>2, <1>3, <3>1, <3>2 DEF Applied
  <2>3. Types'
    BY <1>1, <1>2, <2>1 DEF IInv, Types, workerVars
  <2>4. RecordSoFar' /\ AsnByPriority'
    BY <1>1, <1>2, <2>1, <2>2 DEF IInv, RecordSoFar, AsnByPriority
  <2>5. QED
    BY <1>4, <1>5, <2>3, <2>4 DEF IInv
<1>7. CASE LoopsEnd
  <2>1. stage' = "returned" /\ UNCHANGED <<ipInfo, order, at>>
    BY <1>7 DEF LoopsEnd
  <2>2. Types'
    BY <1>1, <2>1 DEF IInv, Types, workerVars
  <2>3. RecordSoFar' /\ AsnByPriority'
    BY <1>1, <1>2, <2>1 DEF RecordSoFar, AsnByPriority, Knows
  <2>4. QED
    BY <1>4, <1>5, <2>2, <2>3 DEF IInv
<1>8. CASE ApplyEntry
  <2> DEFINE entry == list[at]
             mine == asnOrderMap[entry.source] = order /\ entry.info # Nil
             after == ApplyTo(ipInfo, entry.info)
  <2>1. /\ at <= Len(list) /\ at' = at + 1 /\ order' = order
        /\ \/ /\ mine /\ ipInfo' = after
              /\ stage' = IF Knows(after, "ASN") THEN "returned" ELSE stage
           \/ ~mine /\ ipInfo' = ipInfo /\ stage' = stage
    BY <1>8 DEF ApplyEntry
  <2>2. at \in DOMAIN list
    BY <1>2, <2>1
  <2>3. ASSUME ~Knows(entry.info, "ASN") \/ asnOrderMap[entry.source] # order,
               NEW i \in DOMAIN list, Applied(i)'
        PROVE  ~Knows(list[i].info, "ASN")
    <3>1. Applied(i) \/ (i = at /\ asnOrderMap[list[i].source] = order)
      BY <1>1, <1>2, <1>3, <2>1, <2>3 DEF Applied
    <3>2. QED
      BY <1>2, <2>3, <3>1
  <2>4. CASE ~mine /\ ipInfo' = ipInfo /\ stage' = stage
    <3>1. ~Knows(entry.info, "ASN") \/ asnOrderMap[entry.source] # order
      BY <2>4 DEF Knows
    <3>2. Types'
      BY <1>1, <1>2, <2>1, <2>4 DEF IInv, Types, workerVars
    <3>3. \A i \in DOMAIN list' : Applied(i)' => ~Knows(list'[i].info, "ASN")
      BY <1>1, <2>3, <3>1
    <3>4. RecordSoFar' /\ AsnByPriority'
      BY <1>1, <1>2, <2>4, <3>3 DEF RecordSoFar, AsnByPriority
    <3>5. QED
      BY <1>4, <1>5, <3>2, <3>4 DEF IInv
  <2>5. CASE mine /\ ipInfo' = after /\ stage' = IF Knows(after, "ASN") THEN "returned" ELSE stage
    <3>1. entry.info \in IpInfos /\ entry.source \in AsnServices /\ entry.info = answer[entry.source]
      BY <1>3, <2>2, <2>5, NilIsNoRecord
    <3> HIDE DEF entry
    <3>2. after \in IpInfos /\ after["ASN"] = entry.info["ASN"]
      BY <1>2, <3>1, ApplyToFills
    <3> HIDE DEF after
    <3>3. after # Nil /\ entry.info # Nil
      BY <3>1, <3>2, NilAssumption
    <3>4. Types'
      BY <1>1, <1>2, <2>1, <2>5, <3>2 DEF IInv, Types, Answers, workerVars
    <3>5. CASE ~Knows(after, "ASN")
      <4>1. ~Knows(entry.info, "ASN") /\ after["ASN"] = Blank
        BY <3>2, <3>3, <3>5 DEF Knows
      <4>2. RecordSoFar' /\ AsnByPriority'
        BY <1>1, <1>2, <2>3, <2>5, <3>3, <3>5, <4>1 DEF RecordSoFar, AsnByPriority
      <4>3. QED
        BY <1>4, <1>5, <3>4, <4>2 DEF IInv
    <3>6. CASE Knows(after, "ASN")
      <4>1. Knows(answer[entry.source], "ASN") /\ ipInfo'["ASN"] = answer[entry.source]["ASN"]
        BY <2>5, <3>1, <3>2, <3>3, <3>6 DEF Knows
      <4>2. ASSUME NEW t \in AsnServices, asnOrderMap[t] < asnOrderMap[entry.source]
            PROVE  ~Knows(answer[t], "ASN")
        <5>1. PICK i \in DOMAIN list : list[i].source = t
          BY <1>2 DEF Carries
        <5>2. Applied(i)
          BY <2>5, <4>2, <5>1 DEF Applied
        <5>3. QED
          BY <1>2, <1>3, <5>1, <5>2
      <4>3. AsnByPriority'
        BY <1>1, <3>1, <4>1, <4>2 DEF AsnByPriority, workerVars
      <4>4. RecordSoFar'
        BY <2>5, <3>6 DEF RecordSoFar
      <4>5. QED
        BY <1>4, <1>5, <3>4, <4>3, <4>4 DEF IInv
    <3>7. QED
      BY <3>5, <3>6
  <2>6. QED
    BY <2>1, <2>4, <2>5
<1>9. QED
  BY <1>6, <1>7, <1>8

LEMMA RangeEndsIInv == ASSUME IInv, RangeEnds PROVE IInv'
<1>1. /\ stage = "range" /\ stage' = "apply" /\ channel = <<>> /\ closed
      /\ UNCHANGED <<input, ipInfo, workerVars, closed, list, order, at>>
  BY DEF RangeEnds
<1>2. Alive' = Alive
  BY <1>1 DEF Alive, workerVars
<1>3. Types' /\ Phases'
  BY <1>1, <1>2 DEF IInv, Types, Phases, workerVars
<1>4. \A s \in AsnServices : Carries(list, s)
  BY <1>1 DEF IInv, Phases, EntriesKept, Carries
<1>5. EntriesKept'
  BY <1>1, <1>4 DEF IInv, EntriesKept, Honest, Distinct, Carries, workerVars
<1>6. order = 0 /\ at = 1
  BY <1>1 DEF IInv, RecordSoFar
<1>7. RecordSoFar' /\ AsnByPriority'
  <2>1. \A i \in DOMAIN list : ~Applied(i)
    BY <1>6, NothingApplied DEF IInv, Types
  <2>2. \A i \in DOMAIN list : Applied(i)' <=> Applied(i)
    BY <1>1 DEF Applied
  <2>3. QED
    BY <1>1, <2>1, <2>2 DEF IInv, RecordSoFar, AsnByPriority
<1>8. QED
  BY <1>1, <1>3, <1>5, <1>7 DEF IInv

LEMMA NextIInv == IInv /\ [Next]_vars => IInv'
<1> SUFFICES ASSUME IInv, [Next]_vars PROVE IInv'
  OBVIOUS
<1>1. CASE Next
  BY <1>1, NothingToDoIInv, LaunchIInv, DeliverIInv, WorkerDoneIInv, CloseIInv, ReceiveIInv,
     RangeEndsIInv, LoopIInv DEF Next
<1>2. CASE UNCHANGED vars
  <2>1. Alive' = Alive /\ \A i \in DOMAIN list : Applied(i)' <=> Applied(i)
    BY <1>2 DEF vars, Alive, Applied
  <2>2. Types' /\ Phases' /\ EntriesKept'
    BY <1>2, <2>1 DEF vars, IInv, Types, Phases, EntriesKept, Honest, Distinct, Carries
  <2>3. RecordSoFar' /\ AsnByPriority'
    BY <1>2, <2>1 DEF vars, IInv, RecordSoFar, AsnByPriority
  <2>4. QED
    BY <2>2, <2>3 DEF IInv
<1>3. QED
  BY <1>1, <1>2

LEMMA Invariance == Spec => []IInv
<1>1. QED
  BY InitIInv, NextIInv, PTL DEF Spec

\* Only an entry that is applied changes the record.
LEMMA WrittenByApplyEntry ==
  ASSUME Next, ipInfo' # ipInfo
  PROVE  ApplyEntry
BY DEF Next, NothingToDo, Launch, Deliver, WorkerDone, Close, Receive, RangeEnds, NextOrder, LoopsEnd

-----------------------------------------------------------------------------

\* However the services' answers are ordered, an AS number that is filled in is that of the
\* first service in the table that knows it.
THEOREM FirstServiceWins == Spec => []AsnByPriority
<1>1. IInv => AsnByPriority
  BY DEF IInv
<1>2. QED
  BY <1>1, Invariance, PTL

\* The shared record is not written while a goroutine may still read it.
THEOREM RecordIsNotShared == Spec => NoRaceOnIpInfo
<1>1. IInv /\ [Next]_vars =>
        [ipInfo' # ipInfo => \A s \in AsnServices : worker[s] # "asking"]_vars
  <2> SUFFICES ASSUME IInv, Next, ipInfo' # ipInfo, NEW s \in AsnServices PROVE worker[s] # "asking"
    OBVIOUS
  <2>1. stage = "apply"
    BY WrittenByApplyEntry DEF ApplyEntry
  <2>2. QED
    BY <2>1 DEF IInv, Phases
<1>2. QED
  BY <1>1, Invariance, PTL DEF Spec, NoRaceOnIpInfo

\* Whatever the services answer, what the record already says stays, and they add nothing
\* but the AS number and the organisation.
THEOREM RecordIsOnlyCompleted == Spec => KnownFieldsKept
<1>1. IInv /\ [Next]_vars =>
        [IF ipInfo = Nil
           THEN ipInfo' = Nil
           ELSE \A x \in Fields : Knows(ipInfo, x) \/ x \notin {"ASN", "Org"} =>
                  ipInfo'[x] = ipInfo[x]]_vars
  <2> SUFFICES ASSUME IInv, Next, ipInfo' # ipInfo
               PROVE  /\ ipInfo # Nil
                      /\ \A x \in Fields : Knows(ipInfo, x) \/ x \notin {"ASN", "Org"} =>
                           ipInfo'[x] = ipInfo[x]
    OBVIOUS
  <2>1. ApplyEntry
    BY WrittenByApplyEntry
  <2>2. /\ stage = "apply" /\ at <= Len(list)
        /\ list[at].info # Nil /\ ipInfo' = ApplyTo(ipInfo, list[at].info)
    BY <2>1 DEF ApplyEntry
  <2>3. list \in Seq(Entries) /\ at \in Nat \ {0} /\ ipInfo \in Answers /\ ipInfo # Nil
    BY <2>2 DEF IInv, Types, RecordSoFar
  <2>4. list[at] \in Entries
    BY <2>2, <2>3
  <2>5. list[at].info \in IpInfos /\ ipInfo \in IpInfos
    BY <2>2, <2>3, <2>4, NilIsNoRecord DEF Entries
  <2>6. QED
    BY <2>2, <2>3, <2>5, ApplyToFills DEF Knows
<1>2. QED
  BY <1>1, Invariance, PTL DEF Spec, KnownFieldsKept

-----------------------------------------------------------------------------
(***************************************************************************)
(* What a call returns. The loop over the orders stops one short of the     *)
(* last service's (FilledWhenAnyServiceKnows, which TLC refutes).           *)
(***************************************************************************)

FirstAnswer == answer["hackertarget"]

\* What the record becomes if the first service's answer alone is looked at.
FilledByFirst ==
  IF needsASNFallback(input) /\ FirstAnswer # Nil THEN ApplyTo(input, FirstAnswer) ELSE input

FilledInv ==
  /\ stage = "apply" =>
       \/ ipInfo = FilledByFirst
       \/ ipInfo = input /\ \A i \in DOMAIN list : Applied(i) => list[i].source # "hackertarget"
  /\ stage = "returned" => ipInfo = FilledByFirst

\* The same answer twice fills in no more than once.
LEMMA FillsOnce ==
  ASSUME NEW info \in IpInfos, NEW src \in IpInfos
  PROVE  ApplyTo(ApplyTo(info, src), src) = ApplyTo(info, src)
<1>1. /\ ApplyTo(info, src) \in IpInfos /\ ApplyTo(ApplyTo(info, src), src) \in IpInfos
      /\ \A x \in Fields \ {"ASN", "Org"} : ApplyTo(ApplyTo(info, src), src)[x] = ApplyTo(info, src)[x]
  BY ApplyToFills
<1>2. /\ "ASN" \in Fields /\ "Org" \in Fields
      /\ info \in [Fields -> Nat] /\ src \in [Fields -> Nat] /\ ApplyTo(info, src) \in [Fields -> Nat]
  BY <1>1, FieldsAssumption DEF IpInfos
<1>3. \A r \in [Fields -> Nat] :
        /\ ApplyTo(r, src)["ASN"] = chooseString(r["ASN"], src["ASN"])
        /\ ApplyTo(r, src)["Org"] = chooseString(r["Org"], src["Org"])
  BY <1>2 DEF ApplyTo, FillASN
<1>4. \A x \in {"ASN", "Org"} : ApplyTo(ApplyTo(info, src), src)[x] = ApplyTo(info, src)[x]
  BY <1>2, <1>3 DEF chooseString
<1>5. \A x \in Fields : ApplyTo(ApplyTo(info, src), src)[x] = ApplyTo(info, src)[x]
  BY <1>1, <1>4
<1>6. QED
  BY <1>1, <1>5 DEF IpInfos

LEMMA ApplyEntryFilled == ASSUME IInv, FilledInv, ApplyEntry PROVE FilledInv'
<1> DEFINE entry == list[at]
           mine == asnOrderMap[entry.source] = order /\ entry.info # Nil
<1>1. /\ stage = "apply" /\ order < 2 /\ at <= Len(list) /\ at' = at + 1
      /\ UNCHANGED <<input, answer, list, order>> /\ stage' \in {"apply", "returned"}
      /\ \/ mine /\ ipInfo' = ApplyTo(ipInfo, entry.info)
         \/ ~mine /\ ipInfo' = ipInfo /\ stage' = stage
  BY OrderOf DEF ApplyEntry, workerVars
<1>2. /\ at \in DOMAIN list /\ at \in Nat /\ entry \in Entries /\ entry.info = answer[entry.source]
      /\ input \in IpInfos /\ needsASNFallback(input)
  BY <1>1, NilIsNoRecord DEF IInv, Types, EntriesKept, Honest, RecordSoFar, needsASNFallback, hasGeoInfo
<1>3. entry.source \in AsnServices /\ entry.info \in Answers
  BY <1>2 DEF Entries
<1>4. FilledByFirst' = FilledByFirst
  BY <1>1 DEF FilledByFirst, FirstAnswer
<1>5. CASE mine /\ ipInfo' = ApplyTo(ipInfo, entry.info)
  <2>1. entry.source = "hackertarget" /\ FirstAnswer = entry.info
    BY <1>1, <1>2, <1>3, <1>5, OrderOf DEF AsnServices, FirstAnswer
  <2>2. FirstAnswer \in IpInfos /\ FilledByFirst = ApplyTo(input, FirstAnswer)
    BY <1>2, <1>3, <1>5, <2>1, NilIsNoRecord DEF FilledByFirst
  <2>3. ipInfo' = FilledByFirst
    BY <1>1, <1>2, <1>5, <2>1, <2>2, FillsOnce DEF FilledInv
  <2>4. QED
    BY <1>4, <2>3 DEF FilledInv
<1>6. CASE ~mine /\ ipInfo' = ipInfo /\ stage' = stage
  <2>1. CASE entry.source = "hackertarget" /\ asnOrderMap[entry.source] = order
    <3>1. FirstAnswer = Nil /\ FilledByFirst = input
      BY <1>2, <1>6, <2>1 DEF FirstAnswer, FilledByFirst
    <3>2. QED
      BY <1>1, <1>4, <1>6, <3>1 DEF FilledInv
  <2>2. CASE entry.source # "hackertarget" \/ asnOrderMap[entry.source] # order
    <3>1. ASSUME NEW i \in DOMAIN list, Applied(i)' PROVE Applied(i) \/ (i = at /\ asnOrderMap[list[i].source] = order)
      BY <1>1, <1>2, <3>1 DEF Applied, IInv, Types
    <3>2. QED
      BY <1>1, <1>4, <1>6, <2>2, <3>1 DEF FilledInv
  <2>3. QED
    BY <2>1, <2>2
<1>7. QED
  BY <1>1, <1>5, <1>6

LEMMA NextFilled == IInv /\ FilledInv /\ [Next]_vars => FilledInv'
<1> SUFFICES ASSUME IInv, FilledInv, [Next]_vars PROVE FilledInv'
  OBVIOUS
<1>1. CASE NothingToDo
  BY <1>1 DEF NothingToDo, IInv, RecordSoFar, FilledInv, FilledByFirst
<1>2. CASE Launch \/ Close \/ Receive \/ \E s \in AsnServices : WorkerDone(s)
  <2>1. stage' = "range" \/ (stage' = stage /\ UNCHANGED <<input, ipInfo, answer, list, order, at>>)
    BY <1>2 DEF Launch, Close, Receive, WorkerDone, workerVars
  <2>2. CASE stage' = stage /\ UNCHANGED <<input, ipInfo, answer, list, order, at>>
    <3>1. FilledByFirst' = FilledByFirst /\ \A i \in DOMAIN list : Applied(i)' <=> Applied(i)
      BY <2>2 DEF FilledByFirst, FirstAnswer, Applied
    <3>2. QED
      BY <2>2, <3>1 DEF FilledInv
  <2>3. QED
    BY <2>1, <2>2 DEF FilledInv
<1>3. ASSUME NEW s \in AsnServices, NEW info, Deliver(s, info) PROVE FilledInv'
  BY <1>3 DEF Deliver, FilledInv, IInv, Types, Phases
<1>4. CASE RangeEnds
  <2>1. stage' = "apply" /\ UNCHANGED <<input, ipInfo, answer, list, order, at>> /\ ipInfo = input /\ order = 0 /\ at = 1
    BY <1>4 DEF RangeEnds, IInv, RecordSoFar, workerVars
  <2>2. \A i \in DOMAIN list : ~Applied(i)
    BY <2>1, NothingApplied DEF IInv, Types
  <2>3. \A i \in DOMAIN list : ~Applied(i)'
    BY <2>1, <2>2 DEF Applied
  <2>4. QED
    BY <2>1, <2>3 DEF FilledInv
<1>5. CASE ApplyEntry
  BY <1>5, ApplyEntryFilled
<1>6. CASE NextOrder
  <2>1. /\ stage = "apply" /\ stage' = stage /\ UNCHANGED <<input, ipInfo, answer, list>>
        /\ order' = order + 1 /\ at' = 1 /\ at > Len(list) /\ order \in Nat /\ list \in Seq(Entries)
    BY <1>6 DEF NextOrder, workerVars, IInv, Types
  <2>2. FilledByFirst' = FilledByFirst
    BY <2>1 DEF FilledByFirst, FirstAnswer
  <2>3. ASSUME NEW i \in DOMAIN list, Applied(i)' PROVE Applied(i)
    <3>1. i \in Nat /\ i >= 1 /\ i <= Len(list) /\ list[i] \in Entries
      BY <2>1
    <3>2. asnOrderMap[list[i].source] \in 1 .. 2
      BY <3>1, OrderOf DEF Entries
    <3>3. QED
      BY <2>1, <2>3, <3>1, <3>2 DEF Applied, IInv, Types
  <2>4. QED
    BY <2>1, <2>2, <2>3 DEF FilledInv
<1>7. CASE LoopsEnd
  <2>1. /\ stage = "apply" /\ stage' = "returned" /\ order >= 2
        /\ UNCHANGED <<input, ipInfo, answer, list, order, at>>
    BY <1>7, OrderOf DEF LoopsEnd, workerVars
  <2>2. PICK i \in DOMAIN list : list[i].source = "hackertarget"
    BY <2>1 DEF IInv, EntriesKept, Carries, AsnServices
  <2>3. Applied(i)
    BY <2>1, <2>2, OrderOf DEF Applied, IInv, Types
  <2>4. ipInfo = FilledByFirst
    BY <2>1, <2>2, <2>3 DEF FilledInv
  <2>5. QED
    BY <2>1, <2>4 DEF FilledInv, FilledByFirst, FirstAnswer
<1>8. CASE UNCHANGED vars
  <2>1. FilledByFirst' = FilledByFirst /\ \A i \in DOMAIN list : Applied(i)' <=> Applied(i)
    BY <1>8 DEF vars, FilledByFirst, FirstAnswer, Applied
  <2>2. QED
    BY <1>8, <2>1 DEF vars, FilledInv
<1>9. QED
  BY <1>1, <1>2, <1>3, <1>4, <1>5, <1>6, <1>7, <1>8 DEF Next

\* For any record and any answers the call returns the record filled in by the first
\* service alone: the second one is asked and waited for, and its answer is never used,
\* because the loop at baseinfo.go:307 stops before its order.
THEOREM OnlyTheFirstIsHeard == Spec => [](stage = "returned" => ipInfo = FilledByFirst)
<1>1. Init => FilledInv
  BY DEF Init, FilledInv
<1>2. Spec => []FilledInv
  BY <1>1, NextFilled, Invariance, PTL DEF Spec
<1>3. FilledInv => (stage = "returned" => ipInfo = FilledByFirst)
  BY DEF FilledInv
<1>4. QED
  BY <1>2, <1>3, PTL

------------------------------------------------------------------------------
(***************************************************************************)
(* The step IpCheck makes of the whole call.                                *)
(***************************************************************************)

\* What IpCheck's Fallback allows: each of the two fields is filled in or not, by one
\* service.
FilledAsIpCheckHasIt ==
  IF needsASNFallback(input)
  THEN \E asn, org \in {Blank, Voice["hackertarget"]} : ipInfo = FillASN(input, asn, org)
  ELSE ipInfo = input

AnswersAreReplies == \A s \in AsnServices : answer[s] \in Replies(s)

LEMMA NextAnswers == IInv /\ AnswersAreReplies /\ [Next]_vars => AnswersAreReplies'
<1> SUFFICES ASSUME IInv, AnswersAreReplies, [Next]_vars PROVE AnswersAreReplies'
  OBVIOUS
<1>1. ASSUME NEW s \in AsnServices, NEW info \in Replies(s), Deliver(s, info) PROVE AnswersAreReplies'
  <2>1. answer' = [answer EXCEPT ![s] = info] /\ answer \in [AsnServices -> Answers]
    BY <1>1 DEF Deliver, IInv, Types
  <2>2. \A t \in AsnServices : Replies(t)' = Replies(t)
    BY DEF Replies
  <2>3. QED
    BY <1>1, <2>1, <2>2 DEF AnswersAreReplies
<1>2. CASE UNCHANGED answer
  BY <1>2 DEF AnswersAreReplies, Replies
<1>3. QED
  BY <1>1, <1>2 DEF Next, vars, workerVars, NothingToDo, Launch, WorkerDone, Close, Receive, RangeEnds,
     ApplyEntry, NextOrder, LoopsEnd

\* A record that needs nothing more is what filling in blanks leaves.
LEMMA BlankFillsNothing == ASSUME NEW info \in IpInfos PROVE FillASN(info, Blank, Blank) = info
<1>1. info \in [Fields -> Nat] /\ "ASN" \in Fields /\ "Org" \in Fields
  BY FieldsAssumption DEF IpInfos
<1>2. \A v \in Nat : chooseString(v, Blank) = v
  BY DEF chooseString, Blank
<1>3. FillASN(info, Blank, Blank) =
        [info EXCEPT !["ASN"] = chooseString(info["ASN"], Blank), !["Org"] = chooseString(info["Org"], Blank)]
  BY <1>1 DEF FillASN
<1>4. QED
  BY <1>1, <1>2, <1>3

\* Whatever the services answer, the whole call does to the record what IpCheck's one step
\* Fallback may do to a family's result.
THEOREM FallbackIsOneStep == Spec => [](stage = "returned" => FilledAsIpCheckHasIt)
<1>1. Init => FilledInv /\ AnswersAreReplies
  BY DEF Init, FilledInv, AnswersAreReplies, Replies
<1>2. ASSUME IInv, FilledInv, AnswersAreReplies, stage = "returned" PROVE FilledAsIpCheckHasIt
  <2>1. ipInfo = FilledByFirst /\ FirstAnswer \in Replies("hackertarget") /\ FirstAnswer \in Answers
    BY <1>2 DEF FilledInv, AnswersAreReplies, FirstAnswer, AsnServices, IInv, Types
  <2>2. CASE ~needsASNFallback(input)
    BY <2>1, <2>2 DEF FilledAsIpCheckHasIt, FilledByFirst
  <2>3. CASE needsASNFallback(input) /\ FirstAnswer = Nil
    <3>1. input \in IpInfos
      BY <1>2, <2>3, NilIsNoRecord DEF IInv, Types, needsASNFallback, hasGeoInfo
    <3>2. ipInfo = FillASN(input, Blank, Blank)
      BY <2>1, <2>3, <3>1, BlankFillsNothing DEF FilledByFirst
    <3>3. QED
      BY <2>3, <3>2 DEF FilledAsIpCheckHasIt
  <2>4. CASE needsASNFallback(input) /\ FirstAnswer # Nil
    <3>1. PICK known \in Knowledge : FirstAnswer = Supplied(Voice["hackertarget"], known)
      BY <2>1, <2>4 DEF Replies
    <3>2. /\ FirstAnswer["ASN"] \in {Blank, Voice["hackertarget"]}
          /\ FirstAnswer["Org"] \in {Blank, Voice["hackertarget"]}
      BY <3>1, FieldsAssumption DEF Supplied
    <3>3. ipInfo = FillASN(input, FirstAnswer["ASN"], FirstAnswer["Org"])
      BY <2>1, <2>4 DEF FilledByFirst, ApplyTo
    <3>4. QED
      BY <2>4, <3>2, <3>3 DEF FilledAsIpCheckHasIt
  <2>5. QED
    BY <2>2, <2>3, <2>4
<1>3. Spec => [](IInv /\ FilledInv /\ AnswersAreReplies)
  BY <1>1, NextFilled, NextAnswers, Invariance, PTL DEF Spec
<1>4. QED
  BY <1>2, <1>3, PTL

-----------------------------------------------------------------------------
(***************************************************************************)
(* The call comes to an end: each step takes down what is left to do, and   *)
(* until it has returned somebody can make one.                             *)
(***************************************************************************)

Asking == {s \in AsnServices : worker[s] = "asking"}

StageLeft == [start |-> 3, range |-> 2, apply |-> 1, returned |-> 0]

\* What is left to do, the parts that later steps may raise again last.
Left == <<StageLeft[stage], Cardinality(Asking), Cardinality(Alive), Len(channel),
          IF closed THEN 0 ELSE 1, 2 - order, Len(list) + 1 - at>>

AtInv == at <= Len(list) + 1

\* The conditions under which some goroutine or the caller goes on: while the caller waits
\* for an answer, a service is being asked, a goroutine is about to end, the channel can be
\* closed, or there is something to receive or nothing more to wait for.
CanGoOn ==
  \/ stage \in {"start", "apply"}
  \/ stage = "range" /\ \/ Alive # {}
                        \/ wg = 0 /\ ~closed
                        \/ channel # <<>>
                        \/ channel = <<>> /\ closed

LEMMA AskingFinite == Asking \subseteq AsnServices /\ IsFiniteSet(Asking) /\ Cardinality(Asking) \in Nat
<1>1. Asking \subseteq Alive
  BY DEF Asking, Alive
<1>2. QED
  BY <1>1, AliveFinite, FS_Subset, FS_CardinalityType

LEMMA AliveSize == Cardinality(Alive) \in Nat
BY AliveFinite, FS_CardinalityType

LEMMA LeftIsNatural == IInv /\ AtInv => \A i \in 1 .. 7 : Left[i] \in Nat
<1> SUFFICES ASSUME IInv, AtInv PROVE \A i \in 1 .. 7 : Left[i] \in Nat
  OBVIOUS
<1>1. /\ Len(channel) \in Nat /\ Len(list) \in Nat /\ order \in 0 .. 2 /\ at \in Nat \ {0}
      /\ stage \in {"start", "range", "apply", "returned"}
  BY DEF IInv, Types
<1>2. StageLeft[stage] \in Nat /\ 2 - order \in Nat /\ Len(list) + 1 - at \in Nat
  BY <1>1 DEF AtInv, StageLeft
<1>3. /\ Left[1] \in Nat /\ Left[2] \in Nat /\ Left[3] \in Nat /\ Left[4] \in Nat
      /\ Left[5] \in Nat /\ Left[6] \in Nat /\ Left[7] \in Nat
  BY <1>1, <1>2, AskingFinite, AliveSize DEF Left
<1> HIDE DEF Left
<1>4. QED
  BY <1>3

\* A tuple whose first component that changes goes down is smaller.
LEMMA FirstDown ==
  ASSUME NEW a, NEW b, DOMAIN b = 1 .. 7, NEW i \in 1 .. 7, a[i] < b[i],
         \A j \in 1 .. (i - 1) : a[j] = b[j]
  PROVE  LexLess(a, b)
BY DEF LexLess

LEMMA LessByStage == ASSUME StageLeft[stage'] < StageLeft[stage] PROVE LexLess(Left', Left)
<1>1. DOMAIN Left = 1 .. 7 /\ Left'[1] < Left[1]
  BY DEF Left
<1>2. QED
  BY <1>1, FirstDown

LEMMA DeliverLess ==
  ASSUME IInv, NEW s \in AsnServices, NEW info, Deliver(s, info) PROVE LexLess(Left', Left)
<1>1. /\ worker[s] = "asking" /\ worker' = [worker EXCEPT ![s] = "sent"] /\ stage' = stage
      /\ worker \in [AsnServices -> {"idle", "asking", "sent", "done"}]
  BY DEF Deliver, IInv, Types
<1>2. Asking' = Asking \ {s} /\ s \in Asking
  BY <1>1 DEF Asking
<1>3. Cardinality(Asking') = Cardinality(Asking) - 1
  BY <1>2, AskingFinite, FS_RemoveElement
<1>4. DOMAIN Left = 1 .. 7 /\ Left'[2] < Left[2] /\ Left'[1] = Left[1]
  BY <1>1, <1>3, AskingFinite DEF Left
<1>5. QED
  BY <1>4, FirstDown

LEMMA WorkerDoneLess ==
  ASSUME IInv, NEW s \in AsnServices, WorkerDone(s) PROVE LexLess(Left', Left)
<1>1. /\ worker[s] = "sent" /\ worker' = [worker EXCEPT ![s] = "done"] /\ stage' = stage
      /\ worker \in [AsnServices -> {"idle", "asking", "sent", "done"}]
  BY DEF WorkerDone, IInv, Types
<1>2. Asking' = Asking /\ Alive' = Alive \ {s} /\ s \in Alive
  BY <1>1 DEF Asking, Alive
<1>3. Cardinality(Alive') = Cardinality(Alive) - 1
  BY <1>2, AliveFinite, FS_RemoveElement
<1>4. DOMAIN Left = 1 .. 7 /\ Left'[3] < Left[3] /\ Left'[1] = Left[1] /\ Left'[2] = Left[2]
  BY <1>1, <1>2, <1>3, AliveSize DEF Left
<1>5. QED
  BY <1>4, FirstDown

\* A step that leaves the goroutines where they are.
LEMMA SameGoroutines ==
  ASSUME UNCHANGED <<worker, stage>>
  PROVE  DOMAIN Left = 1 .. 7 /\ \A i \in 1 .. 3 : Left'[i] = Left[i]
<1>1. Asking' = Asking /\ Alive' = Alive
  BY DEF Asking, Alive
<1>2. QED
  BY <1>1 DEF Left

LEMMA CloseLess == ASSUME Close PROVE LexLess(Left', Left)
<1>1. UNCHANGED <<worker, stage, channel>> /\ ~closed /\ closed'
  BY DEF Close, workerVars
<1>2. Left'[5] < Left[5] /\ Left'[4] = Left[4]
  BY <1>1 DEF Left
<1>3. QED
  BY <1>1, <1>2, SameGoroutines, FirstDown

LEMMA ReceiveLess == ASSUME IInv, Receive PROVE LexLess(Left', Left)
<1>1. UNCHANGED <<worker, stage>> /\ channel # <<>> /\ channel' = Tail(channel) /\ channel \in Seq(Entries)
  BY DEF Receive, IInv, Types
<1>2. Len(channel') < Len(channel)
  BY <1>1
<1>3. Left'[4] < Left[4]
  BY <1>2 DEF Left
<1>4. QED
  BY <1>1, <1>3, SameGoroutines, FirstDown

LEMMA ApplyEntryLess == ASSUME IInv, ApplyEntry PROVE LexLess(Left', Left)
<1>1. /\ UNCHANGED <<worker, channel, closed, order, list>> /\ at' = at + 1 /\ stage = "apply"
      /\ stage' \in {"apply", "returned"} /\ Len(list) \in Nat /\ at \in Nat
  BY DEF ApplyEntry, workerVars, IInv, Types
<1>2. CASE stage' = "returned"
  BY <1>1, <1>2, LessByStage DEF StageLeft
<1>3. CASE stage' = "apply"
  <2>1. Left'[7] < Left[7] /\ \A i \in 4 .. 6 : Left'[i] = Left[i]
    BY <1>1 DEF Left
  <2>2. QED
    BY <1>1, <1>3, <2>1, SameGoroutines, FirstDown
<1>4. QED
  BY <1>1, <1>2, <1>3

LEMMA NextOrderLess == ASSUME IInv, NextOrder PROVE LexLess(Left', Left)
<1>1. UNCHANGED <<worker, channel, closed, stage>> /\ order' = order + 1 /\ order \in Nat
  BY DEF NextOrder, workerVars, IInv, Types
<1>2. Left'[6] < Left[6] /\ \A i \in 4 .. 5 : Left'[i] = Left[i]
  BY <1>1 DEF Left
<1>3. QED
  BY <1>1, <1>2, SameGoroutines, FirstDown

LEMMA NextLess == IInv /\ Next => LexLess(Left', Left)
<1>1. NothingToDo \/ Launch \/ RangeEnds \/ LoopsEnd => LexLess(Left', Left)
  BY LessByStage DEF NothingToDo, Launch, RangeEnds, LoopsEnd, StageLeft
<1>2. QED
  BY <1>1, DeliverLess, WorkerDoneLess, CloseLess, ReceiveLess, ApplyEntryLess, NextOrderLess DEF Next

LEMMA NextAt == IInv /\ AtInv /\ [Next]_vars => AtInv'
<1> SUFFICES ASSUME IInv, AtInv, [Next]_vars PROVE AtInv'
  OBVIOUS
<1>1. list \in Seq(Entries) /\ channel \in Seq(Entries) /\ at \in Nat
  BY DEF IInv, Types
<1>2. CASE Receive
  <2>1. Head(channel) \in Entries /\ list' = Append(list, Head(channel)) /\ at' = at
    BY <1>1, <1>2 DEF Receive
  <2>2. Len(list') = Len(list) + 1
    BY <1>1, <2>1
  <2>3. QED
    BY <1>1, <2>1, <2>2 DEF AtInv
<1>3. CASE ApplyEntry \/ NextOrder
  BY <1>1, <1>3 DEF ApplyEntry, NextOrder, AtInv
<1>4. CASE UNCHANGED <<list, at>>
  BY <1>4 DEF AtInv
<1>5. QED
  BY <1>2, <1>3, <1>4 DEF Next, vars, NothingToDo, Launch, Deliver, WorkerDone, Close, RangeEnds, LoopsEnd

\* Whatever the services answer and however the goroutines are scheduled, every step takes
\* down a tuple of naturals, and there is one to take until the call has returned: nobody
\* waits for a channel that is never closed or for a goroutine that is done.
THEOREM CallComesToAnEnd ==
  Spec => /\ [](\A i \in 1 .. 7 : Left[i] \in Nat)
          /\ [][LexLess(Left', Left)]_vars
          /\ [](stage # "returned" => CanGoOn)
<1>1. Init => AtInv
  BY DEF Init, AtInv
<1>2. IInv => (stage # "returned" => CanGoOn)
  <2>1. SUFFICES ASSUME IInv, stage = "range" PROVE Alive # {} \/ wg = 0
    BY DEF CanGoOn, IInv, Types
  <2>2. Alive = {} => Cardinality(Alive) = 0
    BY FS_EmptySet
  <2>3. QED
    BY <2>1, <2>2 DEF IInv, Phases
<1>3. QED
  BY <1>1, <1>2, NextAt, NextLess, LeftIsNatural, Invariance, PTL DEF Spec
=============================================================================
