---------------------------- MODULE IpCheckProofs ---------------------------
(***************************************************************************)
(* Proofs about IpCheck for any number of services, any set of call types    *)
(* and any knowledge the services may have.                                 *)
(***************************************************************************)
EXTENDS IpCheck, LexOrder, FiniteSetTheorems, TLAPS

USE NumServicesAssumption

-----------------------------------------------------------------------------
(***************************************************************************)
(* Queues of entries.                                                       *)
(***************************************************************************)

LEMMA AppendEntry ==
  ASSUME NEW q \in Seq(Entries), NEW e \in Entries
  PROVE  /\ Append(q, e) \in Seq(Entries)
         /\ Len(Append(q, e)) = Len(q) + 1
         /\ Len(q) \in Nat
         /\ \A i \in 1 .. Len(q) : Append(q, e)[i] = q[i]
         /\ Append(q, e)[Len(q) + 1] = e
  OBVIOUS

LEMMA TailEntry ==
  ASSUME NEW q \in Seq(Entries), q # <<>>
  PROVE  /\ Head(q) \in Entries /\ Head(q) = q[1]
         /\ Tail(q) \in Seq(Entries)
         /\ Len(q) \in Nat \ {0}
         /\ Len(Tail(q)) = Len(q) - 1
         /\ \A i \in 1 .. Len(q) - 1 : Tail(q)[i] = q[i + 1]
  OBVIOUS

LEMMA IntervalSize ==
  ASSUME NEW n \in Nat
  PROVE  IsFiniteSet(1 .. n) /\ Cardinality(1 .. n) = n
  BY FS_Interval

\* No two entries of q come from the same service.
Distinct(q) == \A i, j \in 1 .. Len(q) : q[i].source = q[j].source => i = j

\* A queue that holds at most one entry of each service, and none of s, has room.
LEMMA RoomForOneMore ==
  ASSUME NEW q \in Seq(Entries), Distinct(q),
         NEW s \in Services, \A i \in 1 .. Len(q) : q[i].source # s
  PROVE  Len(q) < NumServices
<1> DEFINE others == Services \ {s}
           src == [i \in 1 .. Len(q) |-> q[i].source]
<1>1. Len(q) \in Nat /\ \A i \in 1 .. Len(q) : q[i] \in Entries
  OBVIOUS
<1>2. src \in [1 .. Len(q) -> others]
  BY <1>1 DEF Entries
<1>3. IsFiniteSet(Services) /\ Cardinality(Services) = NumServices
  BY IntervalSize DEF Services
<1>4. IsFiniteSet(others) /\ Cardinality(others) = NumServices - 1
  BY <1>3, FS_RemoveElement
<1>5. IsFiniteSet(1 .. Len(q)) /\ Cardinality(1 .. Len(q)) = Len(q)
  BY <1>1, IntervalSize
<1>6. SUFFICES ASSUME NumServices - 1 < Len(q) PROVE FALSE
  BY <1>1
<1>7. \E i, j \in 1 .. Len(q) : i # j /\ src[i] = src[j]
  <2> HIDE DEF others, src
  <2> QED BY <1>2, <1>4, <1>5, <1>6, FS_PigeonHole
<1>8. QED
  BY <1>7 DEF Distinct

\* No entry of q comes from the service of an entry of r.
Separate(q, r) == \A i \in 1 .. Len(q), j \in 1 .. Len(r) : q[i].source # r[j].source

\* Moving the first entry of q to the end of r loses none and doubles none.
LEMMA MoveEntry ==
  ASSUME NEW q \in Seq(Entries), q # <<>>, NEW r \in Seq(Entries),
         NEW t, t = Tail(q), NEW a, a = Append(r, Head(q))
  PROVE  /\ t \in Seq(Entries) /\ a \in Seq(Entries)
         /\ Len(t) < Len(q)
         /\ Distinct(q) /\ Distinct(r) /\ Separate(q, r) =>
              Distinct(t) /\ Distinct(a) /\ Separate(t, a)
         /\ \A i \in 1 .. Len(t) : \E j \in 1 .. Len(q) : t[i] = q[j]
         /\ \A i \in 1 .. Len(a) : \/ \E j \in 1 .. Len(q) : a[i] = q[j]
                                   \/ \E j \in 1 .. Len(r) : a[i] = r[j]
         /\ \A s, info : Holds(q, s, info) \/ Holds(r, s, info) =>
              Holds(t, s, info) \/ Holds(a, s, info)
<1>1. /\ t \in Seq(Entries) /\ Head(q) \in Entries /\ Head(q) = q[1]
      /\ Len(q) \in Nat \ {0} /\ Len(t) = Len(q) - 1
      /\ \A i \in 1 .. Len(t) : t[i] = q[i + 1]
  BY TailEntry
<1>2. /\ a \in Seq(Entries) /\ Len(a) = Len(r) + 1 /\ Len(r) \in Nat
      /\ \A i \in 1 .. Len(r) : a[i] = r[i]
      /\ a[Len(a)] = q[1]
  BY <1>1, AppendEntry
<1> DEFINE lt == Len(t)
           la == Len(a)
<1>3. /\ \A i \in 1 .. lt : i + 1 \in 1 .. Len(q) /\ i + 1 # 1
      /\ \A i \in 1 .. la : i \in 1 .. Len(r) \/ i = la
      /\ 1 \in 1 .. Len(q) /\ la \in 1 .. la
      /\ \A i \in 1 .. Len(r) : i \in 1 .. la
  BY <1>1, <1>2
<1>4. \A i \in 1 .. Len(t) : \E j \in 1 .. Len(q) : t[i] = q[j]
  BY <1>1, <1>3
<1>5. \A i \in 1 .. Len(a) : \/ \E j \in 1 .. Len(q) : a[i] = q[j]
                             \/ \E j \in 1 .. Len(r) : a[i] = r[j]
  BY <1>2, <1>3
<1>6. ASSUME Distinct(q), Distinct(r), Separate(q, r)
      PROVE  Distinct(t) /\ Distinct(a) /\ Separate(t, a)
  <2>1. Distinct(t)
    <3>1. SUFFICES ASSUME NEW i \in 1 .. lt, NEW j \in 1 .. lt, t[i].source = t[j].source
                   PROVE  i = j
      BY DEF Distinct
    <3>2. i + 1 = j + 1
      BY <1>1, <1>3, <1>6, <3>1 DEF Distinct
    <3>3. QED
      BY <3>2
  <2>2. Distinct(a)
    BY <1>2, <1>3, <1>6 DEF Distinct, Separate
  <2>3. Separate(t, a)
    <3>1. SUFFICES ASSUME NEW i \in 1 .. lt, NEW j \in 1 .. la PROVE t[i].source # a[j].source
      BY DEF Separate
    <3>2. t[i] = q[i + 1] /\ i + 1 \in 1 .. Len(q) /\ i + 1 # 1
      BY <1>1, <1>3
    <3>3. CASE j \in 1 .. Len(r)
      BY <1>2, <1>6, <3>2, <3>3 DEF Separate
    <3>4. CASE j = la
      BY <1>2, <1>3, <1>6, <3>2, <3>4 DEF Distinct
    <3>5. QED
      BY <1>3, <3>3, <3>4
  <2>4. QED
    BY <2>1, <2>2, <2>3
<1>7. ASSUME NEW s, NEW info, Holds(q, s, info) \/ Holds(r, s, info)
      PROVE  Holds(t, s, info) \/ Holds(a, s, info)
  <2>1. CASE Holds(r, s, info)
    BY <1>2, <1>3, <2>1 DEF Holds
  <2>2. CASE Holds(q, s, info)
    <3>1. PICK i \in 1 .. Len(q) : q[i].source = s /\ q[i].info = info
      BY <2>2 DEF Holds
    <3>2. CASE i = 1
      BY <1>2, <1>3, <3>1, <3>2 DEF Holds
    <3>3. CASE i # 1
      <4>1. i - 1 \in 1 .. lt /\ (i - 1) + 1 = i
        BY <1>1, <3>3
      <4>2. t[i - 1] = q[i]
        BY <1>1, <4>1
      <4>3. QED
        BY <3>1, <4>1, <4>2 DEF Holds
    <3>4. QED
      BY <3>2, <3>3
  <2>3. QED
    BY <1>7, <2>1, <2>2
<1>8. QED
  BY <1>1, <1>2, <1>4, <1>5, <1>6, <1>7

-----------------------------------------------------------------------------
(***************************************************************************)
(* The merge.                                                               *)
(***************************************************************************)

LEMMA MergeTyped ==
  ASSUME NEW r \in IpInfos \cup {Nil}, NEW info \in IpInfos
  PROVE  MergeInto(r, info) \in IpInfos
  BY DEF MergeInto, CompareAndMergeIpInfo, chooseString, EmptyIpInfo, Blank, IpInfos

\* Merging the answer of a service that comes after all those of S.
LEMMA MergeNext ==
  ASSUME NEW ans \in [Services -> IpInfos \cup {Nil}],
         NEW S \in SUBSET Services,
         NEW s \in Services, \A p \in S : p < s,
         NEW r \in IpInfos \cup {Nil}, IsMergeOf(r, ans, S),
         ans[s] # Nil
  PROVE  IsMergeOf(MergeInto(r, ans[s]), ans, S \cup {s})
<1> DEFINE m == MergeInto(r, ans[s])
<1>1. ans[s] \in IpInfos
  OBVIOUS
<1>2. m \in IpInfos /\ m # Nil
  BY <1>1, MergeTyped, NilAssumption
<1>3. ASSUME NEW x \in Fields PROVE IsLastKnown(m[x], ans, S \cup {s}, x)
  <2>1. CASE Knows(ans[s], x)
    <3>1. m[x] = ans[s][x]
      BY <2>1 DEF MergeInto, CompareAndMergeIpInfo, chooseString, Knows
    <3>2. \A q \in S \cup {s} : q > s => ~Knows(ans[q], x)
      BY DEF Services
    <3>3. QED
      BY <2>1, <3>1, <3>2 DEF IsLastKnown
  <2>2. CASE ~Knows(ans[s], x)
    <3>1. m[x] = IF r = Nil THEN Blank ELSE r[x]
      BY <2>2 DEF MergeInto, CompareAndMergeIpInfo, chooseString, Knows, EmptyIpInfo
    <3>2. CASE r = Nil
      BY <2>2, <3>1, <3>2 DEF IsMergeOf, IsLastKnown, Knows
    <3>3. CASE r # Nil
      <4>1. IsLastKnown(r[x], ans, S, x)
        BY <3>3 DEF IsMergeOf
      <4>2. QED
        BY <2>2, <3>1, <3>3, <4>1 DEF IsLastKnown
    <3>4. QED
      BY <3>2, <3>3
  <2>3. QED
    BY <2>1, <2>2
<1>4. QED
  BY <1>2, <1>3 DEF IsMergeOf

\* A service without an answer changes nothing.
LEMMA MergeNone ==
  ASSUME NEW ans, NEW S, NEW s, NEW r, IsMergeOf(r, ans, S), ans[s] = Nil
  PROVE  IsMergeOf(r, ans, S \cup {s})
  BY DEF IsMergeOf, IsLastKnown, Knows

\* A merge as it stands, and a merge with blanks filled in, is a filled merge.
LEMMA MergeIsFilled ==
  ASSUME NEW ans, NEW S, NEW r, IsMergeOf(r, ans, S)
  PROVE  IsFilledMergeOf(r, ans, S)
  BY DEF IsMergeOf, IsFilledMergeOf

LEMMA FillIsFilled ==
  ASSUME NEW ans, NEW S, NEW r \in IpInfos \cup {Nil}, IsMergeOf(r, ans, S),
         needsASNFallback(r), NEW asn \in Nat, NEW org \in Nat
  PROVE  /\ FillASN(r, asn, org) \in IpInfos
         /\ IsFilledMergeOf(FillASN(r, asn, org), ans, S)
<1> USE FieldsAssumption, NilAssumption
<1> DEFINE m == FillASN(r, asn, org)
<1>1. r \in IpInfos /\ r # Nil /\ r["ASN"] = Blank
  BY DEF needsASNFallback, hasGeoInfo
<1>2. m \in IpInfos
  BY <1>1 DEF FillASN, chooseString, IpInfos, Blank
<1>3. LacksASN(ans, S)
  <2>1. PICK x \in GeoFields : r[x] # Blank
    BY DEF needsASNFallback, hasGeoInfo
  <2>2. IsLastKnown(r[x], ans, S, x) /\ IsLastKnown(r["ASN"], ans, S, "ASN")
    BY <1>1 DEF IsMergeOf
  <2>3. QED
    BY <1>1, <2>1, <2>2 DEF LacksASN, IsLastKnown, Knows
<1>4. ASSUME NEW x \in Fields
      PROVE  \/ m[x] = r[x]
             \/ x \in {"ASN", "Org"} /\ r[x] = Blank
  BY <1>1 DEF FillASN, chooseString, IpInfos
<1>5. QED
  BY <1>1, <1>2, <1>3, <1>4 DEF IsMergeOf, IsFilledMergeOf

-----------------------------------------------------------------------------
(***************************************************************************)
(* The invariant.                                                           *)
(***************************************************************************)

Finished(f, s) == worker[f][s] \in {"sent", "done"}

\* The goroutines the WaitGroup still waits for.
Pending == {t \in Families \X Services : worker[t[1]][t[2]] \in {"fetching", "sent"}}

CountInv == wg = Cardinality(Pending)

\* How far the goroutines, the closer and the caller are, relative to each other.
Drained(f) ==
  \/ stage \in {"merge", "fallback", "returned"}
  \/ stage = "range" /\ family = "ipv6" /\ f = "ipv4"

ControlInv ==
  /\ closer = "idle" <=> stage \in {"start", "failed"}
  /\ closer = "idle" => /\ family = "ipv4"
                        /\ \A f \in Families, s \in Services : worker[f][s] = "idle"
  /\ closer \in {"closedV4", "closedBoth"} =>
       \A f \in Families, s \in Services : worker[f][s] \in {"idle", "done"}
  /\ \A f \in Families : Drained(f) => Closed(f) /\ channel[f] = <<>>
  /\ \A f \in Families, s \in Services :
       worker[f][s] \in {"idle", "fetching"} => answer[f][s] = Nil

\* An entry is the answer of a service that has answered; a family's entries, in
\* its channel and its list together, come from different services.
Genuine(f, e) == Finished(f, e.source) /\ e.info = answer[f][e.source]

QueueInv ==
  \A f \in Families :
    /\ Distinct(channel[f])
    /\ Distinct(list[f])
    /\ Separate(channel[f], list[f])
    /\ \A i \in 1 .. Len(channel[f]) : Genuine(f, channel[f][i])
    /\ \A i \in 1 .. Len(list[f]) : Genuine(f, list[f][i])

\* The services whose answers the nested loops have merged so far.
Merged == {s \in Services : \/ s < order
                            \/ /\ s = order
                               /\ \E i \in 1 .. Len(list[family]) :
                                    i < at /\ list[family][i].source = s}

ResultInv ==
  /\ stage \in {"start", "failed", "range"} => \A f \in Families : result[f] = Nil
  /\ stage # "merge" => order = 1
  /\ stage # "merge" \/ order > NumServices => at = 1
  /\ stage = "merge" =>
       /\ IsMergeOf(result[family], answer[family], Merged)
       /\ family = "ipv6" => IsMergeOf(result["ipv4"], answer["ipv4"], Services)
       /\ family = "ipv4" => result["ipv6"] = Nil
  /\ stage = "fallback" =>
       /\ IsMergeOf(result["ipv6"], answer["ipv6"], Services)
       /\ IF family = "ipv4" THEN IsMergeOf(result["ipv4"], answer["ipv4"], Services)
                             ELSE IsFilledMergeOf(result["ipv4"], answer["ipv4"], Services)
  /\ ResultInServiceOrder

IInv == TypeOK /\ CountInv /\ ControlInv /\ QueueInv /\ NoAnswerDropped /\ ResultInv

-----------------------------------------------------------------------------
(***************************************************************************)
(* The goroutines that are counted.                                         *)
(***************************************************************************)

LEMMA ServicesFinite ==
  /\ IsFiniteSet(Families \X Services)
  /\ Cardinality(Families \X Services) = 2 * NumServices
  /\ \A f \in Families : /\ IsFiniteSet({f} \X Services)
                         /\ Cardinality({f} \X Services) = NumServices
<1>1. IsFiniteSet(Services) /\ Cardinality(Services) = NumServices
  BY IntervalSize DEF Services
<1>2. \A x : IsFiniteSet({x}) /\ Cardinality({x}) = 1
  BY FS_Singleton
<1>3. IsFiniteSet(Families) /\ Cardinality(Families) = 2
  <2>1. Families = {"ipv4"} \cup {"ipv6"}
    BY DEF Families
  <2>2. /\ IsFiniteSet({"ipv4"} \cup {"ipv6"})
        /\ Cardinality({"ipv4"} \cup {"ipv6"}) =
             IF "ipv6" \in {"ipv4"} THEN Cardinality({"ipv4"}) ELSE Cardinality({"ipv4"}) + 1
    <3>1. IsFiniteSet({"ipv4"})
      BY <1>2
    <3>2. QED
      BY ONLY <3>1, FS_AddElement, ZenonT(30)
  <2>3. Cardinality({"ipv4"}) = 1
    BY <1>2
  <2>4. QED
    BY <2>1, <2>2, <2>3
<1>4. /\ IsFiniteSet(Families \X Services)
      /\ Cardinality(Families \X Services) = 2 * NumServices
  BY <1>1, <1>3, FS_Product
<1>5. ASSUME NEW f \in Families
      PROVE  IsFiniteSet({f} \X Services) /\ Cardinality({f} \X Services) = NumServices
  <2>1. /\ IsFiniteSet({f} \X Services)
        /\ Cardinality({f} \X Services) = Cardinality({f}) * Cardinality(Services)
    <3>1. IsFiniteSet({f})
      BY <1>2
    <3>2. QED
      BY <1>1, <3>1, FS_Product
  <2>2. Cardinality({f}) = 1
    BY <1>2
  <2>3. QED
    BY <1>1, <2>1, <2>2
<1>6. QED
  BY <1>4, <1>5

\* wg.Add is given exactly the number of goroutines that are started.
LEMMA AnnouncedIsAsked ==
  ASSUME NEW ct, Asked(ct) # {}
  PROVE  /\ Asked(ct) \subseteq Families
         /\ Cardinality(Asked(ct) \X Services) = Announced(ct)
         /\ Announced(ct) \in Nat
<1>1. CASE ct = "both"
  <2>1. Asked(ct) = Families
    BY <1>1 DEF Asked, Families
  <2>2. Announced(ct) = NumServices * 2
    BY <1>1 DEF Announced
  <2>3. QED
    BY <2>1, <2>2, ServicesFinite
<1>2. CASE ct # "both"
  <2>1. ct \in Families /\ Asked(ct) = {ct} /\ Announced(ct) = NumServices
    BY <1>2 DEF Asked, Announced
  <2>2. QED
    BY <2>1, ServicesFinite
<1>3. QED
  BY <1>1, <1>2

LEMMA PendingFinite == IsFiniteSet(Pending) /\ Cardinality(Pending) \in Nat
<1>1. Pending \in SUBSET (Families \X Services)
  BY DEF Pending
<1>2. QED
  BY <1>1, ServicesFinite, FS_Subset, FS_CardinalityType

-----------------------------------------------------------------------------
(***************************************************************************)
(* Every step preserves the invariant.                                      *)
(***************************************************************************)

LEMMA InitIInv == Init => IInv
<1> SUFFICES ASSUME Init PROVE IInv
  OBVIOUS
<1> USE DEF Init, ForEach
<1>1. TypeOK
  BY DEF TypeOK, WorkerStates, Stages, Families, ChannelCap
<1>2. CountInv
  <2>1. Pending = {}
    BY DEF Pending
  <2>2. QED
    BY <2>1, FS_EmptySet DEF CountInv
<1>3. ControlInv
  BY DEF ControlInv, Drained
<1>4. QueueInv
  BY DEF QueueInv, Distinct, Separate
<1>5. NoAnswerDropped
  BY DEF NoAnswerDropped
<1>6. ResultInv
  BY DEF ResultInv, ResultInServiceOrder
<1>7. QED
  BY <1>1, <1>2, <1>3, <1>4, <1>5, <1>6 DEF IInv

LEMMA LaunchIInv == ASSUME IInv, NEW ct \in CheckTypes, Launch(ct) PROVE IInv'
<1> USE DEF Launch
<1>1. /\ closer = "idle"
      /\ \A f \in Families, s \in Services : worker[f][s] = "idle" /\ answer[f][s] = Nil
  BY DEF IInv, ControlInv
<1>2. \A f \in Families : channel[f] = <<>> /\ list[f] = <<>>
  <2>1. \A f \in Families, e \in Entries : ~Genuine(f, e)
    BY <1>1 DEF Genuine, Finished, Entries
  <2>2. SUFFICES ASSUME NEW f \in Families PROVE channel[f] = <<>> /\ list[f] = <<>>
    OBVIOUS
  <2>3. channel[f] \in Seq(Entries) /\ list[f] \in Seq(Entries)
    BY DEF IInv, TypeOK
  <2>4. /\ \A i \in 1 .. Len(channel[f]) : Genuine(f, channel[f][i])
        /\ \A i \in 1 .. Len(list[f]) : Genuine(f, list[f][i])
    BY DEF IInv, QueueInv
  <2>5. ASSUME NEW q \in Seq(Entries), \A i \in 1 .. Len(q) : Genuine(f, q[i])
        PROVE  q = <<>>
    <3>1. 1 \notin 1 .. Len(q)
      BY <2>1, <2>5
    <3>2. QED
      BY <3>1
  <2>6. QED
    BY <2>3, <2>4, <2>5
<1>3. worker' \in [Families -> [Services -> WorkerStates]]
  BY DEF WorkerStates
<1>4. TypeOK'
  BY <1>3, AnnouncedIsAsked DEF IInv, TypeOK, Stages
<1>5. CountInv'
  <2>1. Pending' = Asked(ct) \X Services
    BY AnnouncedIsAsked DEF Pending
  <2>2. QED
    BY <2>1, AnnouncedIsAsked DEF CountInv
<1>6. ControlInv'
  BY <1>1, <1>2 DEF IInv, ControlInv, Drained, TypeOK, Families
<1>7. QueueInv'
  BY <1>2 DEF QueueInv, Distinct, Separate
<1>8. NoAnswerDropped'
  BY DEF NoAnswerDropped
<1>9. ResultInv'
  BY DEF IInv, ResultInv, ResultInServiceOrder
<1>10. QED
  BY <1>4, <1>5, <1>6, <1>7, <1>8, <1>9 DEF IInv

\* A step of the caller, or of the closer, that touches neither goroutine nor queue.
LEMMA QueuesUntouched ==
  ASSUME IInv, UNCHANGED <<workerVars, list>>
  PROVE  CountInv' /\ QueueInv' /\ NoAnswerDropped'
<1> USE DEF workerVars
<1>1. CountInv'
  BY DEF IInv, CountInv, Pending
<1>2. QueueInv'
  BY DEF IInv, QueueInv, Distinct, Genuine, Finished
<1>3. NoAnswerDropped'
  BY DEF IInv, NoAnswerDropped, Holds
<1>4. QED
  BY <1>1, <1>2, <1>3

\* A step of a goroutine or of the closer, which the caller's results do not see.
LEMMA ResultsUntouched ==
  ASSUME IInv, UNCHANGED <<answer, callerVars>>
  PROVE  ResultInv'
  BY DEF IInv, callerVars, ResultInv, ResultInServiceOrder, Merged

LEMMA RejectIInv == ASSUME IInv, NEW ct \in CheckTypes, Reject(ct) PROVE IInv'
<1> USE DEF Reject, workerVars
<1>1. TypeOK'
  BY DEF IInv, TypeOK, Stages
<1>2. CountInv' /\ QueueInv' /\ NoAnswerDropped'
  BY QueuesUntouched
<1>3. ControlInv'
  BY DEF IInv, ControlInv, Drained, Closed
<1>4. ResultInv'
  BY DEF IInv, ResultInv, ResultInServiceOrder
<1>5. QED
  BY <1>1, <1>2, <1>3, <1>4 DEF IInv

LEMMA RepliesTyped == ASSUME NEW s \in Services PROVE Replies(s) \subseteq IpInfos \cup {Nil}
  BY DEF Replies, Supplied, IpInfos, Blank, Services

\* The offer finds room, so the entry is at the end of the channel.
LEMMA OfferAccepted ==
  ASSUME IInv, NEW f \in Families, NEW s \in Services, ~Finished(f, s), NEW e
  PROVE  Offer(channel[f], e) = Append(channel[f], e)
<1>1. channel[f] \in Seq(Entries) /\ Distinct(channel[f])
  BY DEF IInv, TypeOK, QueueInv
<1>2. \A i \in 1 .. Len(channel[f]) : channel[f][i].source # s
  BY DEF IInv, QueueInv, Genuine
<1>3. Len(channel[f]) < NumServices
  BY <1>1, <1>2, RoomForOneMore
<1>4. QED
  BY <1>3 DEF Offer, ChannelCap

LEMMA DeliverIInv ==
  ASSUME IInv, NEW f \in Families, NEW s \in Services, NEW info \in Replies(s),
         Deliver(f, s, info)
  PROVE  IInv'
<1> USE DEF Deliver, callerVars
<1> DEFINE e == [source |-> s, info |-> info]
           ch == channel[f]
<1>1. e \in Entries
  BY RepliesTyped DEF Entries
<1>2. ~Finished(f, s) /\ (closer \notin {"idle", "closedV4", "closedBoth"})
  BY DEF Finished, IInv, ControlInv
<1>3. /\ worker \in [Families -> [Services -> WorkerStates]]
      /\ answer \in [Families -> [Services -> IpInfos \cup {Nil}]]
      /\ channel \in [Families -> Seq(Entries)]
      /\ list \in [Families -> Seq(Entries)]
  BY DEF IInv, TypeOK
<1>4. channel' = [channel EXCEPT ![f] = Append(ch, e)]
  BY <1>2, OfferAccepted
<1>5. /\ Append(ch, e) \in Seq(Entries)
      /\ Len(Append(ch, e)) = Len(ch) + 1 /\ Len(ch) \in Nat
      /\ \A i \in 1 .. Len(ch) : Append(ch, e)[i] = ch[i]
      /\ Append(ch, e)[Len(ch) + 1] = e
  BY <1>1, <1>3, AppendEntry
<1>6. Len(ch) < NumServices
  <2>1. Distinct(ch) /\ \A i \in 1 .. Len(ch) : ch[i].source # s
    BY <1>2 DEF IInv, QueueInv, Genuine
  <2>2. QED
    BY <1>3, <2>1, RoomForOneMore
<1>7. /\ channel'[f] = Append(ch, e)
      /\ \A g \in Families \ {f} : channel'[g] = channel[g]
  BY <1>3, <1>4
<1>8. /\ worker'[f][s] = "sent" /\ answer'[f][s] = info
      /\ \A g \in Families, t \in Services : <<g, t>> # <<f, s>> =>
           worker'[g][t] = worker[g][t] /\ answer'[g][t] = answer[g][t]
  BY <1>3
<1> HIDE DEF e
<1>t. TypeOK'
  <2>1. worker' \in [Families -> [Services -> WorkerStates]]
    BY <1>3 DEF WorkerStates
  <2>2. answer' \in [Families -> [Services -> IpInfos \cup {Nil}]]
    BY <1>3, RepliesTyped
  <2>3. /\ channel' \in [Families -> Seq(Entries)]
        /\ \A g \in Families : Len(channel'[g]) <= ChannelCap
    <3>1. channel' \in [Families -> Seq(Entries)]
      BY <1>3, <1>4, <1>5
    <3>2. \A g \in Families : Len(channel'[g]) <= ChannelCap
      BY <1>5, <1>6, <1>7 DEF IInv, TypeOK, ChannelCap
    <3>3. QED
      BY <3>1, <3>2
  <2>4. QED
    BY <2>1, <2>2, <2>3 DEF IInv, TypeOK
<1>c. CountInv'
  <2>1. Pending' = Pending
    BY <1>8 DEF Pending
  <2>2. QED
    BY <2>1 DEF IInv, CountInv
<1>l. ControlInv'
  <2>1. \A g \in Families : ~Drained(g)
    BY <1>2 DEF IInv, ControlInv, Closed
  <2>2. QED
    BY <1>2, <1>8, <2>1 DEF IInv, ControlInv, Drained
<1>q. QueueInv'
  <2>1. \A g \in Families, d \in Entries :
          Genuine(g, d) => Genuine(g, d)' /\ <<g, d.source>> # <<f, s>>
    BY <1>2, <1>8 DEF Genuine, Finished, Entries
  <2>3. \A g \in Families : /\ \A i \in 1 .. Len(channel[g]) : channel[g][i] \in Entries
                            /\ \A i \in 1 .. Len(list[g]) : list[g][i] \in Entries
    BY <1>3
  <2>4. e.source = s
    BY DEF e
  <2>5. \A g \in Families : list'[g] = list[g]
    OBVIOUS
  <2>6. ASSUME NEW g \in Families \ {f} PROVE QueueInv!(g)'
    BY <1>7, <2>1, <2>3, <2>5 DEF IInv, QueueInv, Distinct
  <2>7. QueueInv!(f)'
    <3>1. Distinct(Append(ch, e))
      BY <1>5, <2>1, <2>3, <2>4 DEF IInv, QueueInv, Distinct, Separate
    <3>2. \A i \in 1 .. Len(ch) + 1, j \in 1 .. Len(list[f]) :
            Append(ch, e)[i].source # list[f][j].source
      BY <1>5, <2>1, <2>3, <2>4 DEF IInv, QueueInv, Separate
    <3>3. \A i \in 1 .. Len(channel'[f]) : Genuine(f, channel[f][i])'
      <4>1. SUFFICES ASSUME NEW i \in 1 .. Len(channel'[f]) PROVE Genuine(f, channel[f][i])'
        OBVIOUS
      <4>2. CASE i = Len(ch) + 1
        <5>1. channel'[f][i] = e
          BY <1>5, <1>7, <4>2
        <5>2. QED
          BY <1>8, <5>1 DEF Genuine, Finished, e
      <4>3. CASE i \in 1 .. Len(ch)
        <5>1. channel'[f][i] = ch[i] /\ Genuine(f, ch[i]) /\ ch[i] \in Entries
          BY <1>5, <1>7, <2>3, <4>3 DEF IInv, QueueInv
        <5>2. ch[i].source # s /\ ch[i].source \in Services
          BY <1>2, <5>1 DEF Genuine, Entries
        <5>3. QED
          BY <1>8, <5>1, <5>2 DEF Genuine, Finished
      <4>4. QED
        BY <1>5, <1>7, <4>2, <4>3
    <3>4. \A j \in 1 .. Len(list'[f]) : Genuine(f, list[f][j])'
      BY <1>2, <1>8, <2>3, <2>5 DEF IInv, QueueInv, Genuine, Finished, Entries
    <3>5. Distinct(channel'[f])
      BY <1>7, <3>1
    <3>6. \A i \in 1 .. Len(channel'[f]), j \in 1 .. Len(list'[f]) :
            channel'[f][i].source # list'[f][j].source
      BY <1>5, <1>7, <2>5, <3>2
    <3>7. Distinct(list'[f])
      BY <2>5 DEF IInv, QueueInv
    <3>8. QED
      BY <3>3, <3>4, <3>5, <3>6, <3>7 DEF Separate
  <2>8. QED
    BY <2>6, <2>7 DEF QueueInv
<1>n. NoAnswerDropped'
  <2>1. SUFFICES ASSUME NEW g \in Families, NEW t \in Services,
                        worker'[g][t] \in {"sent", "done"}
                 PROVE  \/ Holds(channel'[g], t, answer'[g][t])
                        \/ Holds(list[g], t, answer'[g][t])
    BY DEF NoAnswerDropped
  <2>2. CASE <<g, t>> = <<f, s>>
    BY <1>5, <1>7, <1>8, <2>2 DEF Holds, e
  <2>3. CASE <<g, t>> # <<f, s>>
    <3>1. Holds(channel[g], t, answer[g][t]) \/ Holds(list[g], t, answer[g][t])
      BY <1>8, <2>1, <2>3 DEF IInv, NoAnswerDropped
    <3>2. Holds(channel[g], t, answer[g][t]) => Holds(channel'[g], t, answer[g][t])
      BY <1>5, <1>7 DEF Holds
    <3>3. QED
      BY <1>8, <2>3, <3>1, <3>2
  <2>4. QED
    BY <2>2, <2>3
<1>r. ResultInv'
  <2>1. stage \in {"range"} /\ stage' = stage
    BY <1>2 DEF IInv, ControlInv, TypeOK, Stages, Drained, Closed
  <2>2. QED
    BY <2>1 DEF IInv, ResultInv, ResultInServiceOrder
<1>z. QED
  BY <1>t, <1>c, <1>l, <1>q, <1>n, <1>r DEF IInv

LEMMA WorkerDoneIInv ==
  ASSUME IInv, NEW f \in Families, NEW s \in Services, WorkerDone(f, s)
  PROVE  IInv'
<1> USE DEF WorkerDone, callerVars
<1>1. worker \in [Families -> [Services -> WorkerStates]]
  BY DEF IInv, TypeOK
<1>2. /\ worker'[f][s] = "done"
      /\ \A g \in Families, t \in Services :
           <<g, t>> # <<f, s>> => worker'[g][t] = worker[g][t]
  BY <1>1
<1>3. \A g \in Families, t \in Services : Finished(g, t)' <=> Finished(g, t)
  BY <1>2 DEF Finished
<1>4. Pending' = Pending \ {<<f, s>>} /\ <<f, s>> \in Pending
  BY <1>2 DEF Pending
<1>5. Cardinality(Pending') = Cardinality(Pending) - 1 /\ Cardinality(Pending') \in Nat
  <2>1. Cardinality(Pending \ {<<f, s>>}) =
          IF <<f, s>> \in Pending THEN Cardinality(Pending) - 1 ELSE Cardinality(Pending)
    BY PendingFinite, FS_RemoveElement
  <2>2. IsFiniteSet(Pending \ {<<f, s>>})
    BY PendingFinite, FS_RemoveElement
  <2>3. Cardinality(Pending \ {<<f, s>>}) \in Nat
    BY <2>2, FS_CardinalityType
  <2>4. QED
    BY <1>4, <2>1, <2>3
<1>t. TypeOK'
  <2>1. worker' \in [Families -> [Services -> WorkerStates]]
    BY <1>1 DEF WorkerStates
  <2>2. wg' \in Nat
    BY <1>5 DEF IInv, CountInv
  <2>3. QED
    BY <2>1, <2>2 DEF IInv, TypeOK
<1>c. CountInv'
  BY <1>5 DEF IInv, CountInv
<1>l. ControlInv'
  BY <1>2 DEF IInv, ControlInv, Drained, Closed
<1>q. QueueInv'
  <2>1. /\ \A g \in Families : /\ \A i \in 1 .. Len(channel[g]) : channel[g][i] \in Entries
                               /\ \A i \in 1 .. Len(list[g]) : list[g][i] \in Entries
    BY DEF IInv, TypeOK
  <2>2. \A g \in Families, d \in Entries : Genuine(g, d) => Genuine(g, d)'
    BY <1>3 DEF Genuine, Entries
  <2>3. QED
    BY <2>1, <2>2 DEF IInv, QueueInv, Distinct
<1>n. NoAnswerDropped'
  BY <1>3 DEF IInv, NoAnswerDropped, Holds, Finished
<1>r. ResultInv'
  BY ResultsUntouched DEF callerVars
<1>z. QED
  BY <1>t, <1>c, <1>l, <1>q, <1>n, <1>r DEF IInv

\* The WaitGroup's counter is zero only when no goroutine is counted any more.
LEMMA CloseV4IInv == ASSUME IInv, CloseV4 PROVE IInv'
<1> USE DEF CloseV4, workerVars
<1>1. Pending = {}
  BY PendingFinite, FS_EmptySet DEF IInv, CountInv
<1>t. TypeOK'
  BY DEF IInv, TypeOK, callerVars
<1>q. CountInv' /\ QueueInv' /\ NoAnswerDropped'
  BY QueuesUntouched DEF callerVars
<1>l. ControlInv'
  <2>1. \A f \in Families, s \in Services : worker[f][s] \in {"idle", "done"}
    <3>1. SUFFICES ASSUME NEW f \in Families, NEW s \in Services
                   PROVE  worker[f][s] \in {"idle", "done"}
      OBVIOUS
    <3>2. worker[f][s] \notin {"fetching", "sent"}
      <4>1. <<f, s>> \notin Pending
        BY <1>1
      <4>2. QED
        BY <4>1 DEF Pending
    <3>3. QED
      BY <3>2 DEF IInv, TypeOK, WorkerStates
  <2>2. QED
    BY <2>1 DEF IInv, ControlInv, Drained, Closed, callerVars
<1>r. ResultInv'
  BY ResultsUntouched
<1>z. QED
  BY <1>t, <1>l, <1>q, <1>r DEF IInv

LEMMA CloseV6IInv == ASSUME IInv, CloseV6 PROVE IInv'
<1> USE DEF CloseV6, workerVars
<1>t. TypeOK'
  BY DEF IInv, TypeOK, callerVars
<1>q. CountInv' /\ QueueInv' /\ NoAnswerDropped'
  BY QueuesUntouched DEF callerVars
<1>l. ControlInv'
  BY DEF IInv, ControlInv, Drained, Closed, callerVars
<1>r. ResultInv'
  BY ResultsUntouched
<1>z. QED
  BY <1>t, <1>l, <1>q, <1>r DEF IInv

LEMMA ReceiveIInv == ASSUME IInv, Receive PROVE IInv'
<1>1. PICK f \in Families : f = family
  BY DEF IInv, TypeOK
<1>2. /\ channel[f] \in Seq(Entries) /\ channel[f] # <<>> /\ list[f] \in Seq(Entries)
      /\ channel'[f] = Tail(channel[f])
      /\ list'[f] = Append(list[f], Head(channel[f]))
      /\ \A g \in Families \ {f} : channel'[g] = channel[g] /\ list'[g] = list[g]
      /\ channel' = [channel EXCEPT ![f] = channel'[f]]
      /\ list' = [list EXCEPT ![f] = list'[f]]
  BY <1>1 DEF IInv, TypeOK, Receive
<1>3. /\ channel'[f] \in Seq(Entries) /\ list'[f] \in Seq(Entries)
      /\ Len(channel'[f]) < Len(channel[f])
      /\ Distinct(channel[f]) /\ Distinct(list[f]) /\ Separate(channel[f], list[f]) =>
           Distinct(channel'[f]) /\ Distinct(list'[f]) /\ Separate(channel'[f], list'[f])
      /\ \A i \in 1 .. Len(channel'[f]) : \E j \in 1 .. Len(channel[f]) :
           channel'[f][i] = channel[f][j]
      /\ \A i \in 1 .. Len(list'[f]) :
           \/ \E j \in 1 .. Len(channel[f]) : list'[f][i] = channel[f][j]
           \/ \E j \in 1 .. Len(list[f]) : list'[f][i] = list[f][j]
      /\ \A s, info : Holds(channel[f], s, info) \/ Holds(list[f], s, info) =>
           Holds(channel'[f], s, info) \/ Holds(list'[f], s, info)
  BY <1>2, MoveEntry
<1>4. UNCHANGED <<checkType, worker, answer, wg, closer, stage, family, order, at, result>>
  BY DEF Receive
<1>t. TypeOK'
  <2>1. channel' \in [Families -> Seq(Entries)] /\ list' \in [Families -> Seq(Entries)]
    BY <1>2, <1>3 DEF IInv, TypeOK
  <2>2. \A g \in Families : Len(channel'[g]) <= ChannelCap
    <3>1. Len(channel[f]) \in Nat /\ Len(channel'[f]) \in Nat
      BY <1>2, <1>3
    <3>2. \A g \in Families : Len(channel[g]) <= NumServices
      BY DEF IInv, TypeOK, ChannelCap
    <3>3. Len(channel'[f]) <= NumServices
      <4>1. Len(channel'[f]) < Len(channel[f])
        BY <1>3
      <4>2. QED
        BY <3>1, <3>2, <4>1
    <3>4. \A g \in Families \ {f} : channel'[g] = channel[g]
      BY <1>2
    <3>5. QED
      BY <3>2, <3>3, <3>4 DEF ChannelCap
  <2>3. QED
    BY <1>4, <2>1, <2>2 DEF IInv, TypeOK
<1>c. CountInv'
  BY <1>4 DEF IInv, CountInv, Pending
<1>l. ControlInv'
  <2>1. stage = "range"
    BY DEF Receive
  <2>2. \A g \in Families : Drained(g) => g # f
    BY <1>1, <2>1 DEF Drained
  <2>3. QED
    BY <1>2, <1>4, <2>1, <2>2 DEF IInv, ControlInv, Drained, Closed
<1>q. QueueInv'
  <2>1. ASSUME NEW g \in Families \ {f} PROVE QueueInv!(g)'
    <3>1. channel'[g] = channel[g] /\ list'[g] = list[g]
      BY <1>2
    <3>2. QueueInv!(g)
      BY DEF IInv, QueueInv
    <3>3. \A e : Genuine(g, e) <=> Finished(g, e.source)' /\ e.info = answer'[g][e.source]
      BY <1>4 DEF Genuine, Finished
    <3>4. QED
      BY <3>1, <3>2, <3>3 DEF Genuine
  <2>2. QueueInv!(f)'
    <3>1. /\ \A i \in 1 .. Len(channel[f]) : Genuine(f, channel[f][i])
          /\ \A i \in 1 .. Len(list[f]) : Genuine(f, list[f][i])
          /\ Distinct(channel[f]) /\ Distinct(list[f]) /\ Separate(channel[f], list[f])
      BY DEF IInv, QueueInv
    <3>2. \A i \in 1 .. Len(channel'[f]) : Genuine(f, channel[f][i])'
      <4>1. SUFFICES ASSUME NEW i \in 1 .. Len(channel'[f]) PROVE Genuine(f, channel[f][i])'
        OBVIOUS
      <4>2. PICK j \in 1 .. Len(channel[f]) : channel'[f][i] = channel[f][j]
        BY <1>3
      <4>3. QED
        BY <1>4, <3>1, <4>2 DEF Genuine, Finished
    <3>3. \A i \in 1 .. Len(list'[f]) : Genuine(f, list[f][i])'
      <4>1. SUFFICES ASSUME NEW i \in 1 .. Len(list'[f]) PROVE Genuine(f, list[f][i])'
        OBVIOUS
      <4>2. \/ \E j \in 1 .. Len(channel[f]) : list'[f][i] = channel[f][j]
            \/ \E j \in 1 .. Len(list[f]) : list'[f][i] = list[f][j]
        BY <1>3
      <4>3. QED
        BY <1>4, <3>1, <4>2 DEF Genuine, Finished
    <3>4. QED
      BY <1>3, <3>1, <3>2, <3>3
  <2>3. QED
    BY <2>1, <2>2 DEF QueueInv
<1>n. NoAnswerDropped'
  BY <1>2, <1>3, <1>4 DEF IInv, NoAnswerDropped
<1>r. ResultInv'
  <2>1. stage = "range"
    BY DEF Receive
  <2>2. QED
    BY <1>4, <2>1 DEF IInv, ResultInv, ResultInServiceOrder
<1>z. QED
  BY <1>t, <1>c, <1>l, <1>q, <1>n, <1>r DEF IInv

LEMMA RangeEndsIInv == ASSUME IInv, RangeEnds PROVE IInv'
<1> USE DEF RangeEnds, NextFamily, FollowingStage
<1>1. /\ stage = "range" /\ family \in Families /\ order = 1 /\ at = 1
      /\ \A f \in Families : result[f] = Nil
  BY DEF IInv, TypeOK, ResultInv
<1>t. TypeOK'
  BY <1>1 DEF IInv, TypeOK, Stages, Families, workerVars
<1>q. CountInv' /\ QueueInv' /\ NoAnswerDropped'
  BY QueuesUntouched
<1>l. ControlInv'
  <2>1. CASE family = "ipv4"
    BY <1>1, <2>1 DEF IInv, ControlInv, Drained, Closed, Families, workerVars
  <2>2. CASE family = "ipv6"
    <3>1. \A f \in Families : Closed(f) /\ channel[f] = <<>>
      BY <1>1, <2>2 DEF IInv, ControlInv, Drained, Closed, Families
    <3>2. stage' = "merge" /\ closer' = closer /\ channel' = channel
      BY <1>1, <2>2 DEF workerVars
    <3>3. closer # "idle"
      BY <1>1 DEF IInv, ControlInv
    <3>4. \A f \in Families : Drained(f)' => Closed(f)' /\ channel'[f] = <<>>
      BY <3>1, <3>2 DEF Closed
    <3>5. QED
      BY <3>2, <3>3, <3>4 DEF IInv, ControlInv, workerVars
  <2>3. QED
    BY <1>1, <2>1, <2>2 DEF Families
<1>r. ResultInv'
  <2>1. CASE stage' = "range"
    BY <1>1, <2>1 DEF IInv, ResultInv, ResultInServiceOrder
  <2>2. CASE stage' = "merge"
    <3>1. family' = "ipv4" /\ result' = result /\ order' = 1 /\ at' = 1
      BY <1>1, <2>2
    <3>2. Merged' = {}
      BY <3>1 DEF Merged, Services
    <3>3. IsMergeOf(result'[family'], answer'[family'], Merged')
      BY <1>1, <3>1, <3>2 DEF IsMergeOf, Families
    <3>4. QED
      BY <1>1, <2>2, <3>1, <3>3 DEF ResultInv, ResultInServiceOrder, Families
  <2>3. QED
    BY <1>1, <2>1, <2>2
<1>z. QED
  BY <1>t, <1>q, <1>l, <1>r DEF IInv

\* Once the channels are drained they stay so.
LEMMA ChannelsStayDrained ==
  ASSUME IInv, UNCHANGED <<workerVars, closer>>,
         stage \in {"merge", "fallback"}, stage' \in {"merge", "fallback", "returned"}
  PROVE  ControlInv'
<1>1. /\ \A f \in Families : Drained(f)
      /\ closer' = closer /\ channel' = channel /\ worker' = worker /\ answer' = answer
  BY DEF Drained, workerVars
<1>2. closer # "idle"
  BY DEF IInv, ControlInv
<1>3. \A f \in Families : Closed(f)' /\ channel'[f] = <<>>
  BY <1>1 DEF IInv, ControlInv, Closed
<1>4. QED
  BY <1>1, <1>2, <1>3 DEF IInv, ControlInv

\* In the merge every answer is in the caller's list, and each service's only once.
LEMMA AllReceived ==
  ASSUME IInv, stage = "merge"
  PROVE  /\ Distinct(list[family])
         /\ \A i \in 1 .. Len(list[family]) :
              /\ list[family][i].source \in Services
              /\ list[family][i].info = answer[family][list[family][i].source]
         /\ \A s \in Services : answer[family][s] # Nil =>
              \E i \in 1 .. Len(list[family]) : list[family][i].source = s
<1>1. PICK f \in Families : f = family
  BY DEF IInv, TypeOK
<1>2. list[f] \in Seq(Entries)
  BY DEF IInv, TypeOK
<1>3. \A i \in 1 .. Len(list[f]) : list[f][i] \in Entries
  BY <1>2
<1>4. channel[f] = <<>>
  BY DEF IInv, ControlInv, Drained
<1>5. ASSUME NEW s \in Services, answer[f][s] # Nil
      PROVE  \E i \in 1 .. Len(list[f]) : list[f][i].source = s
  <2>1. worker[f][s] \in {"sent", "done"}
    BY <1>5 DEF IInv, ControlInv, TypeOK, WorkerStates
  <2>2. ~Holds(channel[f], s, answer[f][s])
    BY <1>4 DEF Holds
  <2>3. QED
    BY <2>1, <2>2 DEF IInv, NoAnswerDropped, Holds
<1>6. QED
  BY <1>1, <1>3, <1>5 DEF IInv, QueueInv, Genuine, Entries

LEMMA MergeEntryIInv == ASSUME IInv, MergeEntry PROVE IInv'
<1> USE DEF MergeEntry
<1> DEFINE entry == list[family][at]
           f == family
<1>1. /\ stage = "merge" /\ f \in Families
      /\ order \in Services /\ at \in Nat \ {0} /\ Len(list[f]) \in Nat
      /\ at \in 1 .. Len(list[f])
      /\ result \in [Families -> IpInfos \cup {Nil}]
      /\ answer[f] \in [Services -> IpInfos \cup {Nil}]
  BY DEF IInv, TypeOK, Services
<1>2. entry.source \in Services /\ entry.info = answer[f][entry.source] /\ Distinct(list[f])
  BY <1>1, AllReceived
<1>3. /\ stage' = stage /\ family' = family /\ order' = order /\ at' = at + 1
      /\ list' = list /\ answer' = answer
      /\ UNCHANGED <<checkType, workerVars, closer>>
  BY DEF workerVars
<1>4. IsMergeOf(result[f], answer[f], Merged)
  BY <1>1 DEF IInv, ResultInv
<1>5. result' \in [Families -> IpInfos \cup {Nil}]
  <2>1. CASE entry.source = order /\ entry.info # Nil
    <3>1. MergeInto(result[f], entry.info) \in IpInfos
      BY <1>1, <1>2, <2>1, MergeTyped
    <3>2. QED
      BY <1>1, <2>1, <3>1
  <2>2. CASE ~(entry.source = order /\ entry.info # Nil)
    BY <1>1, <2>2
  <2>3. QED
    BY <2>1, <2>2
<1>6. IsMergeOf(result'[f], answer[f], Merged')
  <2>1. CASE entry.source # order
    <3>1. Merged' = Merged
      BY <1>1, <1>3, <2>1 DEF Merged
    <3>2. QED
      BY <1>4, <2>1, <3>1
  <2>2. CASE entry.source = order
    <3>1. \A i \in 1 .. Len(list[f]) : list[f][i].source = order => i = at
      BY <1>1, <1>2, <2>2 DEF Distinct
    <3>2. Merged = {s \in Services : s < order}
      BY <1>1, <3>1 DEF Merged
    <3>3. Merged' = Merged \cup {order}
      BY <1>1, <1>3, <2>2, <3>2 DEF Merged
    <3>4. CASE entry.info = Nil
      BY <1>2, <1>4, <2>2, <3>3, <3>4, MergeNone
    <3>5. CASE entry.info # Nil
      <4>1. result'[f] = MergeInto(result[f], answer[f][order])
        BY <1>1, <1>2, <2>2, <3>5
      <4>2. result[f] \in IpInfos \cup {Nil} /\ answer[f][order] # Nil
        BY <1>1, <1>2, <2>2, <3>5
      <4>3. Merged \in SUBSET Services /\ \A p \in Merged : p < order
        BY <3>2
      <4>4. IsMergeOf(MergeInto(result[f], answer[f][order]), answer[f], Merged \cup {order})
        BY <1>1, <1>4, <4>2, <4>3, MergeNext
      <4>5. QED
        BY <3>3, <4>1, <4>4
    <3>6. QED
      BY <3>4, <3>5
  <2>3. QED
    BY <2>1, <2>2
<1>t. TypeOK'
  BY <1>1, <1>3, <1>5 DEF IInv, TypeOK, workerVars
<1>q. CountInv' /\ QueueInv' /\ NoAnswerDropped'
  BY <1>3, QueuesUntouched
<1>l. ControlInv'
  BY <1>1, <1>3, ChannelsStayDrained
<1>r. ResultInv'
  <2>1. \A g \in Families \ {f} : result'[g] = result[g]
    BY <1>1
  <2>2. /\ family = "ipv6" => IsMergeOf(result'["ipv4"], answer["ipv4"], Services)
        /\ family = "ipv4" => result'["ipv6"] = Nil
    BY <1>1, <2>1 DEF IInv, ResultInv, Families
  <2>3. order <= NumServices /\ order \in Nat
    BY <1>1 DEF Services
  <2>4. QED
    BY <1>1, <1>3, <1>6, <2>2, <2>3 DEF ResultInv, ResultInServiceOrder
<1>z. QED
  BY <1>t, <1>q, <1>l, <1>r DEF IInv

\* When the inner loop has run through the list it has met the service's answer.
LEMMA NextOrderIInv == ASSUME IInv, NextOrder PROVE IInv'
<1> USE DEF NextOrder
<1> DEFINE f == family
<1>1. /\ stage = "merge" /\ f \in Families /\ order \in Services
      /\ at \in Nat \ {0} /\ Len(list[f]) \in Nat /\ at > Len(list[f])
  BY DEF IInv, TypeOK, Services
<1>2. /\ stage' = stage /\ family' = family /\ order' = order + 1 /\ at' = 1
      /\ list' = list /\ result' = result
      /\ UNCHANGED <<checkType, workerVars, closer>>
  OBVIOUS
<1>3. IsMergeOf(result[f], answer[f], Merged)
  BY <1>1 DEF IInv, ResultInv
<1>4. IsMergeOf(result[f], answer[f], Merged')
  <2>1. Merged' = {s \in Services : s <= order}
    BY <1>1, <1>2 DEF Merged, Services
  <2>2. CASE \E i \in 1 .. Len(list[f]) : list[f][i].source = order
    <3>1. Merged = {s \in Services : s <= order}
      BY <1>1, <2>2 DEF Merged, Services
    <3>2. QED
      BY <1>3, <2>1, <3>1
  <2>3. CASE \A i \in 1 .. Len(list[f]) : list[f][i].source # order
    <3>1. Merged = {s \in Services : s < order}
      BY <1>1, <2>3 DEF Merged, Services
    <3>2. Merged' = Merged \cup {order}
      BY <1>1, <2>1, <3>1 DEF Services
    <3>3. answer[f][order] = Nil
      BY <1>1, <2>3, AllReceived
    <3>4. QED
      BY <1>3, <3>2, <3>3, MergeNone
  <2>4. QED
    BY <2>2, <2>3
<1>t. TypeOK'
  BY <1>1, <1>2 DEF IInv, TypeOK, workerVars, Services
<1>q. CountInv' /\ QueueInv' /\ NoAnswerDropped'
  BY <1>2, QueuesUntouched
<1>l. ControlInv'
  BY <1>1, <1>2, ChannelsStayDrained
<1>r. ResultInv'
  BY <1>1, <1>2, <1>4 DEF IInv, ResultInv, ResultInServiceOrder, workerVars
<1>z. QED
  BY <1>t, <1>q, <1>l, <1>r DEF IInv

LEMMA MergeEndsIInv == ASSUME IInv, MergeEnds PROVE IInv'
<1> USE DEF MergeEnds, NextFamily, FollowingStage
<1>1. /\ stage = "merge" /\ family \in Families /\ order = NumServices + 1 /\ at = 1
  BY DEF IInv, TypeOK, ResultInv
<1>2. Merged = Services
  BY <1>1 DEF Merged, Services
<1>3. IsMergeOf(result[family], answer[family], Services)
  BY <1>1, <1>2 DEF IInv, ResultInv
<1>4. UNCHANGED <<checkType, workerVars, closer, list, result, at>> /\ order' = 1
  BY DEF workerVars
<1>t. TypeOK'
  BY <1>1, <1>4 DEF IInv, TypeOK, Stages, Families, workerVars
<1>q. CountInv' /\ QueueInv' /\ NoAnswerDropped'
  BY <1>4, QueuesUntouched
<1>l. ControlInv'
  BY <1>1, <1>4, ChannelsStayDrained
<1>r. ResultInv'
  <2>1. CASE family = "ipv4"
    <3>1. stage' = "merge" /\ family' = "ipv6"
      BY <1>1, <2>1
    <3>2. Merged' = {}
      BY <1>1, <1>4 DEF Merged, Services
    <3>3. IsMergeOf(result["ipv6"], answer["ipv6"], Merged')
      BY <1>1, <2>1, <3>2 DEF IInv, ResultInv, IsMergeOf
    <3>4. QED
      BY <1>1, <1>3, <1>4, <2>1, <3>1, <3>3
         DEF IInv, ResultInv, ResultInServiceOrder, workerVars
  <2>2. CASE family = "ipv6"
    <3>1. stage' = "fallback" /\ family' = "ipv4"
      BY <1>1, <2>2
    <3>2. QED
      BY <1>1, <1>3, <1>4, <2>2, <3>1
         DEF IInv, ResultInv, ResultInServiceOrder, workerVars
  <2>3. QED
    BY <1>1, <2>1, <2>2 DEF Families
<1>z. QED
  BY <1>t, <1>q, <1>l, <1>r DEF IInv

LEMMA FallbackIInv == ASSUME IInv, Fallback PROVE IInv'
<1> USE DEF Fallback
<1> DEFINE f == family
<1>1. /\ stage = "fallback" /\ f \in Families /\ order = 1 /\ at = 1
      /\ result \in [Families -> IpInfos \cup {Nil}]
  BY DEF IInv, TypeOK, ResultInv
<1>2. UNCHANGED <<checkType, workerVars, closer, list, order, at>>
  BY DEF workerVars
<1>3. IsMergeOf(result[f], answer[f], Services)
  BY <1>1 DEF IInv, ResultInv, Families
<1>4. /\ result' \in [Families -> IpInfos \cup {Nil}]
      /\ IsFilledMergeOf(result'[f], answer[f], Services)
      /\ \A g \in Families \ {f} : result'[g] = result[g]
  <2>1. CASE needsASNFallback(result[f])
    <3>1. PICK asn \in {Blank, FallbackSource}, org \in {Blank, FallbackSource} :
            result' = [result EXCEPT ![f] = FillASN(result[f], asn, org)]
      BY <2>1
    <3>2. asn \in Nat /\ org \in Nat
      BY DEF Blank, FallbackSource
    <3>3. /\ FillASN(result[f], asn, org) \in IpInfos
          /\ IsFilledMergeOf(FillASN(result[f], asn, org), answer[f], Services)
      BY <1>1, <1>3, <2>1, <3>2, FillIsFilled
    <3>4. QED
      BY <1>1, <3>1, <3>3
  <2>2. CASE ~needsASNFallback(result[f])
    BY <1>1, <1>3, <2>2, MergeIsFilled
  <2>3. QED
    BY <2>1, <2>2
<1>5. \/ family = "ipv4" /\ family' = "ipv6" /\ stage' = "fallback"
      \/ family = "ipv6" /\ family' = "ipv4" /\ stage' = "returned"
  BY <1>1 DEF NextFamily, FollowingStage, Families
<1>t. TypeOK'
  BY <1>1, <1>2, <1>4, <1>5 DEF IInv, TypeOK, Stages, Families, workerVars
<1>q. CountInv' /\ QueueInv' /\ NoAnswerDropped'
  BY <1>2, QueuesUntouched
<1>l. ControlInv'
  BY <1>1, <1>2, <1>5, ChannelsStayDrained
<1>r. ResultInv'
  <2>1. answer' = answer /\ order' = 1 /\ at' = 1
    BY <1>1, <1>2 DEF workerVars
  <2>2. CASE family = "ipv4"
    <3>1. IsFilledMergeOf(result'["ipv4"], answer["ipv4"], Services)
      BY <1>4, <2>2
    <3>2. IsMergeOf(result'["ipv6"], answer["ipv6"], Services)
      BY <1>1, <1>4, <2>2 DEF IInv, ResultInv, Families
    <3>3. QED
      BY <1>5, <2>1, <2>2, <3>1, <3>2 DEF ResultInv, ResultInServiceOrder
  <2>3. CASE family = "ipv6"
    <3>1. IsFilledMergeOf(result'["ipv6"], answer["ipv6"], Services)
      BY <1>4, <2>3
    <3>2. IsFilledMergeOf(result'["ipv4"], answer["ipv4"], Services)
      BY <1>1, <1>4, <2>3 DEF IInv, ResultInv, Families
    <3>3. QED
      BY <1>5, <2>1, <2>3, <3>1, <3>2 DEF ResultInv, ResultInServiceOrder, Families
  <2>4. QED
    BY <1>1, <2>2, <2>3 DEF Families
<1>z. QED
  BY <1>t, <1>q, <1>l, <1>r DEF IInv

LEMMA NextIInv == IInv /\ [Next]_vars => IInv'
<1>1. CASE UNCHANGED vars
  <2>1. CASE IInv
    <3>1. UNCHANGED <<workerVars, callerVars, closer, list>>
      BY <1>1 DEF vars, workerVars, callerVars
    <3>2. TypeOK' /\ ControlInv'
      BY <1>1, <2>1 DEF vars, IInv, TypeOK, ControlInv, Drained, Closed
    <3>3. QED
      BY <2>1, <3>1, <3>2, QueuesUntouched, ResultsUntouched DEF IInv, workerVars
  <2>2. QED
    BY <2>1
<1>2. QED
  BY <1>1, LaunchIInv, RejectIInv, DeliverIInv, WorkerDoneIInv, CloseV4IInv, CloseV6IInv,
     ReceiveIInv, RangeEndsIInv, MergeEntryIInv, NextOrderIInv, MergeEndsIInv, FallbackIInv
     DEF Next

LEMMA Invariance == Spec => []IInv
<1>1. QED
  BY InitIInv, NextIInv, PTL DEF Spec

-----------------------------------------------------------------------------
(***************************************************************************)
(* The theorems.                                                            *)
(***************************************************************************)

\* However many services are asked, wg never goes negative and no channel holds
\* more than its buffer: every variable keeps its type.
THEOREM TypeCorrect == Spec => []TypeOK
<1>1. IInv => TypeOK
  BY DEF IInv
<1>2. QED
  BY <1>1, Invariance, PTL

\* However many services are asked, the closer never closes a channel that a
\* goroutine has still to offer its answer to.
THEOREM ClosedAfterAllOffers == Spec => []NoSendOnClosedChannel
<1>1. IInv => NoSendOnClosedChannel
  BY DEF IInv, ControlInv, Closed, NoSendOnClosedChannel
<1>2. QED
  BY <1>1, Invariance, PTL

\* However many services are asked, a buffer of one place for each of them is
\* enough for the non-blocking offer never to lose an answer.
THEOREM EveryAnswerKept == Spec => []NoAnswerDropped
<1>1. IInv => NoAnswerDropped
  BY DEF IInv
<1>2. QED
  BY <1>1, Invariance, PTL

\* However many services are asked, and in whatever order they answer, the result
\* is the merge of their answers in the services' order.
THEOREM ResultIsOrdered == Spec => []ResultInServiceOrder
<1>1. IInv => ResultInServiceOrder
  BY DEF IInv, ResultInv
<1>2. QED
  BY <1>1, Invariance, PTL

-----------------------------------------------------------------------------
(***************************************************************************)
(* A field that is set: what the comment at merge.go:18 should have said.   *)
(***************************************************************************)

Replaced(f, x) == Knows(result[f], x) /\ result'[f][x] # result[f][x]

\* The value of one service takes the place of that of one before it.
HandedUp(f, x) ==
  \E p, q \in Services :
    /\ p < q
    /\ Knows(answer[f][p], x) /\ result[f][x] = answer[f][p][x]
    /\ Knows(answer[f][q], x) /\ result'[f][x] = answer[f][q][x]

\* No field that is known is lost, and none is replaced but in the merge.
FieldsKept ==
  \A f \in Families, x \in Fields :
    /\ Knows(result[f], x) => Knows(result'[f], x)
    /\ Replaced(f, x) => stage = "merge" /\ HandedUp(f, x)

LEMMA MergeEntryHandsUp == ASSUME IInv, MergeEntry PROVE FieldsKept
<1> DEFINE entry == list[family][at]
<1>1. /\ stage = "merge" /\ family \in Families /\ order \in Services
      /\ at \in 1 .. Len(list[family]) /\ at \in Nat
      /\ result \in [Families -> IpInfos \cup {Nil}]
  BY DEF MergeEntry, IInv, TypeOK, Services
<1>2. CASE entry.source = order /\ entry.info # Nil
  <2>1. Distinct(list[family]) /\ entry.info = answer[family][order]
    BY <1>1, <1>2, AllReceived
  <2>2. Merged = {s \in Services : s < order}
    BY <1>1, <1>2, <2>1 DEF Merged, Distinct
  <2>3. IsMergeOf(result[family], answer[family], Merged)
    BY <1>1 DEF IInv, ResultInv
  <2>4. result' = [result EXCEPT ![family] = MergeInto(@, answer[family][order])]
    BY <1>2, <2>1 DEF MergeEntry
  <2>5. ASSUME NEW x \in Fields, Knows(result[family], x)
        PROVE  /\ Knows(result'[family], x)
               /\ Replaced(family, x) => HandedUp(family, x)
    <3>1. PICK p \in Merged : Knows(answer[family][p], x) /\ result[family][x] = answer[family][p][x]
      BY <2>3, <2>5 DEF IsMergeOf, IsLastKnown, Knows
    <3>2. result'[family] \in IpInfos
      <4>1. answer[family][order] \in IpInfos
        BY <1>1, <1>2, <2>1 DEF IInv, TypeOK
      <4>2. MergeInto(result[family], answer[family][order]) \in IpInfos
        BY <1>1, <4>1, MergeTyped
      <4>3. QED
        BY <1>1, <2>4, <4>2
    <3>3. result'[family][x] = IF answer[family][order][x] # Blank THEN answer[family][order][x]
                                                                   ELSE result[family][x]
      BY <1>1, <2>4, <2>5 DEF MergeInto, CompareAndMergeIpInfo, chooseString, Knows
    <3>4. Knows(result'[family], x)
      BY <2>5, <3>2, <3>3, NilAssumption DEF Knows
    <3>5. Replaced(family, x) => Knows(answer[family][order], x) /\ result'[family][x] = answer[family][order][x]
      BY <1>2, <2>1, <3>3 DEF Replaced, Knows
    <3>6. QED
      BY <1>1, <2>2, <3>1, <3>4, <3>5 DEF HandedUp
  <2>6. \A f \in Families : f # family => result'[f] = result[f]
    BY <1>1, <2>4
  <2>7. QED
    BY <1>1, <2>5, <2>6 DEF FieldsKept, Replaced
<1>3. CASE ~(entry.source = order /\ entry.info # Nil)
  BY <1>3 DEF MergeEntry, FieldsKept, Replaced
<1>4. QED
  BY <1>2, <1>3

LEMMA FallbackReplacesNothing == ASSUME IInv, Fallback PROVE FieldsKept
<1>1. family \in Families /\ result \in [Families -> IpInfos \cup {Nil}]
  BY DEF IInv, TypeOK
<1>2. CASE needsASNFallback(result[family])
  <2>1. PICK asn \in {Blank, FallbackSource}, org \in {Blank, FallbackSource} :
          result' = [result EXCEPT ![family] = FillASN(@, asn, org)]
    BY <1>2 DEF Fallback
  <2>2. result[family] \in IpInfos /\ result[family]["ASN"] = Blank
    BY <1>1, <1>2 DEF needsASNFallback, hasGeoInfo
  <2>3. FillASN(result[family], asn, org) \in IpInfos
    BY <2>2, FieldsAssumption DEF FillASN, chooseString, IpInfos, Blank, FallbackSource
  <2>4. ASSUME NEW x \in Fields, Knows(result[family], x)
        PROVE  result'[family][x] = result[family][x]
    BY <1>1, <2>1, <2>2, <2>4 DEF FillASN, chooseString, Knows, IpInfos
  <2>5. result'[family] # Nil /\ \A f \in Families : f # family => result'[f] = result[f]
    BY <1>1, <2>1, <2>3, NilAssumption
  <2>6. QED
    BY <2>4, <2>5 DEF FieldsKept, Replaced, Knows
<1>3. CASE ~needsASNFallback(result[family])
  BY <1>3 DEF Fallback, FieldsKept, Replaced
<1>4. QED
  BY <1>2, <1>3

\* CompareAndMergeIpInfo's comment promises that what is not empty stays. What is true of
\* the lookup, for any number of services: a field that is known stays known; its value is
\* replaced only while its family is merged, and then that of one service by that of one
\* behind it in the order; the fallback replaces nothing (merge.go:19, baseinfo.go:440-490).
THEOREM KnownFieldsAreHandedUp == Spec => [][FieldsKept]_vars
<1>1. IInv /\ [Next]_vars => FieldsKept \/ UNCHANGED vars
  <2> SUFFICES ASSUME IInv, Next PROVE FieldsKept
    OBVIOUS
  <2>1. CASE UNCHANGED result
    BY <2>1 DEF FieldsKept, Replaced
  <2>2. QED
    BY <2>1, MergeEntryHandsUp, FallbackReplacesNothing
       DEF Next, Launch, Reject, Deliver, WorkerDone, CloseV4, CloseV6, callerVars,
           Receive, RangeEnds, NextOrder, MergeEnds
<1>2. QED
  BY <1>1, Invariance, PTL DEF Spec

-----------------------------------------------------------------------------
(***************************************************************************)
(* The call implements IpLookup: what is still missing from the invariant   *)
(* is which goroutines the call has started.                                *)
(***************************************************************************)

AskedInv ==
  /\ stage = "start" <=> checkType = "none"
  /\ closer # "idle" =>
       /\ Asked(checkType) # {}
       /\ \A f \in Families, s \in Services :
            worker[f][s] # "idle" <=> f \in Asked(checkType)

LEMMA InitAskedInv == Init => AskedInv
  BY DEF Init, AskedInv

LEMMA NextAskedInv == IInv /\ AskedInv /\ [Next]_vars => AskedInv'
<1> SUFFICES ASSUME IInv, AskedInv, [Next]_vars PROVE AskedInv'
  OBVIOUS
<1> USE DEF AskedInv
<1>1. ASSUME NEW ct \in CheckTypes, Launch(ct) \/ Reject(ct) PROVE AskedInv'
  <2>1. closer = "idle" /\ ct # "none"
    BY <1>1, CheckTypesAssumption DEF IInv, ControlInv, Launch, Reject
  <2>2. CASE Launch(ct)
    BY <2>1, <2>2 DEF Launch
  <2>3. CASE Reject(ct)
    BY <2>1, <2>3 DEF Reject
  <2>4. QED
    BY <1>1, <2>2, <2>3
<1>2. ASSUME NEW f \in Families, NEW s \in Services, NEW info \in Replies(s),
             Deliver(f, s, info)
      PROVE  AskedInv'
  <2>1. worker \in [Families -> [Services -> WorkerStates]]
    BY DEF IInv, TypeOK
  <2>2. \A g \in Families, t \in Services : worker'[g][t] # "idle" <=> worker[g][t] # "idle"
    BY <1>2, <2>1 DEF Deliver
  <2>3. QED
    BY <1>2, <2>2 DEF Deliver, callerVars
<1>3. ASSUME NEW f \in Families, NEW s \in Services, WorkerDone(f, s) PROVE AskedInv'
  <2>1. worker \in [Families -> [Services -> WorkerStates]]
    BY DEF IInv, TypeOK
  <2>2. \A g \in Families, t \in Services : worker'[g][t] # "idle" <=> worker[g][t] # "idle"
    BY <1>3, <2>1 DEF WorkerDone
  <2>3. QED
    BY <1>3, <2>2 DEF WorkerDone, callerVars
<1>4. CASE CloseV4 \/ CloseV6
  BY <1>4 DEF CloseV4, CloseV6, workerVars, callerVars
<1>5. CASE Receive \/ MergeEntry \/ NextOrder
  BY <1>5 DEF Receive, MergeEntry, NextOrder, workerVars
<1>6. CASE RangeEnds \/ MergeEnds \/ Fallback
  <2>1. stage # "start" /\ stage' # "start" /\ UNCHANGED <<checkType, worker, closer>>
    BY <1>6 DEF RangeEnds, MergeEnds, Fallback, NextFamily, FollowingStage, workerVars
  <2>2. QED
    BY <2>1
<1>7. CASE UNCHANGED vars
  BY <1>7 DEF vars
<1>8. QED
  BY <1>1, <1>2, <1>3, <1>4, <1>5, <1>6, <1>7 DEF Next

\* The steps that IpLookup does not see.
LEMMA Invisible ==
  ASSUME IInv, UNCHANGED <<checkType, answer>>,
         \A f \in Families, s \in Services : Finished(f, s)' <=> Finished(f, s),
         \/ stage' = stage /\ result' = result
         \/ {stage, stage'} \cap {"returned", "failed"} = {}
  PROVE  UNCHANGED Lookup!vars
  BY DEF Lookup!vars, Finished

\* IpLookup has the module of records of its own, with the same definitions.
LEMMA SameFilledMerge ==
  \A r, ans, S : Lookup!IsFilledMergeOf(r, ans, S) <=> IsFilledMergeOf(r, ans, S)
  BY DEF IsFilledMergeOf, LacksASN, IsLastKnown, Knows, Blank, Lookup!IsFilledMergeOf,
         Lookup!LacksASN, Lookup!IsLastKnown, Lookup!Knows, Lookup!Blank

LEMMA RefinesInit == Init => Lookup!Init
  BY DEF Init, Lookup!Init, Lookup!Families, Lookup!Services, ForEach, Families, Services

LEMMA RefinesNext == IInv /\ AskedInv /\ [Next]_vars => [Lookup!Next]_Lookup!vars
<1> SUFFICES ASSUME IInv, AskedInv, [Next]_vars PROVE [Lookup!Next]_Lookup!vars
  OBVIOUS
<1>1. ASSUME NEW ct \in CheckTypes, Launch(ct) \/ Reject(ct) PROVE Lookup!Call
  <2>1. /\ checkType = "none" /\ checkType' = ct /\ ct # "none"
        /\ stage' = IF Asked(ct) = {} THEN "failed" ELSE "range"
        /\ answer' = answer
    BY <1>1, CheckTypesAssumption DEF AskedInv, Launch, Reject, workerVars
  <2>2. \A f \in Families, s \in Services : ~Finished(f, s) /\ ~Finished(f, s)'
    BY <1>1 DEF Finished, Launch, Reject, workerVars, IInv, ControlInv
  <2>3. stage = "start"
    BY <1>1 DEF Launch, Reject
  <2>4. QED
    BY <2>1, <2>2, <2>3 DEF Lookup!Call, Finished
<1>2. ASSUME NEW f \in Families, NEW s \in Services, NEW info \in Replies(s),
             Deliver(f, s, info)
      PROVE  Lookup!Answer(f, s)
  <2>1. f \in Asked(checkType) /\ ~Finished(f, s)
    BY <1>2 DEF Deliver, AskedInv, IInv, ControlInv, Finished
  <2>2. /\ UNCHANGED <<checkType, stage, result>>
        /\ Finished(f, s)'
        /\ \A g \in Families, t \in Services : <<g, t>> # <<f, s>> =>
             answer'[g][t] = answer[g][t] /\ (Finished(g, t)' <=> Finished(g, t))
    BY <1>2 DEF Deliver, callerVars, Finished, IInv, TypeOK
  <2> DEFINE answered == {t \in Families \X Services : worker[t[1]][t[2]] \in {"sent", "done"}}
  <2>3. <<f, s>> \notin answered
    BY <2>1 DEF Finished
  <2>4. answered' = answered \cup {<<f, s>>}
    BY <2>2 DEF Finished
  <2>5. QED
    BY <2>1, <2>2, <2>3, <2>4 DEF Lookup!Answer, Lookup!Families, Lookup!Services, Families, Services
<1>3. ASSUME NEW f \in Families, NEW s \in Services, WorkerDone(f, s)
      PROVE  UNCHANGED Lookup!vars
  <2>1. \A g \in Families, t \in Services : Finished(g, t)' <=> Finished(g, t)
    BY <1>3 DEF WorkerDone, Finished, IInv, TypeOK
  <2>2. UNCHANGED <<checkType, answer, stage, result>>
    BY <1>3 DEF WorkerDone, callerVars
  <2>3. QED
    BY <2>1, <2>2, Invisible
<1>4. CASE CloseV4 \/ CloseV6 \/ Receive \/ UNCHANGED vars
  <2>1. UNCHANGED <<checkType, answer, stage, result, worker>>
    BY <1>4 DEF CloseV4, CloseV6, Receive, workerVars, callerVars, vars
  <2>2. QED
    BY <2>1, Invisible DEF Finished
<1>5. CASE RangeEnds \/ MergeEntry \/ NextOrder \/ MergeEnds
  <2>1. /\ UNCHANGED <<checkType, answer, worker>>
        /\ stage \notin {"returned", "failed"} /\ stage' \notin {"returned", "failed"}
    BY <1>5 DEF RangeEnds, MergeEntry, NextOrder, MergeEnds, NextFamily, FollowingStage, workerVars
  <2>2. QED
    BY <2>1, Invisible DEF Finished
<1>6. CASE Fallback /\ family = "ipv4"
  <2>1. /\ UNCHANGED <<checkType, answer, worker>>
        /\ stage = "fallback" /\ stage' = "fallback"
    BY <1>6 DEF Fallback, NextFamily, workerVars
  <2>2. QED
    BY <2>1, Invisible DEF Finished
<1>7. CASE Fallback /\ family # "ipv4"
  <2>1. /\ UNCHANGED <<checkType, answer, worker>>
        /\ stage = "fallback" /\ stage' = "returned"
    BY <1>7 DEF Fallback, NextFamily, FollowingStage, workerVars
  <2>2. closer \in {"closedV4", "closedBoth"}
    BY <2>1 DEF IInv, ControlInv, Drained, Closed, Families
  <2>3. /\ Asked(checkType) # {}
        /\ \A f \in Families, s \in Services : Finished(f, s) <=> f \in Asked(checkType)
    BY <2>2 DEF AskedInv, IInv, ControlInv, Finished
  <2>4. Asked(checkType) \subseteq Families
    BY DEF Asked, Families
  <2> DEFINE answered == {t \in Families \X Services : worker[t[1]][t[2]] \in {"sent", "done"}}
  <2>5. answered = Asked(checkType) \X Services
    BY <2>3, <2>4 DEF Finished
  <2>6. \A f \in Families : IsFilledMergeOf(result'[f], answer[f], Services)
    BY <1>7, <2>1, FallbackIInv DEF IInv, ResultInv, ResultInServiceOrder
  <2>7. Lookup!Return
    BY <2>1, <2>3, <2>5, <2>6, SameFilledMerge DEF Lookup!Return, Lookup!Families, Lookup!Services, Families, Services
  <2>8. QED
    BY <2>7 DEF Lookup!Next
<1>8. QED
  BY <1>1, <1>2, <1>3, <1>4, <1>5, <1>6, <1>7
     DEF Next, Lookup!Next, Lookup!Families, Lookup!Services, Families, Services

\* However many services are asked, the goroutines, the channels and the nested loops
\* together do no more and no other than IpLookup says: every service is heard once,
\* and the call returns only after the last of them, and then the ordered merge.
THEOREM Refinement == Spec => ImplementsLookup
<1>1. Init => Lookup!Init /\ AskedInv
  BY RefinesInit, InitAskedInv
<1>2. Spec => [](IInv /\ AskedInv)
  BY <1>1, NextAskedInv, Invariance, PTL DEF Spec
<1>3. QED
  BY <1>1, <1>2, RefinesNext, PTL DEF Spec, ImplementsLookup, Lookup!Spec


-----------------------------------------------------------------------------
(***************************************************************************)
(* The call comes to an end: each step takes down what is left to do, and   *)
(* until it has returned somebody can make one.                             *)
(***************************************************************************)

Fetching == {t \in Families \X Services : worker[t[1]][t[2]] = "fetching"}

\* The caller treats IPv4 before IPv6 at each stage.
StageLeft == [start |-> 8, range |-> 6, merge |-> 4, fallback |-> 2, returned |-> 0, failed |-> 0]
CloserLeft == [idle |-> 3, waiting |-> 2, closedV4 |-> 1, closedBoth |-> 0]

\* What is left to do, the parts that later steps may raise again last.
CallerLeft == StageLeft[stage] + (IF family = "ipv4" THEN 1 ELSE 0)
Buffered == Len(channel["ipv4"]) + Len(channel["ipv6"])
OrdersLeft == NumServices + 1 - order
EntriesLeft == Len(list[family]) + 1 - at

Left == <<CallerLeft, Cardinality(Fetching), Cardinality(Pending), Buffered,
          CloserLeft[closer], OrdersLeft, EntriesLeft>>

AtInv == at <= Len(list[family]) + 1

\* The conditions under which a goroutine, the closer or the caller goes on: while the
\* caller waits, a service is being asked, a goroutine is about to end, a channel can be
\* closed, or there is something to receive or nothing more to wait for.
CanGoOn ==
  \/ stage \in {"start", "merge", "fallback"}
  \/ stage = "range" /\ \/ Pending # {}
                        \/ closer = "waiting" /\ wg = 0
                        \/ closer = "closedV4"
                        \/ channel[family] # <<>>
                        \/ channel[family] = <<>> /\ Closed(family)

LEMMA FetchingFinite ==
  Fetching \subseteq Pending /\ IsFiniteSet(Fetching) /\ Cardinality(Fetching) \in Nat
<1>1. Fetching \subseteq Pending
  BY DEF Fetching, Pending
<1>2. QED
  BY <1>1, PendingFinite, FS_Subset, FS_CardinalityType

LEMMA LeftIsNatural == IInv /\ AtInv => \A i \in 1 .. 7 : Left[i] \in Nat
<1> SUFFICES ASSUME IInv, AtInv PROVE \A i \in 1 .. 7 : Left[i] \in Nat
  OBVIOUS
<1>1. /\ channel["ipv4"] \in Seq(Entries) /\ channel["ipv6"] \in Seq(Entries)
      /\ list[family] \in Seq(Entries)
      /\ order \in 1 .. NumServices + 1 /\ at \in Nat \ {0} /\ stage \in Stages
      /\ closer \in {"idle", "waiting", "closedV4", "closedBoth"}
  BY DEF IInv, TypeOK, Families
<1>2. CallerLeft \in Nat /\ CloserLeft[closer] \in Nat
  <2>1. StageLeft[stage] \in Nat
    BY <1>1 DEF StageLeft, Stages
  <2>2. CallerLeft \in Nat
    BY <2>1 DEF CallerLeft
  <2>3. CloserLeft[closer] \in Nat
    BY <1>1 DEF CloserLeft
  <2>4. QED
    BY <2>2, <2>3
<1>2a. Buffered \in Nat
  <2> DEFINE n(f) == Len(channel[f])
  <2>1. n("ipv4") \in Nat /\ n("ipv6") \in Nat
    BY <1>1
  <2>2. Buffered = n("ipv4") + n("ipv6")
    BY DEF Buffered
  <2> HIDE DEF n
  <2>3. QED
    BY <2>1, <2>2
<1>2b. OrdersLeft \in Nat
  BY <1>1 DEF OrdersLeft
<1>2c. EntriesLeft \in Nat
  <2>1. Len(list[family]) \in Nat
    BY <1>1
  <2>2. QED
    BY <1>1, <2>1 DEF EntriesLeft, AtInv
<1>3. /\ Left[1] \in Nat /\ Left[2] \in Nat /\ Left[3] \in Nat /\ Left[4] \in Nat
      /\ Left[5] \in Nat /\ Left[6] \in Nat /\ Left[7] \in Nat
  BY <1>2, <1>2a, <1>2b, <1>2c, FetchingFinite, PendingFinite DEF Left
<1> HIDE DEF Left
<1>4. QED
  BY <1>3

\* A tuple whose first component that changes goes down is smaller.
LEMMA FirstDown ==
  ASSUME NEW a, NEW b, DOMAIN b = 1 .. 7, NEW i \in 1 .. 7, a[i] < b[i],
         \A j \in 1 .. (i - 1) : a[j] = b[j]
  PROVE  LexLess(a, b)
BY DEF LexLess

\* A step that takes the caller to its next stage, or to the next family in the same stage.
LEMMA StageLess ==
  ASSUME IInv, \/ \E ct \in CheckTypes : Launch(ct) \/ Reject(ct)
               \/ RangeEnds \/ MergeEnds \/ Fallback
  PROVE  LexLess(Left', Left)
<1>1. CASE \E ct \in CheckTypes : Launch(ct) \/ Reject(ct)
  <2>1. stage = "start" /\ stage' \in {"range", "failed"} /\ family' = family
    BY <1>1 DEF Launch, Reject
  <2>2. StageLeft[stage'] < StageLeft[stage] /\ StageLeft[stage'] \in Nat /\ StageLeft[stage] \in Nat
    BY <2>1 DEF StageLeft
  <2>3. DOMAIN Left = 1 .. 7 /\ Left'[1] < Left[1]
    BY <2>1, <2>2 DEF Left, CallerLeft
  <2>4. QED
    BY <2>3, FirstDown
<1>2. CASE RangeEnds \/ MergeEnds \/ Fallback
  <2>1. stage \in {"range", "merge", "fallback"} /\ NextFamily /\ family \in {"ipv4", "ipv6"}
    BY <1>2 DEF RangeEnds, MergeEnds, Fallback, IInv, TypeOK, Families
  <2>2. \/ family = "ipv4" /\ family' = "ipv6" /\ stage' = stage
        \/ family = "ipv6" /\ family' = "ipv4" /\ stage' = FollowingStage[stage]
    BY <2>1 DEF NextFamily
  <2>3. \/ family = "ipv4" /\ family' = "ipv6" /\ StageLeft[stage'] = StageLeft[stage]
        \/ family = "ipv6" /\ family' = "ipv4" /\ StageLeft[stage'] = StageLeft[stage] - 2
    BY <2>1, <2>2 DEF StageLeft, FollowingStage
  <2>4. StageLeft[stage] \in Nat
    BY <2>1 DEF StageLeft
  <2>5. DOMAIN Left = 1 .. 7 /\ Left'[1] < Left[1]
    BY <2>3, <2>4 DEF Left, CallerLeft
  <2>6. QED
    BY <2>5, FirstDown
<1>3. QED
  BY <1>1, <1>2

LEMMA DeliverLess ==
  ASSUME IInv, NEW f \in Families, NEW s \in Services, NEW info, Deliver(f, s, info)
  PROVE  LexLess(Left', Left)
<1>1. /\ worker[f][s] = "fetching" /\ worker' = [worker EXCEPT ![f][s] = "sent"]
      /\ stage' = stage /\ family' = family
      /\ worker \in [Families -> [Services -> WorkerStates]]
  BY DEF Deliver, IInv, TypeOK, callerVars
<1>2. \A g \in Families, t \in Services :
        worker'[g][t] = IF <<g, t>> = <<f, s>> THEN "sent" ELSE worker[g][t]
  BY <1>1
<1>3. Fetching' = Fetching \ {<<f, s>>} /\ <<f, s>> \in Fetching
  BY <1>1, <1>2 DEF Fetching
<1>4. Cardinality(Fetching') = Cardinality(Fetching) - 1
  BY <1>3, FetchingFinite, FS_RemoveElement
<1>5. DOMAIN Left = 1 .. 7 /\ Left'[2] < Left[2] /\ Left'[1] = Left[1]
  BY <1>1, <1>4, FetchingFinite DEF Left, CallerLeft
<1>6. QED
  BY <1>5, FirstDown

LEMMA WorkerDoneLess ==
  ASSUME IInv, NEW f \in Families, NEW s \in Services, WorkerDone(f, s)
  PROVE  LexLess(Left', Left)
<1>1. /\ worker[f][s] = "sent" /\ worker' = [worker EXCEPT ![f][s] = "done"]
      /\ stage' = stage /\ family' = family
      /\ worker \in [Families -> [Services -> WorkerStates]]
  BY DEF WorkerDone, IInv, TypeOK, callerVars
<1>2. \A g \in Families, t \in Services :
        worker'[g][t] = IF <<g, t>> = <<f, s>> THEN "done" ELSE worker[g][t]
  BY <1>1
<1>3. Fetching' = Fetching /\ Pending' = Pending \ {<<f, s>>} /\ <<f, s>> \in Pending
  BY <1>1, <1>2 DEF Fetching, Pending
<1>4. Cardinality(Pending') = Cardinality(Pending) - 1
  BY <1>3, PendingFinite, FS_RemoveElement
<1>5. DOMAIN Left = 1 .. 7 /\ Left'[3] < Left[3] /\ Left'[1] = Left[1] /\ Left'[2] = Left[2]
  BY <1>1, <1>3, <1>4, PendingFinite DEF Left, CallerLeft
<1>6. QED
  BY <1>5, FirstDown

\* A step that leaves the goroutines and the caller's stage where they are.
LEMMA SameGoroutines ==
  ASSUME UNCHANGED <<worker, stage, family>>
  PROVE  DOMAIN Left = 1 .. 7 /\ \A i \in 1 .. 3 : Left'[i] = Left[i]
<1>1. Fetching' = Fetching /\ Pending' = Pending
  BY DEF Fetching, Pending
<1>2. QED
  BY <1>1 DEF Left, CallerLeft

LEMMA CloseLess == ASSUME CloseV4 \/ CloseV6 PROVE LexLess(Left', Left)
<1>1. /\ UNCHANGED <<worker, stage, family, channel>>
      /\ CloserLeft[closer'] < CloserLeft[closer]
  BY DEF CloseV4, CloseV6, workerVars, callerVars, CloserLeft
<1>2. Left'[5] < Left[5] /\ Left'[4] = Left[4]
  BY <1>1 DEF Left, Buffered
<1>3. QED
  BY <1>1, <1>2, SameGoroutines, FirstDown

LEMMA ReceiveLess == ASSUME IInv, Receive PROVE LexLess(Left', Left)
<1>1. /\ UNCHANGED <<worker, stage, family>> /\ channel[family] # <<>>
      /\ channel' = [channel EXCEPT ![family] = Tail(channel[family])]
      /\ channel \in [Families -> Seq(Entries)] /\ family \in Families
  BY DEF Receive, IInv, TypeOK
<1>2. Len(Tail(channel[family])) = Len(channel[family]) - 1
  BY <1>1, TailEntry
<1>3. /\ \A f \in Families : Len(channel'[f]) = IF f = family THEN Len(channel[f]) - 1 ELSE Len(channel[f])
      /\ \A f \in Families : Len(channel[f]) \in Nat
  BY <1>1, <1>2
<1>4. Buffered' < Buffered
  <2> DEFINE n(f) == Len(channel[f])
             m(f) == Len(channel'[f])
  <2>1. /\ n("ipv4") \in Nat /\ n("ipv6") \in Nat
        /\ \/ m("ipv4") = n("ipv4") - 1 /\ m("ipv6") = n("ipv6")
           \/ m("ipv4") = n("ipv4") /\ m("ipv6") = n("ipv6") - 1
    BY <1>1, <1>3 DEF Families
  <2>2. Buffered = n("ipv4") + n("ipv6") /\ Buffered' = m("ipv4") + m("ipv6")
    BY DEF Buffered
  <2> HIDE DEF n, m
  <2>3. QED
    BY <2>1, <2>2
<1>5. Left'[4] < Left[4]
  BY <1>4 DEF Left
<1>6. QED
  BY <1>1, <1>5, SameGoroutines, FirstDown

LEMMA MergeLess == ASSUME IInv, MergeEntry \/ NextOrder PROVE LexLess(Left', Left)
<1>1. /\ UNCHANGED <<worker, stage, family, channel, closer, list>>
      /\ \/ at' = at + 1 /\ order' = order
         \/ order' = order + 1
      /\ order \in 1 .. NumServices + 1 /\ at \in Nat /\ Len(list[family]) \in Nat
  BY DEF MergeEntry, NextOrder, workerVars, IInv, TypeOK
<1>2. Left'[4] = Left[4] /\ Left'[5] = Left[5]
  BY <1>1 DEF Left, Buffered
<1>3. CASE at' = at + 1 /\ order' = order
  <2>1. EntriesLeft' < EntriesLeft /\ OrdersLeft' = OrdersLeft
    <3> DEFINE n == Len(list[family])
    <3>1. n \in Nat /\ EntriesLeft = n + 1 - at /\ EntriesLeft' = n + 1 - (at + 1)
      BY <1>1, <1>3 DEF EntriesLeft
    <3> HIDE DEF n
    <3>2. QED
      BY <1>1, <1>3, <3>1 DEF OrdersLeft
  <2>1a. Left'[7] < Left[7] /\ Left'[6] = Left[6]
    BY <2>1 DEF Left
  <2>2. QED
    BY <1>1, <1>2, <2>1a, SameGoroutines, FirstDown
<1>4. CASE order' = order + 1
  <2>1. OrdersLeft' < OrdersLeft
    BY <1>1, <1>4 DEF OrdersLeft
  <2>1a. Left'[6] < Left[6]
    BY <2>1 DEF Left
  <2>2. QED
    BY <1>1, <1>2, <2>1a, SameGoroutines, FirstDown
<1>5. QED
  BY <1>1, <1>3, <1>4

LEMMA NextLess == IInv /\ Next => LexLess(Left', Left)
BY StageLess, DeliverLess, WorkerDoneLess, CloseLess, ReceiveLess, MergeLess DEF Next

LEMMA NextAt == IInv /\ AtInv /\ [Next]_vars => AtInv'
<1> SUFFICES ASSUME IInv, AtInv, [Next]_vars PROVE AtInv'
  OBVIOUS
<1>1. /\ \A f \in Families : Len(list[f]) \in Nat
      /\ list \in [Families -> Seq(Entries)] /\ channel \in [Families -> Seq(Entries)]
      /\ family \in Families /\ at \in Nat
  BY DEF IInv, TypeOK
<1>2. CASE Receive
  <2>1. /\ Head(channel[family]) \in Entries /\ at' = at /\ family' = family
        /\ list'[family] = Append(list[family], Head(channel[family]))
    BY <1>1, <1>2, TailEntry DEF Receive
  <2>2. Len(list'[family]) = Len(list[family]) + 1
    BY <1>1, <2>1, AppendEntry
  <2>3. QED
    BY <1>1, <2>1, <2>2 DEF AtInv
<1>3. CASE MergeEntry \/ NextOrder
  BY <1>1, <1>3 DEF MergeEntry, NextOrder, AtInv
<1>4. CASE RangeEnds \/ MergeEnds \/ Fallback
  <2>1. at = 1 /\ at' = at /\ list' = list
    BY <1>4 DEF RangeEnds, MergeEnds, Fallback, IInv, ResultInv
  <2>2. family' \in Families
    BY <1>4 DEF RangeEnds, MergeEnds, Fallback, NextFamily, Families
  <2>3. QED
    BY <1>1, <2>1, <2>2 DEF AtInv
<1>5. CASE UNCHANGED <<list, at, family>>
  BY <1>5 DEF AtInv
<1>6. QED
  BY <1>2, <1>3, <1>4, <1>5
     DEF Next, vars, callerVars, Launch, Reject, Deliver, WorkerDone, CloseV4, CloseV6

\* Whatever the services answer and however the goroutines are scheduled, every step takes
\* down a tuple of naturals, and there is one to take until the call has returned: nobody
\* waits for a channel that is never closed or for a goroutine that is done.
THEOREM CallComesToAnEnd ==
  Spec => /\ [](\A i \in 1 .. 7 : Left[i] \in Nat)
          /\ [][LexLess(Left', Left)]_vars
          /\ [](stage \notin {"returned", "failed"} => CanGoOn)
<1>1. Init => AtInv
  BY DEF Init, AtInv, ForEach, Families
<1>2. IInv => (stage \notin {"returned", "failed"} => CanGoOn)
  <2> SUFFICES ASSUME IInv, stage = "range", Pending = {}, closer # "closedV4", ~Closed(family)
               PROVE  closer = "waiting" /\ wg = 0
    BY DEF CanGoOn, IInv, TypeOK, Stages
  <2>1. wg = 0
    BY FS_EmptySet DEF IInv, CountInv
  <2>2. closer = "waiting"
    BY DEF IInv, ControlInv, TypeOK, Closed
  <2>3. QED
    BY <2>1, <2>2
<1>3. QED
  BY <1>1, <1>2, NextAt, NextLess, LeftIsNatural, Invariance, PTL DEF Spec
=============================================================================
