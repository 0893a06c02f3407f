--------------------------- MODULE SystemInfoProofs ---------------------------
(***************************************************************************)
(* Proofs about SystemInfo and CpuInfo for any systems, counts, numbers of   *)
(* sockets, lengths of names, NAT methods, STUN servers and calls.          *)
(***************************************************************************)
EXTENDS SystemInfo, LexOrder, FiniteSetTheorems, TLAPS

CoreRecords == [logical : Nat, physical : Nat, threads : Nat, sockets : Nat]
ModelRecords == [name : NameLengths \cup {0}, freq : {"none", "plain", "odd"}]
Hearings == {"none", "known", "inconclusive"}
NatRecords == [method : 1..(Methods + 1), server : 1..Servers,
               mapping : Hearings, filtering : Hearings]

\* Where the counts are still collected, and where the name is not known yet.
Counting == {"idle", "gopsutil", "cpuinfo"} \cup Systems
Unnamed == Counting \cup {"default", "model"}

CpuTypes ==
  /\ os \in Systems
  /\ cpuStep \in CpuPlaces \cup Systems
  /\ cores \in CoreRecords
  /\ threadsBy \in {"nobody", "gopsutil", "lscpu", "cpuinfo", "counts"}
  /\ label \in {"none", "simple", "cores", "threads", "hybrid"}
  /\ cpuModel \in ModelRecords
  /\ recordLost \in BOOLEAN

\* Once the machine is looked at, nothing but the physical cores can be unknown, and they
\* are known when the text is formed.
CoresPositive ==
  /\ cpuStep # "idle" => cores.logical > 0 /\ cores.threads > 0 /\ cores.sockets > 0
  /\ cpuStep \in {"model", "named", "listed", "done"} => cores.physical > 0

\* Threads per core that come with both counts are their quotient, and a later source does
\* not change one of the three alone.
QuotientKept ==
  /\ cpuStep \in Counting => threadsBy \notin {"gopsutil", "counts"}
  /\ threadsBy \in {"gopsutil", "counts"} =>
       /\ cores.physical > 0
       /\ cores.logical >= cores.physical => cores.threads = cores.logical \div cores.physical
  /\ cpuStep \in Counting \cup {"default"} => label = "none"
  /\ label = "hybrid" => cores.logical # cores.physical * cores.threads

\* A frequency never comes before its name.
NamedFirst ==
  /\ cpuStep \in Unnamed => cpuModel = NoModel
  /\ cpuStep = "named" /\ cpuModel.freq = "plain" => cpuModel.name # 0

CpuInv ==
  /\ CpuTypes /\ CoresPositive /\ QuotientKept /\ NamedFirst
  /\ recordLost => os = "windows"

-----------------------------------------------------------------------------
\* Helpers.

\* The quotient of a number by a smaller one is at least 1.
LEMMA QuotientPositive ==
  ASSUME NEW l \in Nat, NEW p \in Nat, p > 0, l >= p
  PROVE  l \div p \in Nat \ {0}
OBVIOUS

\* What a division without remainder means.
LEMMA Divides ==
  ASSUME NEW l \in Nat, NEW p \in Nat, p > 0, l % p = 0
  PROVE  l = p * (l \div p)
OBVIOUS

LEMMA RatioPositive ==
  ASSUME NEW l \in Nat, NEW p \in Nat PROVE Ratio(l, p) \in Nat \ {0}
BY QuotientPositive DEF Ratio

LEMMA GivenPositive ==
  ASSUME NEW new \in Nat, NEW old \in Nat, old > 0 PROVE Given(new, old) \in Nat \ {0}
BY DEF Given

\* The names of the places are no systems.
LEMMA PlacesApart ==
  /\ \A s \in Systems : s \notin CpuPlaces
  /\ \A s \in Counting : s \notin {"default", "model", "named", "listed", "done"}
  /\ \A s \in Unnamed : s \notin {"named", "listed", "done"}
BY CpuAssumption DEF CpuPlaces, Counting, Unnamed

-----------------------------------------------------------------------------
\* The steps of getCpuInfo.

LEMMA ForgottenInv ==
  ASSUME os \in Systems, os' = os, Forgotten, recordLost' \in BOOLEAN,
         recordLost' => os = "windows"
  PROVE  CpuInv'
<1>1. /\ cpuStep' = "idle" /\ threadsBy' = "nobody" /\ label' = "none"
      /\ cores' = [logical |-> 0, physical |-> 0, threads |-> 0, sockets |-> 0]
      /\ cpuModel' = [name |-> 0, freq |-> "none"]
  BY DEF Forgotten, NoCores, NoModel
<1>2. CpuTypes'
  BY <1>1 DEF CpuTypes, CpuPlaces, CoreRecords, ModelRecords
<1>3. CoresPositive' /\ QuotientKept' /\ NamedFirst'
  BY <1>1 DEF CoresPositive, QuotientKept, NamedFirst, NoModel
<1>4. QED
  BY <1>2, <1>3 DEF CpuInv

LEMMA CpuStartInv == ASSUME CpuInv, cpuStep = "idle", CpuStart, os' = os PROVE CpuInv'
<1>1. PICK n \in Counts \ {0} :
        cores' = [logical |-> n, physical |-> 0, threads |-> 1, sockets |-> 1]
  BY DEF CpuStart
<1>2. cpuStep' = "gopsutil" /\ UNCHANGED <<threadsBy, label, cpuModel, recordLost>>
  BY DEF CpuStart
<1>3. n \in Nat /\ n > 0
  BY CpuAssumption
<1>4. CpuTypes'
  BY <1>1, <1>2, <1>3 DEF CpuInv, CpuTypes, CpuPlaces, CoreRecords
<1>5. CoresPositive'
  BY <1>1, <1>2, <1>3 DEF CoresPositive
<1>6. QuotientKept' /\ NamedFirst'
  BY <1>2 DEF CpuInv, QuotientKept, NamedFirst, Counting, Unnamed, NoModel
<1>7. QED
  BY <1>2, <1>4, <1>5, <1>6 DEF CpuInv

LEMMA GopsutilInv == ASSUME CpuInv, GopsutilCounts, os' = os PROVE CpuInv'
<1>1. cpuStep = "gopsutil" /\ UNCHANGED <<label, cpuModel, recordLost>>
  BY DEF GopsutilCounts
<1>2. /\ cores \in CoreRecords /\ os \in Systems /\ label = "none" /\ cpuModel = NoModel
      /\ cores.logical > 0 /\ cores.threads > 0 /\ cores.sockets > 0
      /\ threadsBy \notin {"gopsutil", "counts"}
  BY <1>1 DEF CpuInv, CpuTypes, CoresPositive, QuotientKept, NamedFirst, Counting, Unnamed
<1>3. PICK l \in Counts, p \in Counts, s \in Sockets :
        \/ /\ l > 0 /\ p > 0
           /\ cores' = [logical |-> l, physical |-> p,
                        threads |-> Ratio(l, p), sockets |-> Given(s, 1)]
           /\ threadsBy' = "gopsutil"
           /\ cpuStep' = "default"
        \/ /\ l = 0 \/ p = 0
           /\ cores' = [cores EXCEPT !.logical = Given(l, @)]
           /\ cpuStep' = os
           /\ UNCHANGED threadsBy
  BY DEF GopsutilCounts
<1>4. l \in Nat /\ p \in Nat /\ s \in Nat
  BY CpuAssumption
<1>5. Ratio(l, p) \in Nat \ {0} /\ Given(s, 1) \in Nat \ {0}
      /\ Given(l, cores.logical) \in Nat \ {0}
  <2>1. Ratio(l, p) \in Nat \ {0}
    BY <1>4, RatioPositive
  <2>2. cores.logical \in Nat
    BY <1>2 DEF CoreRecords
  <2>3. QED
    BY <1>2, <1>4, <2>1, <2>2, GivenPositive
<1>6. CASE cpuStep' = "default" /\ threadsBy' = "gopsutil" /\ l > 0 /\ p > 0
           /\ cores' = [logical |-> l, physical |-> p,
                        threads |-> Ratio(l, p), sockets |-> Given(s, 1)]
  <2>1. CpuTypes'
    BY <1>1, <1>4, <1>5, <1>6 DEF CpuInv, CpuTypes, CpuPlaces, CoreRecords
  <2>2. CoresPositive'
    BY <1>4, <1>5, <1>6 DEF CoresPositive
  <2>3. QuotientKept'
    BY <1>1, <1>2, <1>4, <1>6, PlacesApart DEF QuotientKept, Ratio
  <2>4. NamedFirst'
    BY <1>1, <1>2, <1>6 DEF NamedFirst, NoModel
  <2>5. QED
    BY <1>1, <2>1, <2>2, <2>3, <2>4 DEF CpuInv
<1>7. CASE cores' = [cores EXCEPT !.logical = Given(l, @)] /\ cpuStep' = os /\ threadsBy' = threadsBy
  <2>1. CpuTypes'
    BY <1>1, <1>2, <1>5, <1>7 DEF CpuInv, CpuTypes, CoreRecords
  <2>2. cpuStep' \notin CpuPlaces
    BY <1>2, <1>7, PlacesApart
  <2>3. CoresPositive'
    BY <1>2, <1>5, <1>7, <2>2 DEF CoresPositive, CoreRecords, CpuPlaces
  <2>4. QuotientKept'
    BY <1>1, <1>2, <1>7 DEF QuotientKept
  <2>5. NamedFirst'
    BY <1>1, <1>2, <1>7, <2>2 DEF NamedFirst, CpuPlaces, NoModel
  <2>6. QED
    BY <1>1, <2>1, <2>3, <2>4, <2>5 DEF CpuInv
<1>8. QED
  BY <1>3, <1>6, <1>7

LEMMA LscpuInv == ASSUME CpuInv, Lscpu, os' = os PROVE CpuInv'
<1>1. cpuStep = "linux" /\ UNCHANGED <<label, cpuModel, recordLost>>
  BY DEF Lscpu
<1>2. cpuStep \in Systems
  BY <1>1 DEF CpuInv, CpuTypes, CpuPlaces
<1>3. /\ cores \in CoreRecords /\ label = "none" /\ cpuModel = NoModel
      /\ cores.logical > 0 /\ cores.threads > 0 /\ cores.sockets > 0
      /\ threadsBy \notin {"gopsutil", "counts"}
  BY <1>1, <1>2 DEF CpuInv, CpuTypes, CoresPositive, QuotientKept, NamedFirst, Counting, Unnamed
<1>4. PICK l \in Counts, t \in Counts, c \in Counts, s \in Sockets :
        LET total == IF c > 0 THEN c * Given(s, cores.sockets) ELSE cores.physical IN
          /\ cores' = [logical |-> Given(l, cores.logical), physical |-> total,
                       threads |-> Given(t, cores.threads), sockets |-> Given(s, cores.sockets)]
          /\ threadsBy' = IF t > 0 THEN "lscpu" ELSE threadsBy
          /\ cpuStep' = IF total > 0 THEN "default" ELSE "cpuinfo"
  BY DEF Lscpu
<1> DEFINE total == IF c > 0 THEN c * Given(s, cores.sockets) ELSE cores.physical
<1>5. l \in Nat /\ t \in Nat /\ c \in Nat /\ s \in Nat
  BY CpuAssumption
<1>6. /\ Given(l, cores.logical) \in Nat \ {0}
      /\ Given(t, cores.threads) \in Nat \ {0}
      /\ Given(s, cores.sockets) \in Nat \ {0}
  <2>1. cores.logical \in Nat /\ cores.threads \in Nat /\ cores.sockets \in Nat
    BY <1>3 DEF CoreRecords
  <2>2. QED
    BY <1>3, <1>5, <2>1, GivenPositive
<1>7. total \in Nat
  BY <1>3, <1>5, <1>6 DEF CoreRecords
<1>8. /\ cores' = [logical |-> Given(l, cores.logical), physical |-> total,
                   threads |-> Given(t, cores.threads), sockets |-> Given(s, cores.sockets)]
      /\ threadsBy' \in {"lscpu", threadsBy}
      /\ cpuStep' \in {"default", "cpuinfo"}
  BY <1>4
<1> HIDE DEF total
<1>9. CpuTypes'
  BY <1>1, <1>6, <1>7, <1>8 DEF CpuInv, CpuTypes, CpuPlaces, CoreRecords
<1>10. CoresPositive'
  BY <1>6, <1>8 DEF CoresPositive
<1>11. QuotientKept' /\ NamedFirst'
  BY <1>1, <1>3, <1>8 DEF QuotientKept, NamedFirst, NoModel
<1>12. QED
  BY <1>1, <1>9, <1>10, <1>11 DEF CpuInv

LEMMA ProcCpuinfoInv == ASSUME CpuInv, ProcCpuinfo, os' = os PROVE CpuInv'
<1>1. cpuStep = "cpuinfo" /\ cpuStep' = "default" /\ UNCHANGED <<label, cpuModel, recordLost>>
  BY DEF ProcCpuinfo
<1>2. /\ cores \in CoreRecords /\ label = "none" /\ cpuModel = NoModel
      /\ cores.logical > 0 /\ cores.threads > 0 /\ cores.sockets > 0
      /\ threadsBy \notin {"gopsutil", "counts"}
  BY <1>1 DEF CpuInv, CpuTypes, CoresPositive, QuotientKept, NamedFirst, Counting, Unnamed
<1>3. PICK ids \in Sockets, siblings \in Counts, c \in Counts :
        LET counted == c > 0 /\ siblings >= c IN
          /\ cores' = [cores EXCEPT
               !.sockets = Given(ids, @),
               !.physical = IF c > 0 THEN c * Given(ids, 1) ELSE @,
               !.threads = IF counted THEN siblings \div c ELSE @]
          /\ threadsBy' = IF counted THEN "cpuinfo" ELSE threadsBy
  BY DEF ProcCpuinfo
<1> DEFINE product == c * Given(ids, 1)
           quotient == siblings \div c
<1>4. ids \in Nat /\ siblings \in Nat /\ c \in Nat
  BY CpuAssumption
<1>5. Given(ids, cores.sockets) \in Nat \ {0} /\ Given(ids, 1) \in Nat \ {0}
  <2>1. cores.sockets \in Nat
    BY <1>2 DEF CoreRecords
  <2>2. QED
    BY <1>2, <1>4, <2>1, GivenPositive
<1>6. product \in Nat
  BY <1>4, <1>5
<1>7. c > 0 /\ siblings >= c => quotient \in Nat \ {0}
  BY <1>4, QuotientPositive
<1>8. /\ cores' = [cores EXCEPT
                    !.sockets = Given(ids, @),
                    !.physical = IF c > 0 THEN product ELSE @,
                    !.threads = IF c > 0 /\ siblings >= c THEN quotient ELSE @]
      /\ threadsBy' \in {"cpuinfo", threadsBy}
  BY <1>3
<1> HIDE DEF product, quotient
<1>9. /\ cores' \in CoreRecords
      /\ cores'.logical = cores.logical
      /\ cores'.sockets = Given(ids, cores.sockets)
      /\ cores'.threads \in Nat \ {0}
  <2> DEFINE threads == IF c > 0 /\ siblings >= c THEN quotient ELSE cores.threads
             physical == IF c > 0 THEN product ELSE cores.physical
             sockets == Given(ids, cores.sockets)
  <2>1. threads \in Nat \ {0} /\ physical \in Nat /\ sockets \in Nat
    BY <1>2, <1>5, <1>6, <1>7 DEF CoreRecords
  <2>2. cores' = [cores EXCEPT !.sockets = sockets, !.physical = physical, !.threads = threads]
    BY <1>8
  <2> HIDE DEF threads, physical, sockets
  <2>3. /\ cores' \in CoreRecords /\ cores'.logical = cores.logical
        /\ cores'.sockets = sockets /\ cores'.threads = threads
    BY <1>2, <2>1, <2>2 DEF CoreRecords
  <2>4. QED
    BY <2>1, <2>3 DEF sockets
<1>10. CpuTypes'
  BY <1>1, <1>8, <1>9 DEF CpuInv, CpuTypes, CpuPlaces
<1>11. CoresPositive'
  BY <1>1, <1>2, <1>5, <1>9 DEF CoresPositive
<1>12. QuotientKept' /\ NamedFirst'
  BY <1>1, <1>2, <1>8 DEF QuotientKept, NamedFirst, NoModel
<1>13. QED
  BY <1>1, <1>10, <1>11, <1>12 DEF CpuInv

LEMMA BothCountsInv == ASSUME CpuInv, BothCounts, os' = os PROVE CpuInv'
<1>1. /\ cpuStep \in {"windows", "darwin"} /\ cpuStep' = "default"
      /\ UNCHANGED <<label, cpuModel, recordLost>>
  BY DEF BothCounts
<1>2. cpuStep \in Systems /\ cpuStep # "idle"
  BY <1>1 DEF CpuInv, CpuTypes, CpuPlaces
<1>3. /\ cores \in CoreRecords /\ label = "none" /\ cpuModel = NoModel
      /\ cores.logical > 0 /\ cores.threads > 0 /\ cores.sockets > 0
      /\ threadsBy \notin {"gopsutil", "counts"}
  BY <1>1, <1>2 DEF CpuInv, CpuTypes, CoresPositive, QuotientKept, NamedFirst, Counting, Unnamed
<1>4. PICK l \in Counts, p \in Counts :
        LET new == [cores EXCEPT !.logical = Given(l, @), !.physical = Given(p, @)]
            known == p > 0 /\ (os = "darwin" \/ l > 0) /\ new.logical >= p
        IN /\ cores' = IF known THEN [new EXCEPT !.threads = Ratio(new.logical, p)] ELSE new
           /\ threadsBy' = IF known THEN "counts" ELSE threadsBy
  BY DEF BothCounts
<1> DEFINE new == [cores EXCEPT !.logical = Given(l, @), !.physical = Given(p, @)]
<1>5. l \in Nat /\ p \in Nat /\ cores.logical \in Nat /\ cores.physical \in Nat
  BY <1>3, CpuAssumption DEF CoreRecords
<1>6. Given(l, cores.logical) \in Nat \ {0} /\ Given(p, cores.physical) \in Nat
      /\ (p > 0 => Given(p, cores.physical) = p)
  <2>1. Given(l, cores.logical) \in Nat \ {0}
    BY <1>3, <1>5, GivenPositive
  <2>2. QED
    BY <1>5, <2>1 DEF Given
<1>7. /\ new \in CoreRecords /\ new.logical = Given(l, cores.logical)
      /\ new.physical = Given(p, cores.physical)
      /\ new.threads = cores.threads /\ new.sockets = cores.sockets
  BY <1>3, <1>6 DEF CoreRecords
<1>8. \/ /\ p > 0 /\ new.logical >= p
         /\ cores' = [new EXCEPT !.threads = Ratio(new.logical, p)] /\ threadsBy' = "counts"
      \/ cores' = new /\ threadsBy' = threadsBy
  BY <1>4
<1> HIDE DEF new
<1>9. CASE /\ p > 0 /\ new.logical >= p
           /\ cores' = [new EXCEPT !.threads = Ratio(new.logical, p)] /\ threadsBy' = "counts"
  <2>1. Ratio(new.logical, p) \in Nat \ {0} /\ new.logical \in Nat
    BY <1>5, <1>6, <1>7, RatioPositive
  <2>2. /\ cores' \in CoreRecords /\ cores'.logical = new.logical /\ cores'.physical = p
        /\ cores'.threads = Ratio(new.logical, p) /\ cores'.sockets = cores.sockets
    BY <1>6, <1>7, <1>9, <2>1 DEF CoreRecords
  <2>3. CpuTypes'
    BY <1>1, <1>9, <2>2 DEF CpuInv, CpuTypes, CpuPlaces
  <2>4. CoresPositive'
    BY <1>1, <1>3, <1>6, <1>7, <2>1, <2>2 DEF CoresPositive
  <2>5. QuotientKept'
    <3>1. cpuStep' \notin Counting /\ label' = "none"
      BY <1>1, <1>3, PlacesApart
    <3>2. cores'.physical > 0 /\ cores'.threads = cores'.logical \div cores'.physical
      BY <1>5, <1>9, <2>1, <2>2 DEF Ratio
    <3>3. QED
      BY <3>1, <3>2 DEF QuotientKept
  <2>6. NamedFirst'
    BY <1>1, <1>3 DEF NamedFirst, NoModel
  <2>7. QED
    BY <1>1, <2>3, <2>4, <2>5, <2>6 DEF CpuInv
<1>10. CASE cores' = new /\ threadsBy' = threadsBy
  <2>1. CpuTypes'
    BY <1>1, <1>7, <1>10 DEF CpuInv, CpuTypes, CpuPlaces
  <2>2. CoresPositive'
    BY <1>1, <1>3, <1>6, <1>7, <1>10 DEF CoresPositive
  <2>3. QuotientKept' /\ NamedFirst'
    BY <1>1, <1>3, <1>10 DEF QuotientKept, NamedFirst, NoModel
  <2>4. QED
    BY <1>1, <2>1, <2>2, <2>3 DEF CpuInv
<1>11. QED
  BY <1>8, <1>9, <1>10

LEMMA NoFallbackInv == ASSUME CpuInv, NoFallback, os' = os PROVE CpuInv'
<1>1. /\ cpuStep \in Systems /\ cpuStep' = "default"
      /\ UNCHANGED <<cores, threadsBy, label, cpuModel, recordLost>>
  BY DEF NoFallback
<1>2. cpuStep # "idle"
  BY <1>1, PlacesApart DEF CpuPlaces
<1>3. CpuTypes' /\ CoresPositive'
  BY <1>1, <1>2 DEF CpuInv, CpuTypes, CpuPlaces, CoresPositive
<1>4. QuotientKept' /\ NamedFirst'
  BY <1>1 DEF CpuInv, QuotientKept, NamedFirst, Counting, Unnamed, NoModel
<1>5. QED
  BY <1>1, <1>3, <1>4 DEF CpuInv

LEMMA CoresFormattedInv == ASSUME CpuInv, CoresFormatted, os' = os PROVE CpuInv'
<1> DEFINE c == WithDefault(cores)
<1>1. /\ cpuStep = "default" /\ cpuStep' = "model" /\ UNCHANGED <<cpuModel, recordLost>>
      /\ cores' = c /\ label' = FormOf(c)
      /\ threadsBy' = IF cores.physical > 0 THEN threadsBy ELSE "nobody"
  BY DEF CoresFormatted
<1>2. /\ cores \in CoreRecords /\ cpuModel = NoModel
      /\ cores.logical > 0 /\ cores.threads > 0 /\ cores.sockets > 0
      /\ threadsBy \in {"gopsutil", "counts"} =>
           (cores.logical >= cores.physical => cores.threads = cores.logical \div cores.physical)
  BY <1>1 DEF CpuInv, CpuTypes, CoresPositive, QuotientKept, NamedFirst, Unnamed
<1>3. /\ c \in CoreRecords /\ c.logical > 0 /\ c.physical > 0 /\ c.threads > 0 /\ c.sockets > 0
      /\ cores.physical > 0 => c = cores
  <2>1. CASE cores.physical > 0
    BY <1>2, <2>1 DEF WithDefault
  <2>2. CASE ~(cores.physical > 0)
    <3>1. c = [cores EXCEPT !.physical = cores.logical, !.threads = 1]
      BY <2>2 DEF WithDefault
    <3>2. cores \in CoreRecords /\ cores.logical \in Nat
      BY <1>2 DEF CoreRecords
    <3> HIDE DEF c
    <3>3. /\ c \in CoreRecords /\ c.logical = cores.logical /\ c.physical = cores.logical
          /\ c.threads = 1 /\ c.sockets = cores.sockets
      BY <3>1, <3>2 DEF CoreRecords
    <3>4. QED
      BY <1>2, <2>2, <3>3
  <2>3. QED
    BY <2>1, <2>2
<1> HIDE DEF c
<1>4. /\ FormOf(c) \in {"simple", "cores", "threads", "hybrid"}
      /\ FormOf(c) = "hybrid" => c.logical # c.physical * c.threads
  BY Zenon DEF FormOf
<1>5. CpuTypes'
  BY <1>1, <1>3, <1>4 DEF CpuInv, CpuTypes, CpuPlaces
<1>6. CoresPositive' /\ NamedFirst'
  BY <1>1, <1>2, <1>3 DEF CoresPositive, NamedFirst, NoModel
<1>7. QuotientKept'
  <2>1. cpuStep' \notin Counting \cup {"default"}
    BY <1>1, PlacesApart
  <2>2. threadsBy' \in {"gopsutil", "counts"} => cores' = cores /\ threadsBy \in {"gopsutil", "counts"}
    BY <1>1, <1>3
  <2>3. label' = "hybrid" => cores'.logical # cores'.physical * cores'.threads
    BY <1>1, <1>4
  <2>4. threadsBy' \in {"gopsutil", "counts"} =>
          (cores'.logical >= cores'.physical => cores'.threads = cores'.logical \div cores'.physical)
    BY <1>2, <2>2
  <2>5. cores'.physical > 0
    BY <1>1, <1>3
  <2>6. QED
    BY <2>1, <2>3, <2>4, <2>5 DEF QuotientKept
<1>8. QED
  BY <1>1, <1>5, <1>6, <1>7 DEF CpuInv

\* A step that only deals with the name.
LEMMA NameInv ==
  ASSUME CpuInv, os' = os, UNCHANGED <<cores, threadsBy, label>>,
         cpuStep \in {"model", "named", "listed"}, cpuStep' \in {"named", "listed", "done"},
         cpuModel' \in ModelRecords, recordLost' \in BOOLEAN, recordLost' => os = "windows",
         cpuStep' = "named" /\ cpuModel'.freq = "plain" => cpuModel'.name # 0
  PROVE  CpuInv'
<1>1. CpuTypes'
  BY DEF CpuInv, CpuTypes, CpuPlaces
<1>2. CoresPositive'
  BY DEF CpuInv, CoresPositive
<1>3. cpuStep' \notin Unnamed /\ cpuStep' \notin Counting \cup {"default"}
  BY PlacesApart
<1>4. QuotientKept' /\ NamedFirst'
  BY <1>3 DEF CpuInv, QuotientKept, NamedFirst, Counting
<1>5. QED
  BY <1>1, <1>2, <1>4 DEF CpuInv

LEMMA WithFrequencyType ==
  ASSUME NEW m \in ModelRecords, NEW f \in {"none", "plain", "odd"}
  PROVE  /\ WithFrequency(m, f) \in ModelRecords
         /\ WithFrequency(m, f).name = m.name
         /\ m.freq = "plain" => WithFrequency(m, f) = m
BY DEF WithFrequency, ModelRecords

LEMMA VendoredType ==
  ASSUME NEW m \in ModelRecords, NEW vendor \in NameLengths \cup {0}
  PROVE  Vendored(m, vendor) \in ModelRecords
BY DEF Vendored, ModelRecords

LEMMA TextsType ==
  \A t \in Texts : t \in ModelRecords /\ (t.freq = "plain" => t.name # 0)
BY CpuAssumption DEF Texts, NoModel, ModelRecords

LEMMA ModelInv ==
  ASSUME CpuInv, os' = os,
         ModelFromProc \/ ModelFromLscpu \/ ModelFromList \/ ListEnds \/ WindowsModel \/ OtherModel
  PROVE  CpuInv'
<1>1. /\ cpuModel \in ModelRecords /\ recordLost \in BOOLEAN
      /\ recordLost => os = "windows"
      /\ cpuStep = "model" => cpuModel = NoModel
  BY DEF CpuInv, CpuTypes, NamedFirst, Unnamed
<1>2. NoModel \in ModelRecords /\ NoModel.freq = "none"
  BY DEF NoModel, ModelRecords
<1>3. CASE ModelFromProc
  <2>1. PICK t \in Texts, f \in {"none", "plain"} :
          cpuModel' = IF t.name = 0 THEN cpuModel ELSE WithFrequency(t, f)
    BY <1>3 DEF ModelFromProc
  <2>2. t \in ModelRecords /\ f \in {"none", "plain", "odd"}
    BY TextsType
  <2>3. WithFrequency(t, f) \in ModelRecords /\ WithFrequency(t, f).name = t.name
    BY <2>2, WithFrequencyType
  <2>4. cpuModel' \in ModelRecords /\ (cpuModel'.freq = "plain" => cpuModel'.name # 0)
    BY <1>1, <1>2, <1>3, <2>1, <2>3 DEF ModelFromProc
  <2>5. QED
    BY <1>1, <1>3, <2>4, NameInv DEF ModelFromProc
<1>4. CASE ModelFromLscpu
  <2>1. PICK t \in Texts, f \in {"none", "plain", "odd"}, cpuid \in NameLengths \cup {0},
             bios \in NameLengths \cup {0} :
          LET m == WithFrequency(IF cpuModel.name = 0 THEN t ELSE cpuModel, f) IN
            cpuModel' = IF m.freq = "none" \/ m.name > 0 THEN m
                        ELSE Vendored(Vendored(m, cpuid), bios)
    BY <1>4 DEF ModelFromLscpu
  <2> DEFINE base == IF cpuModel.name = 0 THEN t ELSE cpuModel
             m == WithFrequency(base, f)
  <2>2. base \in ModelRecords
    BY <1>1, TextsType
  <2> HIDE DEF base
  <2>3. m \in ModelRecords
    BY <2>2, WithFrequencyType
  <2>4. cpuModel' = m \/ cpuModel' = Vendored(Vendored(m, cpuid), bios)
    BY <2>1 DEF base
  <2> HIDE DEF m
  <2>5. Vendored(m, cpuid) \in ModelRecords
    BY <2>3, VendoredType
  <2>6. Vendored(Vendored(m, cpuid), bios) \in ModelRecords
    BY <2>5, VendoredType
  <2>7. QED
    BY <1>1, <1>4, <2>3, <2>4, <2>6, NameInv DEF ModelFromLscpu
<1>5. CASE ModelFromList
  <2>1. PICK t \in Texts \ {NoModel} : cpuModel' = t
    BY <1>5 DEF ModelFromList
  <2>2. cpuModel' \in ModelRecords
    BY <2>1, TextsType
  <2>3. QED
    BY <1>1, <1>5, <2>2, NameInv DEF ModelFromList
<1>6. CASE ListEnds
  <2>1. PICK n \in NameLengths \cup {0} :
          cpuModel' = IF cpuModel = NoModel THEN [NoModel EXCEPT !.name = n] ELSE cpuModel
    BY <1>6 DEF ListEnds
  <2>2. [NoModel EXCEPT !.name = n] \in ModelRecords
    BY DEF NoModel, ModelRecords
  <2>3. cpuModel' \in ModelRecords
    BY <1>1, <2>1, <2>2
  <2>4. QED
    BY <1>1, <1>6, <2>3, NameInv DEF ListEnds
<1>7. CASE WindowsModel
  <2>1. cpuModel' \in ModelRecords /\ recordLost' \in BOOLEAN
    BY <1>1, <1>7, TextsType DEF WindowsModel
  <2>2. QED
    BY <1>7, <2>1, NameInv DEF WindowsModel
<1>8. CASE OtherModel
  <2>1. cpuModel' \in ModelRecords
    BY <1>8 DEF OtherModel, ModelRecords
  <2>2. QED
    BY <1>1, <1>8, <2>1, NameInv DEF OtherModel
<1>9. QED
  BY <1>3, <1>4, <1>5, <1>6, <1>7, <1>8

LEMMA CpuNextInv == ASSUME CpuInv, CpuNext, os' = os PROVE CpuInv'
BY GopsutilInv, LscpuInv, ProcCpuinfoInv, BothCountsInv, NoFallbackInv, CoresFormattedInv, ModelInv
   DEF CpuNext

LEMMA CpuUnchangedInv == ASSUME CpuInv, os' = os, UNCHANGED cpuVars PROVE CpuInv'
BY DEF cpuVars, CpuInv, CpuTypes, CoresPositive, QuotientKept, NamedFirst

-----------------------------------------------------------------------------
(***************************************************************************)
(* The call around it.                                                      *)
(***************************************************************************)

Alive == {t \in Tasks : worker[t] \in {"asking", "leaving"}}

CallTypes ==
  /\ stack \in StackTypes
  /\ calls \in 0..MaxCalls
  /\ pc \in {"idle", "host", "nat", "cpu", "gpu", "spawn", "wait", "returned", "shown", "crashed"}
  /\ cpuType \in {"blank", "Virtual", "Physical"}
  /\ nat \in NatRecords
  /\ natType \in {"none", "named", "Inconclusive", "gateway"}
  /\ natHeard \in BOOLEAN
  /\ worker \in [Tasks -> {"unborn", "asking", "leaving", "done"}]
  /\ wg = Cardinality(Alive)

\* The record is lost in the CPU query, and what comes behind notices.
LossNoticed ==
  /\ pc = "crashed" => recordLost
  /\ pc \in {"returned", "shown"} => ~recordLost

\* A conclusive attempt was the last one.
NatInv ==
  /\ pc \in {"idle", "host", "nat"} => natType = "none"
  /\ pc \in {"idle", "host"} => ~natHeard
  /\ pc = "nat" /\ natHeard => Found(nat) /\ nat.method > Methods
  /\ natHeard /\ pc # "nat" => natType = "named"

\* What a goroutine has left behind is its answer, or nothing when it panicked.
TasksInv ==
  /\ answered = [s \in Tasks |-> answered[s]] /\ local = answered
  /\ \A t \in Tasks : worker[t] \in {"unborn", "asking"} => answered[t] = {}
  /\ pc \in {"wait", "returned", "shown"} => \A t \in Tasks : worker[t] # "unborn"
  /\ pc \in {"returned", "shown"} =>
       ret = answered /\ \A t \in Tasks : worker[t] = "done"
  /\ pc = "shown" => \A t \in Tasks : answered[t] \ Hidden \subseteq rows

IInv == CpuInv /\ CallTypes /\ LossNoticed /\ NatInv /\ TasksInv

LEMMA NoneAlive ==
  ASSUME worker = [t \in Tasks |-> "unborn"] PROVE Cardinality(Alive) = 0
<1>1. Alive = {}
  BY DEF Alive
<1>2. QED
  BY <1>1, FS_EmptySet

LEMMA TasksFinite == IsFiniteSet(Tasks)
<1>1. IsFiniteSet({"disk"})
  BY FS_Singleton
<1>2. IsFiniteSet({"disk"} \cup {"memory"})
  BY <1>1, FS_AddElement
<1>3. IsFiniteSet(({"disk"} \cup {"memory"}) \cup {"load"})
  BY <1>2, FS_AddElement
<1>4. IsFiniteSet((({"disk"} \cup {"memory"}) \cup {"load"}) \cup {"tcp"})
  BY <1>3, FS_AddElement
<1>5. Tasks = (({"disk"} \cup {"memory"}) \cup {"load"}) \cup {"tcp"}
  BY DEF Tasks
<1>6. QED
  BY <1>4, <1>5

LEMMA AliveFinite == Alive \subseteq Tasks /\ IsFiniteSet(Alive)
BY TasksFinite, FS_Subset DEF Alive

LEMMA FirstTryType == FirstTry \in NatRecords
BY SystemAssumption DEF FirstTry, NatRecords, Hearings

LEMMA InitIInv == Init => IInv
<1> SUFFICES ASSUME Init PROVE IInv
  OBVIOUS
<1>1. CpuInv
  <2>1. CpuTypes
    BY DEF Init, CpuTypes, CpuPlaces, CoreRecords, ModelRecords, NoCores, NoModel
  <2>2. CoresPositive /\ QuotientKept /\ NamedFirst
    BY DEF Init, CoresPositive, QuotientKept, NamedFirst, NoModel
  <2>3. QED
    BY <2>1, <2>2 DEF Init, CpuInv
<1>2. CallTypes
  <2>1. wg = Cardinality(Alive)
    BY NoneAlive DEF Init
  <2>2. calls \in 0..MaxCalls
    BY SystemAssumption DEF Init
  <2>3. nat \in NatRecords
    BY FirstTryType DEF Init
  <2>4. worker \in [Tasks -> {"unborn", "asking", "leaving", "done"}]
    BY DEF Init
  <2>5. QED
    BY <2>1, <2>2, <2>3, <2>4 DEF Init, CallTypes
<1>3. LossNoticed /\ NatInv
  BY DEF Init, LossNoticed, NatInv
<1>4. TasksInv
  BY DEF Init, TasksInv, Blank
<1>5. QED
  BY <1>1, <1>2, <1>3, <1>4 DEF IInv

LEMMA CallIInv == ASSUME IInv, Call PROVE IInv'
<1>1. CpuInv'
  BY ForgottenInv DEF IInv, CpuInv, CpuTypes, Call, frame
<1>2. CallTypes'
  <2>1. Cardinality(Alive)' = 0
    <3>1. Alive' = {}
      BY DEF Call, Alive
    <3>2. QED
      BY <3>1, FS_EmptySet
  <2>2. calls' \in 0..MaxCalls
    BY SystemAssumption DEF IInv, CallTypes, Call
  <2>3. QED
    BY <2>1, <2>2, FirstTryType DEF IInv, CallTypes, Call, frame
<1>3. LossNoticed' /\ NatInv'
  BY DEF Call, LossNoticed, NatInv
<1>4. TasksInv'
  BY DEF Call, TasksInv, Blank
<1>5. QED
  BY <1>1, <1>2, <1>3, <1>4 DEF IInv

\* A step that leaves the goroutines alone before they are born.
LEMMA TasksStay ==
  ASSUME TasksInv, UNCHANGED taskVars, pc' \notin {"wait", "returned", "shown"}
  PROVE  TasksInv'
BY DEF TasksInv, taskVars

LEMMA AliveStays == ASSUME UNCHANGED taskVars PROVE Alive' = Alive
BY DEF Alive, taskVars

LEMMA HostIInv == ASSUME IInv, HostFails \/ HostKnown PROVE IInv'
<1>1. /\ pc = "host" /\ pc' \in {"nat", "cpu"} /\ cpuType' \in {cpuType, "Virtual", "Physical"}
      /\ UNCHANGED <<frame, cpuVars, calls, natVars, taskVars>>
      /\ pc' = "cpu" \/ pc' = "nat"
  BY Zenon DEF HostFails, HostKnown
<1>2. CpuInv'
  BY <1>1, CpuUnchangedInv DEF IInv, frame
<1>3. CallTypes'
  BY <1>1, AliveStays DEF IInv, CallTypes, frame, natVars, taskVars
<1>4. LossNoticed' /\ NatInv'
  BY <1>1 DEF IInv, LossNoticed, NatInv, natVars, cpuVars
<1>5. TasksInv'
  BY <1>1, TasksStay DEF IInv
<1>6. QED
  BY <1>2, <1>3, <1>4, <1>5 DEF IInv

LEMMA NatAttemptIInv == ASSUME IInv, NatAttempt PROVE IInv'
<1>1. /\ pc = "nat" /\ nat.method <= Methods
      /\ UNCHANGED <<frame, cpuVars, pc, calls, hostVars, natType, taskVars>>
  BY DEF NatAttempt
<1>2. PICK o \in Outcomes(nat.method) :
        LET n == [nat EXCEPT !.mapping = o[1], !.filtering = o[2]]
            next == AfterAttempt(n)
        IN /\ nat' = [n EXCEPT !.method = next[1], !.server = next[2]]
           /\ natHeard' = (natHeard \/ Found(n))
  BY DEF NatAttempt
<1> DEFINE n == [nat EXCEPT !.mapping = o[1], !.filtering = o[2]]
           next == AfterAttempt(n)
<1>3. nat \in NatRecords /\ natHeard \in BOOLEAN /\ natType = "none" /\ ~natHeard
  <2>1. nat \in NatRecords /\ natHeard \in BOOLEAN /\ natType = "none"
    BY <1>1 DEF IInv, CallTypes, NatInv
  <2>2. ~(nat.method > Methods)
    BY <1>1, <2>1, SystemAssumption DEF NatRecords
  <2>3. natHeard => nat.method > Methods
    BY <1>1 DEF IInv, NatInv
  <2>4. QED
    BY <2>1, <2>2, <2>3
<1>4. o[1] \in Hearings /\ o[2] \in Hearings
  BY DEF Outcomes, Hearings
<1>5. n \in NatRecords /\ n.method = nat.method /\ n.server = nat.server
  BY <1>3, <1>4 DEF NatRecords
<1>6. nat' = [n EXCEPT !.method = next[1], !.server = next[2]] /\ natHeard' = (natHeard \/ Found(n))
  BY <1>2
<1> HIDE DEF n
<1>7. n.method \in 1..Methods /\ n.server \in 1..Servers /\ Methods \in Nat \ {0} /\ Servers \in Nat \ {0}
  BY <1>1, <1>3, <1>5, SystemAssumption DEF NatRecords
<1>8. next[1] \in 1..(Methods + 1) /\ next[2] \in 1..Servers
  <2>1. CASE Found(n)
    BY <1>7, <2>1 DEF AfterAttempt
  <2>2. CASE ~Found(n) /\ n.server < Servers
    BY <1>7, <2>2 DEF AfterAttempt
  <2>3. CASE ~Found(n) /\ ~(n.server < Servers)
    BY <1>7, <2>3 DEF AfterAttempt
  <2>4. QED
    BY <2>1, <2>2, <2>3
<1>9. Found(n) => next[1] = Methods + 1
  BY DEF AfterAttempt
<1> HIDE DEF next
<1>10. /\ nat' \in NatRecords /\ nat'.method = next[1]
       /\ nat'.mapping = n.mapping /\ nat'.filtering = n.filtering
  BY <1>5, <1>6, <1>8 DEF NatRecords
<1>11. CallTypes'
  BY <1>1, <1>3, <1>6, <1>10, AliveStays DEF IInv, CallTypes, frame, hostVars, taskVars
<1>12. NatInv'
  <2>1. natHeard' => Found(n)
    BY <1>3, <1>6
  <2>2. natHeard' => Found(nat)' /\ nat'.method > Methods
    BY <1>7, <1>9, <1>10, <2>1 DEF Found
  <2>3. QED
    BY <1>1, <1>3, <2>2 DEF NatInv
<1>13. CpuInv' /\ LossNoticed' /\ TasksInv'
  BY <1>1, CpuUnchangedInv, TasksStay DEF IInv, frame, LossNoticed, cpuVars
<1>14. QED
  BY <1>11, <1>12, <1>13 DEF IInv

LEMMA NatConcludesIInv == ASSUME IInv, NatConcludes PROVE IInv'
<1>1. /\ pc = "nat" /\ pc' = "cpu" /\ nat.method > Methods /\ nat' = FirstTry
      /\ UNCHANGED <<frame, cpuVars, calls, hostVars, natHeard, taskVars>>
      /\ natType' \in {"named", "Inconclusive", "gateway"}
      /\ Found(nat) => natType' = "named"
  BY DEF NatConcludes
<1>2. CallTypes'
  BY <1>1, FirstTryType, AliveStays DEF IInv, CallTypes, frame, hostVars, taskVars
<1>3. NatInv'
  BY <1>1 DEF IInv, NatInv
<1>4. CpuInv' /\ LossNoticed' /\ TasksInv'
  BY <1>1, CpuUnchangedInv, TasksStay DEF IInv, frame, LossNoticed, cpuVars
<1>5. QED
  BY <1>2, <1>3, <1>4 DEF IInv

LEMMA CpuIInv == ASSUME IInv, CpuBegins \/ CpuSteps \/ CpuEnds PROVE IInv'
<1>1. /\ pc = "cpu" /\ pc' \in {"cpu", "gpu"}
      /\ UNCHANGED <<frame, calls, hostVars, natVars, taskVars>>
  BY DEF CpuBegins, CpuSteps, CpuEnds
<1>2. CpuInv'
  <2>1. CASE CpuBegins
    BY <2>1, CpuStartInv DEF IInv, CpuBegins, frame
  <2>2. CASE CpuSteps
    BY <2>2, CpuNextInv DEF IInv, CpuSteps, frame
  <2>3. CASE CpuEnds
    BY <2>3, ForgottenInv DEF IInv, CpuInv, CpuTypes, CpuEnds, frame
  <2>4. QED
    BY <2>1, <2>2, <2>3
<1>3. CallTypes'
  BY <1>1, AliveStays DEF IInv, CallTypes, frame, hostVars, natVars, taskVars
<1>4. LossNoticed' /\ NatInv' /\ TasksInv'
  BY <1>1, TasksStay DEF IInv, LossNoticed, NatInv, natVars
<1>5. QED
  BY <1>2, <1>3, <1>4 DEF IInv

LEMMA GpuIInv == ASSUME IInv, Gpu PROVE IInv'
<1>1. /\ pc = "gpu" /\ pc' \in {"spawn", "crashed"} /\ (pc' = "crashed" => recordLost)
      /\ UNCHANGED <<frame, cpuVars, calls, hostVars, natVars, taskVars>>
  BY DEF Gpu, GpuKnown, NoGpu
<1>2. CallTypes'
  BY <1>1, AliveStays DEF IInv, CallTypes, frame, hostVars, natVars, taskVars
<1>3. LossNoticed' /\ NatInv'
  BY <1>1 DEF IInv, LossNoticed, NatInv, natVars, cpuVars
<1>4. CpuInv' /\ TasksInv'
  BY <1>1, CpuUnchangedInv, TasksStay DEF IInv, frame
<1>5. QED
  BY <1>2, <1>3, <1>4 DEF IInv

LEMMA OrderLists ==
  /\ \A i \in 1..4 : Order[i] \in Tasks
  /\ \A t \in Tasks : \E i \in 1..4 : Order[i] = t
  /\ \A i, j \in 1..4 : Order[i] = Order[j] => i = j
<1>1. Order[1] = "disk" /\ Order[2] = "memory" /\ Order[3] = "load" /\ Order[4] = "tcp"
  BY DEF Order
<1>2. \A i \in 1..4 : i = 1 \/ i = 2 \/ i = 3 \/ i = 4
  OBVIOUS
<1>3. QED
  BY <1>1, <1>2 DEF Tasks

LEMMA SpawnIInv == ASSUME IInv, Spawn PROVE IInv'
<1>1. /\ pc = "spawn"
      /\ UNCHANGED <<frame, cpuVars, calls, hostVars, natVars, local, answered, ret>>
  BY DEF Spawn
<1>2. PICK i \in 1..4 :
        /\ \A j \in 1..4 : worker[Order[j]] = "unborn" <=> j >= i
        /\ worker' = [worker EXCEPT ![Order[i]] = "asking"]
        /\ wg' = wg + 1
        /\ pc' = IF i = 4 THEN "wait" ELSE "spawn"
  BY DEF Spawn
<1> DEFINE t == Order[i]
<1>3. /\ worker \in [Tasks -> {"unborn", "asking", "leaving", "done"}]
      /\ t \in Tasks /\ worker[t] = "unborn"
      /\ worker' = [worker EXCEPT ![t] = "asking"]
  BY <1>2, OrderLists DEF IInv, CallTypes
<1>4. pc' = "wait" => \A s \in Tasks : worker'[s] # "unborn"
  <2> SUFFICES ASSUME pc' = "wait", NEW s \in Tasks PROVE worker'[s] # "unborn"
    OBVIOUS
  <2>1. i = 4
    BY <1>2
  <2>2. PICK j \in 1..4 : Order[j] = s
    BY OrderLists
  <2>3. CASE j = i
    BY <1>3, <2>2, <2>3
  <2>4. CASE j # i
    <3>1. worker[s] # "unborn" /\ s # t
      BY <1>2, <2>1, <2>2, <2>4, OrderLists
    <3>2. QED
      BY <1>3, <3>1
  <2>5. QED
    BY <2>3, <2>4
<1>5. pc' \in {"wait", "spawn"}
  BY <1>2
<1> HIDE DEF t
<1>6. Cardinality(Alive') = Cardinality(Alive) + 1
  <2>1. Alive' = Alive \cup {t} /\ t \notin Alive
    BY <1>3 DEF Alive
  <2>2. QED
    BY <2>1, AliveFinite, FS_AddElement
<1>7. CallTypes'
  BY <1>1, <1>2, <1>3, <1>5, <1>6 DEF IInv, CallTypes, frame, hostVars, natVars
<1>8. TasksInv'
  BY <1>1, <1>3, <1>4, <1>5 DEF IInv, TasksInv
<1>9. CpuInv' /\ LossNoticed' /\ NatInv'
  BY <1>1, <1>5, CpuUnchangedInv DEF IInv, LossNoticed, NatInv, natVars, frame
<1>10. QED
  BY <1>7, <1>8, <1>9 DEF IInv

\* The answer, the panic and the end of a goroutine.
LEMMA TaskIInv == ASSUME IInv, NEW t \in Tasks, Task(t) PROVE IInv'
<1>1. /\ worker[t] \in {"asking", "leaving"}
      /\ worker \in [Tasks -> {"unborn", "asking", "leaving", "done"}]
      /\ UNCHANGED <<frame, cpuVars, pc, calls, hostVars, natVars, ret, rows>>
  BY DEF Task, TaskAnswers, TaskPanics, TaskDone, IInv, CallTypes
<1>2. pc \notin {"returned", "shown"}
  BY <1>1 DEF IInv, TasksInv
<1>3. /\ worker' \in [Tasks -> {"unborn", "asking", "leaving", "done"}]
      /\ \A s \in Tasks : s # t => worker'[s] = worker[s]
      /\ worker'[t] \in {"leaving", "done"}
  BY <1>1 DEF Task, TaskAnswers, TaskPanics, TaskDone
<1>4. wg' = Cardinality(Alive')
  <2>1. wg = Cardinality(Alive)
    BY DEF IInv, CallTypes
  <2>2. CASE TaskAnswers(t) \/ TaskPanics(t)
    <3>1. worker[t] = "asking" /\ worker' = [worker EXCEPT ![t] = "leaving"] /\ wg' = wg
      BY <2>2 DEF TaskAnswers, TaskPanics
    <3>2. Alive' = Alive
      BY <1>1, <3>1 DEF Alive
    <3>3. QED
      BY <2>1, <3>1, <3>2
  <2>3. CASE TaskDone(t)
    <3>1. worker[t] = "leaving" /\ worker' = [worker EXCEPT ![t] = "done"] /\ wg' = wg - 1
      BY <2>3 DEF TaskDone
    <3>2. Alive' = Alive \ {t} /\ t \in Alive
      BY <1>1, <3>1 DEF Alive
    <3>3. Cardinality(Alive') = Cardinality(Alive) - 1
      BY <3>2, AliveFinite, FS_RemoveElement
    <3>4. QED
      BY <2>1, <3>1, <3>3
  <2>4. QED
    BY <2>2, <2>3 DEF Task
<1>5. CallTypes'
  BY <1>1, <1>3, <1>4 DEF IInv, CallTypes, frame, hostVars, natVars
<1>6. answered' = [s \in Tasks |-> answered'[s]] /\ local' = answered'
      /\ \A s \in Tasks \ {t} : answered'[s] = answered[s]
  <2>1. answered = [s \in Tasks |-> answered[s]] /\ local = answered
    BY DEF IInv, TasksInv
  <2>2. CASE TaskAnswers(t)
    BY <2>1, <2>2 DEF TaskAnswers
  <2>3. CASE TaskPanics(t)
    <3>1. answered[t] = {} /\ local' = [local EXCEPT ![t] = {}] /\ answered' = answered
      BY <2>3 DEF TaskPanics, IInv, TasksInv
    <3>2. local' = local
      BY <2>1, <3>1
    <3>3. QED
      BY <2>1, <3>1, <3>2
  <2>4. CASE TaskDone(t)
    BY <2>1, <2>4 DEF TaskDone
  <2>5. QED
    BY <2>2, <2>3, <2>4 DEF Task
<1>7. TasksInv'
  <2>1. ASSUME NEW s \in Tasks, worker'[s] \in {"unborn", "asking"} PROVE answered'[s] = {}
    <3>1. s # t /\ worker[s] \in {"unborn", "asking"}
      BY <1>3, <2>1
    <3>2. QED
      BY <1>6, <3>1 DEF IInv, TasksInv
  <2>2. ASSUME pc = "wait", NEW s \in Tasks PROVE worker'[s] # "unborn"
    BY <1>3, <2>2 DEF IInv, TasksInv
  <2>3. pc' = pc
    BY <1>1
  <2>4. QED
    BY <1>2, <1>6, <2>1, <2>2, <2>3 DEF TasksInv
<1>8. CpuInv' /\ LossNoticed' /\ NatInv'
  BY <1>1, CpuUnchangedInv DEF IInv, LossNoticed, NatInv, natVars, cpuVars, frame
<1>9. QED
  BY <1>5, <1>7, <1>8 DEF IInv

LEMMA WaitIInv == ASSUME IInv, Wait PROVE IInv'
<1>1. /\ pc = "wait" /\ wg = 0
      /\ \/ recordLost /\ pc' = "crashed"
         \/ ~recordLost /\ pc' = "returned" /\ ret' = local
      /\ UNCHANGED <<frame, cpuVars, calls, hostVars, natVars, worker, local, answered, wg>>
  BY DEF Wait
<1>2. Alive = {}
  BY <1>1, AliveFinite, FS_EmptySet DEF IInv, CallTypes
<1>3. \A t \in Tasks : worker[t] = "done"
  BY <1>1, <1>2 DEF IInv, CallTypes, TasksInv, Alive
<1>4. Alive' = Alive
  BY <1>1 DEF Alive
<1>5. CallTypes'
  BY <1>1, <1>4 DEF IInv, CallTypes, frame, hostVars, natVars
<1>6. TasksInv'
  BY <1>1, <1>3 DEF IInv, TasksInv
<1>7. CpuInv' /\ LossNoticed' /\ NatInv'
  BY <1>1, CpuUnchangedInv DEF IInv, LossNoticed, NatInv, natVars, cpuVars, frame
<1>8. QED
  BY <1>5, <1>6, <1>7 DEF IInv

LEMMA ShowIInv == ASSUME IInv, Show PROVE IInv'
<1>1. /\ pc = "returned" /\ pc' = "shown"
      /\ UNCHANGED <<frame, cpuVars, calls, hostVars, natVars, taskVars>>
      /\ \E report \in {{}, {"congestion control"}} : rows' = RowsOf(report)
  BY DEF Show
<1>2. CallTypes'
  BY <1>1, AliveStays DEF IInv, CallTypes, frame, hostVars, natVars, taskVars
<1>3. ret = answered /\ answered = [s \in Tasks |-> answered[s]]
  BY <1>1 DEF IInv, TasksInv
<1>4. \A t \in Tasks : answered[t] \ Hidden \subseteq rows'
  BY <1>1, <1>3 DEF RowsOf, Tasks
<1>5. Hidden' = Hidden
  BY <1>1 DEF Hidden, frame
<1>6. TasksInv'
  BY <1>1, <1>3, <1>4, <1>5 DEF IInv, TasksInv, taskVars
<1>7. CpuInv' /\ LossNoticed' /\ NatInv'
  BY <1>1, CpuUnchangedInv DEF IInv, LossNoticed, NatInv, natVars, cpuVars, frame
<1>8. QED
  BY <1>2, <1>6, <1>7 DEF IInv

LEMMA NextIInv == IInv /\ [Next]_vars => IInv'
<1> SUFFICES ASSUME IInv, [Next]_vars PROVE IInv'
  OBVIOUS
<1>1. CASE Next
  BY <1>1, CallIInv, HostIInv, NatAttemptIInv, NatConcludesIInv, CpuIInv, GpuIInv, SpawnIInv,
     TaskIInv, WaitIInv, ShowIInv DEF Next, Host
<1>2. CASE UNCHANGED vars
  <2>1. CpuInv'
    BY <1>2, CpuUnchangedInv DEF IInv, vars, frame
  <2>2. CallTypes' /\ LossNoticed' /\ NatInv'
    BY <1>2, AliveStays DEF vars, IInv, CallTypes, LossNoticed, NatInv, frame, hostVars, natVars,
       taskVars, cpuVars
  <2>3. TasksInv'
    BY <1>2 DEF vars, IInv, TasksInv, taskVars, Hidden, frame
  <2>4. QED
    BY <2>1, <2>2, <2>3 DEF IInv
<1>3. QED
  BY <1>1, <1>2

LEMMA Invariance == Spec => []IInv
<1>1. QED
  BY InitIInv, NextIInv, PTL DEF Spec

-----------------------------------------------------------------------------

\* The counts that the text divides by are positive once it is formed, and the WaitGroup's
\* counter is the number of goroutines at work, whatever the sources say.
THEOREM TypeCorrect == Spec => []TypeOK
<1>1. IInv => TypeOK
  <2> SUFFICES ASSUME IInv PROVE TypeOK
    OBVIOUS
  <2>1. CpuTypeOK
    BY DEF IInv, CpuInv, CpuTypes, CoresPositive, CpuTypeOK, CoreRecords, ModelRecords
  <2>2. nat.method \in 1..(Methods + 1) /\ nat.server \in 1..Servers
    BY DEF IInv, CallTypes, NatRecords
  <2>3. QED
    BY <2>1, <2>2 DEF IInv, CpuInv, CpuTypes, CallTypes, TypeOK, Alive
<1>2. QED
  BY <1>1, Invariance, PTL

\* Every answer of a goroutine that did not panic is in the text, whatever order they end
\* in and whatever happens to the others.
THEOREM AnswersAreShown == Spec => []AnswersShown
<1>1. IInv => AnswersShown
  BY DEF IInv, TasksInv, AnswersShown
<1>2. QED
  BY <1>1, Invariance, PTL

\* A process that goes down is one on Windows whose CPU query failed, and then it does.
THEOREM CrashHasOneCause == Spec => []OnlyLostRecordCrashes
<1>1. IInv => OnlyLostRecordCrashes
  BY DEF IInv, CpuInv, LossNoticed, OnlyLostRecordCrashes
<1>2. QED
  BY <1>1, Invariance, PTL

\* A conclusive attempt of any method with any server is the one that is reported.
THEOREM NatAnswerIsKept == Spec => []NatAnswerKept
<1>1. IInv => NatAnswerKept
  BY DEF IInv, NatInv, NatAnswerKept
<1>2. QED
  BY <1>1, Invariance, PTL

\* Whatever the counts, a machine is called hybrid on the word of one source only when its
\* threads are no multiple of its cores.
THEOREM HybridMeansUneven == Spec => []HybridIsUneven
<1>1. IInv => HybridIsUneven
  <2> SUFFICES ASSUME IInv, label = "hybrid", threadsBy \in {"gopsutil", "counts"},
                      cores.logical % cores.physical = 0, ~(cores.logical < cores.physical)
               PROVE  FALSE
    BY DEF HybridIsUneven
  <2>1. /\ cores.logical \in Nat /\ cores.physical \in Nat /\ cores.physical > 0
        /\ cores.logical # cores.physical * cores.threads
    BY DEF IInv, CpuInv, CpuTypes, CoreRecords, QuotientKept
  <2>2. cores.logical >= cores.physical
    BY <2>1
  <2>3. cores.threads = cores.logical \div cores.physical
    BY <2>2 DEF IInv, CpuInv, QuotientKept
  <2>4. cores.logical = cores.physical * (cores.logical \div cores.physical)
    BY <2>1, Divides
  <2>5. QED
    BY <2>1, <2>3, <2>4
<1>2. QED
  BY <1>1, Invariance, PTL

\* No source of a processor's name takes a frequency out of it.
THEOREM FrequencyIsKept == Spec => FrequencyKept
<1>1. IInv /\ [Next]_vars =>
        [cpuModel.freq = "plain" => cpuModel'.freq = "plain" \/ cpuStep' = "idle"]_cpuVars
  <2> SUFFICES ASSUME IInv, [Next]_vars, cpuModel.freq = "plain"
               PROVE  cpuModel'.freq = "plain" \/ cpuStep' = "idle" \/ UNCHANGED cpuVars
    OBVIOUS
  <2>1. /\ cpuModel \in ModelRecords /\ cpuStep \notin Unnamed
        /\ cpuStep = "named" => cpuModel.name # 0
    BY DEF IInv, CpuInv, CpuTypes, NamedFirst, NoModel
  <2>2. CASE Call \/ CpuEnds
    BY <2>2 DEF Call, CpuEnds, Forgotten
  <2>3. CASE CpuBegins
    BY <2>1, <2>3 DEF CpuBegins, Unnamed, Counting
  <2>4. CASE CpuSteps
    <3>1. cpuStep \in {"named", "listed", "done"}
      BY <2>1 DEF IInv, CpuInv, CpuTypes, Unnamed, Counting, CpuPlaces
    <3>2. ModelFromLscpu \/ ModelFromList \/ ListEnds
      BY <2>1, <2>4, <3>1, PlacesApart
         DEF CpuSteps, CpuNext, GopsutilCounts, Lscpu, ProcCpuinfo, BothCounts, NoFallback,
             CoresFormatted, ModelFromProc, WindowsModel, OtherModel, CpuPlaces
    <3>3. CASE ModelFromLscpu
      <4>1. PICK t \in Texts, f \in {"none", "plain", "odd"}, cpuid \in NameLengths \cup {0},
                 bios \in NameLengths \cup {0} :
              LET m == WithFrequency(IF cpuModel.name = 0 THEN t ELSE cpuModel, f) IN
                cpuModel' = IF m.freq = "none" \/ m.name > 0 THEN m
                            ELSE Vendored(Vendored(m, cpuid), bios)
        BY <3>3 DEF ModelFromLscpu
      <4>2. cpuModel.name \in Nat /\ cpuModel.name > 0
        <5>1. \A n \in NameLengths \cup {0} : n \in Nat
          BY CpuAssumption
        <5>2. cpuModel.name \in NameLengths \cup {0} /\ cpuModel.name # 0
          BY <2>1, <3>3 DEF ModelRecords, ModelFromLscpu
        <5>3. QED
          BY <5>1, <5>2
      <4>3. WithFrequency(cpuModel, f) = cpuModel
        BY <2>1, WithFrequencyType
      <4>4. cpuModel' = cpuModel
        BY <4>1, <4>2, <4>3
      <4>5. QED
        BY <4>4
    <3>4. CASE ModelFromList
      BY <3>4 DEF ModelFromList, Better
    <3>5. CASE ListEnds
      BY <3>5 DEF ListEnds, NoModel
    <3>6. QED
      BY <3>2, <3>3, <3>4, <3>5
  <2>5. CASE Host \/ Gpu \/ Spawn \/ Wait \/ Show \/ (\E t \in Tasks : Task(t))
    BY <2>5 DEF Host, HostFails, HostKnown, NatAttempt, NatConcludes, Gpu, GpuKnown, NoGpu,
       Spawn, Wait, Show, Task, TaskAnswers, TaskPanics, TaskDone
  <2>6. CASE UNCHANGED vars
    BY <2>6 DEF vars
  <2>7. QED
    BY <2>2, <2>3, <2>4, <2>5, <2>6 DEF Next
<1>2. QED
  BY <1>1, Invariance, PTL DEF Spec, FrequencyKept

-----------------------------------------------------------------------------
(***************************************************************************)
(* The attempts at the NAT type and the goroutines come to an end.          *)
(***************************************************************************)

\* The goroutines are started in their order, none before the last of the queries.
Going == {"spawn", "wait", "returned"}

BornInOrder ==
  /\ pc \in {"idle", "host", "nat", "cpu", "gpu"} => \A t \in Tasks : worker[t] = "unborn"
  /\ pc = "spawn" => \E i \in 1..4 : \A j \in 1..4 : worker[Order[j]] = "unborn" <=> j >= i

LEMMA SpawnKeepsOrder == ASSUME IInv, Spawn PROVE BornInOrder'
<1>1. PICK i \in 1..4 :
        /\ \A j \in 1..4 : worker[Order[j]] = "unborn" <=> j >= i
        /\ worker' = [worker EXCEPT ![Order[i]] = "asking"]
        /\ pc' = IF i = 4 THEN "wait" ELSE "spawn"
  BY DEF Spawn
<1>2. \A j \in 1..4 : worker'[Order[j]] = IF j = i THEN "asking" ELSE worker[Order[j]]
  BY <1>1, OrderLists DEF IInv, CallTypes
<1>3. pc' = "spawn" => i + 1 \in 1..4
  BY <1>1
<1>4. \A j \in 1..4 : worker'[Order[j]] = "unborn" <=> j >= i + 1
  BY <1>1, <1>2
<1>5. QED
  BY <1>1, <1>3, <1>4 DEF BornInOrder

LEMMA TaskKeepsOrder == ASSUME IInv, BornInOrder, NEW t \in Tasks, Task(t) PROVE BornInOrder'
<1>1. /\ worker[t] # "unborn" /\ worker'[t] # "unborn" /\ pc' = pc
      /\ \A s \in Tasks : s # t => worker'[s] = worker[s]
  BY DEF Task, TaskAnswers, TaskPanics, TaskDone, IInv, CallTypes
<1>2. \A s \in Tasks : worker'[s] = "unborn" <=> worker[s] = "unborn"
  BY <1>1
<1>3. QED
  BY <1>1, <1>2, OrderLists DEF BornInOrder

LEMMA NextBorn == IInv /\ BornInOrder /\ [Next]_vars => BornInOrder'
<1> SUFFICES ASSUME IInv, BornInOrder, [Next]_vars PROVE BornInOrder'
  OBVIOUS
<1>1. CASE Call
  BY <1>1 DEF Call, BornInOrder
<1>2. CASE Gpu
  <2>1. pc = "gpu" /\ pc' \in {"spawn", "crashed"} /\ worker' = worker
    BY <1>2 DEF Gpu, GpuKnown, NoGpu, taskVars
  <2>2. \A j \in 1..4 : worker'[Order[j]] = "unborn" <=> j >= 1
    BY <2>1, OrderLists DEF BornInOrder
  <2>3. QED
    BY <2>1, <2>2 DEF BornInOrder
<1>3. CASE Host \/ CpuBegins \/ CpuSteps \/ CpuEnds
  BY <1>3 DEF Host, HostFails, HostKnown, NatAttempt, NatConcludes, CpuBegins, CpuSteps, CpuEnds,
     taskVars, BornInOrder
<1>4. CASE Wait \/ Show
  BY <1>4 DEF Wait, Show, BornInOrder
<1>5. CASE UNCHANGED vars
  BY <1>5 DEF vars, taskVars, BornInOrder
<1>6. QED
  BY <1>1, <1>2, <1>3, <1>4, <1>5, SpawnKeepsOrder, TaskKeepsOrder DEF Next

LEMMA BornInvariance == Spec => [](IInv /\ BornInOrder)
<1>1. Init => BornInOrder
  BY DEF Init, BornInOrder
<1>2. QED
  BY <1>1, NextBorn, Invariance, PTL DEF Spec

NatLeft == <<Methods + 1 - nat.method, Servers - nat.server>>

LEMMA NatAttemptLess == ASSUME IInv, NatAttempt PROVE LexLess(NatLeft', NatLeft)
<1>1. PICK o \in Outcomes(nat.method) :
        LET n == [nat EXCEPT !.mapping = o[1], !.filtering = o[2]]
            next == AfterAttempt(n)
        IN nat' = [n EXCEPT !.method = next[1], !.server = next[2]]
  BY DEF NatAttempt
<1> DEFINE n == [nat EXCEPT !.mapping = o[1], !.filtering = o[2]]
           next == AfterAttempt(n)
<1>2. /\ nat \in NatRecords /\ nat.method \in 1..Methods /\ nat.server \in 1..Servers
      /\ Methods \in Nat /\ Servers \in Nat
  BY SystemAssumption DEF NatAttempt, IInv, CallTypes, NatRecords
<1>3. n.method = nat.method /\ n.server = nat.server
      /\ n = [n EXCEPT !.mapping = o[1]] /\ nat'.method = next[1] /\ nat'.server = next[2]
  BY <1>1, <1>2 DEF NatRecords
<1> HIDE DEF n
<1>4. \/ next[1] \in (nat.method + 1)..(Methods + 1)
      \/ next[1] = nat.method /\ next[2] = nat.server + 1
  BY <1>2, <1>3 DEF AfterAttempt
<1> HIDE DEF next
<1>5. DOMAIN NatLeft = 1..2
  BY DEF NatLeft
<1>6. CASE next[1] \in (nat.method + 1)..(Methods + 1)
  <2>1. NatLeft'[1] < NatLeft[1]
    BY <1>2, <1>3, <1>6 DEF NatLeft
  <2>2. QED
    BY <1>5, <2>1 DEF LexLess
<1>7. CASE next[1] = nat.method /\ next[2] = nat.server + 1
  <2>1. NatLeft'[2] < NatLeft[2] /\ NatLeft'[1] = NatLeft[1]
    BY <1>2, <1>3, <1>7 DEF NatLeft
  <2>2. QED
    BY <1>5, <2>1 DEF LexLess
<1>8. QED
  BY <1>4, <1>6, <1>7

\* Every attempt, whatever the servers answer, is nearer to the end of the two loops
\* (nat.go:17-51), so that there are at most as many as there are pairs of a method and a
\* server.
THEOREM NatLoopsEnd ==
  Spec => /\ [](\A i \in 1..2 : NatLeft[i] \in Nat)
          /\ [][pc = "nat" => pc' = "cpu" \/ LexLess(NatLeft', NatLeft)]_vars
<1>1. IInv => \A i \in 1..2 : NatLeft[i] \in Nat
  <2> SUFFICES ASSUME IInv PROVE NatLeft[1] \in Nat /\ NatLeft[2] \in Nat
    OBVIOUS
  <2>1. QED
    BY SystemAssumption DEF IInv, CallTypes, NatRecords, NatLeft
<1>2. IInv /\ BornInOrder /\ [Next]_vars => [pc = "nat" => pc' = "cpu" \/ LexLess(NatLeft', NatLeft)]_vars
  <2> SUFFICES ASSUME IInv, BornInOrder, Next, pc = "nat" PROVE pc' = "cpu" \/ NatAttempt
    BY NatAttemptLess
  <2>1. ASSUME NEW t \in Tasks, Task(t) PROVE FALSE
    BY <2>1 DEF BornInOrder, Task, TaskAnswers, TaskPanics, TaskDone
  <2>2. QED
    BY <2>1 DEF Next, Call, Host, HostFails, HostKnown, NatConcludes, CpuBegins, CpuSteps,
       CpuEnds, Gpu, GpuKnown, NoGpu, Spawn, Wait, Show
<1>3. QED
  BY <1>1, <1>2, BornInvariance, PTL DEF Spec

Unborn == {t \in Tasks : worker[t] = "unborn"}
Asking == {t \in Tasks : worker[t] = "asking"}

PlaceLeft == [spawn |-> 3, wait |-> 2, returned |-> 1, shown |-> 0, crashed |-> 0]

\* What is left to do from the first goroutine on.
GoLeft == <<PlaceLeft[pc], Cardinality(Unborn), Cardinality(Asking), Cardinality(Alive)>>

\* A step towards the text or the crash.
GoesOn == pc \in Going => pc' \in Going \cup {"shown", "crashed"} /\ LexLess(GoLeft', GoLeft)

\* Somebody can go on: the next goroutine is there to be started, the caller waits for one
\* that is alive or for none, or the text is written.
CanGoOn ==
  \/ pc = "spawn" /\ \E i \in 1..4 : \A j \in 1..4 : worker[Order[j]] = "unborn" <=> j >= i
  \/ pc = "wait" /\ (wg = 0 \/ Alive # {})
  \/ pc = "returned"

LEMMA GroupsFinite ==
  /\ IsFiniteSet(Unborn) /\ Cardinality(Unborn) \in Nat
  /\ IsFiniteSet(Asking) /\ Cardinality(Asking) \in Nat
  /\ IsFiniteSet(Alive) /\ Cardinality(Alive) \in Nat
<1>1. IsFiniteSet(Tasks)
  BY TasksFinite
<1>2. Unborn \subseteq Tasks /\ Asking \subseteq Tasks /\ Alive \subseteq Tasks
  BY DEF Unborn, Asking, Alive
<1>3. QED
  BY <1>1, <1>2, FS_Subset, FS_CardinalityType

LEMMA GoLeftDomain == DOMAIN GoLeft = 1..4
BY DEF GoLeft

\* A tuple whose first component that changes goes down is smaller.
LEMMA FirstDown ==
  ASSUME NEW a, NEW b, DOMAIN b = 1..4, NEW i \in 1..4, a[i] < b[i],
         \A j \in 1..(i - 1) : a[j] = b[j]
  PROVE  LexLess(a, b)
BY DEF LexLess

\* The caller goes from place to place.
LEMMA PlaceLess ==
  ASSUME pc \in Going, pc' \in Going \cup {"shown", "crashed"}, PlaceLeft[pc'] < PlaceLeft[pc]
  PROVE  LexLess(GoLeft', GoLeft)
<1>1. GoLeft'[1] < GoLeft[1]
  BY DEF GoLeft
<1>2. QED
  BY <1>1, GoLeftDomain, FirstDown

LEMMA SpawnLess == ASSUME IInv, Spawn PROVE pc' \in Going /\ LexLess(GoLeft', GoLeft)
<1>1. PICK i \in 1..4 :
        /\ \A j \in 1..4 : worker[Order[j]] = "unborn" <=> j >= i
        /\ worker' = [worker EXCEPT ![Order[i]] = "asking"]
        /\ pc' = IF i = 4 THEN "wait" ELSE "spawn"
  BY DEF Spawn
<1>2. /\ pc = "spawn" /\ Order[i] \in Tasks /\ worker[Order[i]] = "unborn"
      /\ worker \in [Tasks -> {"unborn", "asking", "leaving", "done"}]
  BY <1>1, OrderLists DEF Spawn, IInv, CallTypes
<1>3. CASE pc' = "wait"
  BY <1>2, <1>3, PlaceLess DEF Going, PlaceLeft
<1>4. CASE pc' = "spawn"
  <2>1. Unborn' = Unborn \ {Order[i]} /\ Order[i] \in Unborn
    BY <1>1, <1>2 DEF Unborn
  <2>2. Cardinality(Unborn') = Cardinality(Unborn) - 1
    BY <2>1, GroupsFinite, FS_RemoveElement
  <2>3. GoLeft'[2] < GoLeft[2] /\ GoLeft'[1] = GoLeft[1]
    BY <1>2, <1>4, <2>2, GroupsFinite DEF GoLeft
  <2>4. QED
    BY <1>4, <2>3, GoLeftDomain, FirstDown DEF Going
<1>5. QED
  BY <1>1, <1>3, <1>4

LEMMA TaskLess == ASSUME IInv, NEW t \in Tasks, Task(t) PROVE LexLess(GoLeft', GoLeft)
<1>1. pc' = pc /\ worker \in [Tasks -> {"unborn", "asking", "leaving", "done"}]
  BY DEF Task, TaskAnswers, TaskPanics, TaskDone, IInv, CallTypes
<1>2. CASE TaskAnswers(t) \/ TaskPanics(t)
  <2>1. worker[t] = "asking" /\ worker' = [worker EXCEPT ![t] = "leaving"]
    BY <1>2 DEF TaskAnswers, TaskPanics
  <2>2. Unborn' = Unborn /\ Asking' = Asking \ {t} /\ t \in Asking
    BY <1>1, <2>1 DEF Unborn, Asking
  <2>3. Cardinality(Asking') = Cardinality(Asking) - 1
    BY <2>2, GroupsFinite, FS_RemoveElement
  <2>4. GoLeft'[3] < GoLeft[3] /\ GoLeft'[1] = GoLeft[1] /\ GoLeft'[2] = GoLeft[2]
    BY <1>1, <2>2, <2>3, GroupsFinite DEF GoLeft
  <2>5. QED
    BY <2>4, GoLeftDomain, FirstDown
<1>3. CASE TaskDone(t)
  <2>1. worker[t] = "leaving" /\ worker' = [worker EXCEPT ![t] = "done"]
    BY <1>3 DEF TaskDone
  <2>2. Unborn' = Unborn /\ Asking' = Asking /\ Alive' = Alive \ {t} /\ t \in Alive
    BY <1>1, <2>1 DEF Unborn, Asking, Alive
  <2>3. Cardinality(Alive') = Cardinality(Alive) - 1
    BY <2>2, GroupsFinite, FS_RemoveElement
  <2>4. /\ GoLeft'[4] < GoLeft[4] /\ GoLeft'[1] = GoLeft[1]
        /\ GoLeft'[2] = GoLeft[2] /\ GoLeft'[3] = GoLeft[3]
    BY <1>1, <2>2, <2>3, GroupsFinite DEF GoLeft
  <2>5. QED
    BY <2>4, GoLeftDomain, FirstDown
<1>4. QED
  BY <1>2, <1>3 DEF Task

\* Whichever goroutines panic and in whatever order they end, each step from the start of the
\* first one on is nearer to the text or the crash, and until then there is one to take:
\* the caller never waits for a goroutine that is gone (system.go:67-127).
THEOREM WaitIsServed ==
  Spec => /\ [](pc \in Going => \A i \in 1..4 : GoLeft[i] \in Nat)
          /\ [][GoesOn]_vars
          /\ [](pc \in Going => CanGoOn)
<1>1. ASSUME pc \in Going PROVE \A i \in 1..4 : GoLeft[i] \in Nat
  <2>1. GoLeft[1] \in Nat
    BY <1>1 DEF Going, GoLeft, PlaceLeft
  <2>2. GoLeft[2] \in Nat /\ GoLeft[3] \in Nat /\ GoLeft[4] \in Nat
    BY GroupsFinite DEF GoLeft
  <2> HIDE DEF GoLeft
  <2>3. QED
    BY <2>1, <2>2
<1>2. IInv /\ [Next]_vars => [GoesOn]_vars
  <2> SUFFICES ASSUME IInv, Next, pc \in Going
               PROVE  pc' \in Going \cup {"shown", "crashed"} /\ LexLess(GoLeft', GoLeft)
    BY DEF GoesOn
  <2>1. CASE Wait \/ Show
    <3>1. \/ pc = "wait" /\ pc' \in {"returned", "crashed"}
          \/ pc = "returned" /\ pc' = "shown"
      BY <2>1 DEF Wait, Show
    <3>2. pc' \in Going \cup {"shown", "crashed"} /\ PlaceLeft[pc'] < PlaceLeft[pc]
      BY <3>1 DEF Going, PlaceLeft
    <3>3. QED
      BY <3>2, PlaceLess
  <2>2. CASE \E t \in Tasks : Task(t)
    BY <2>2, TaskLess DEF Task, TaskAnswers, TaskPanics, TaskDone
  <2>3. CASE Spawn
    BY <2>3, SpawnLess
  <2>4. QED
    BY <2>1, <2>2, <2>3 DEF Going, Next, Call, Host, HostFails, HostKnown, NatAttempt,
       NatConcludes, CpuBegins, CpuSteps, CpuEnds, Gpu, GpuKnown, NoGpu
<1>3. IInv /\ BornInOrder => (pc \in Going => CanGoOn)
  <2> SUFFICES ASSUME IInv, BornInOrder, pc = "wait", Alive = {} PROVE wg = 0
    BY DEF CanGoOn, Going, BornInOrder
  <2>1. QED
    BY FS_EmptySet DEF IInv, CallTypes
<1>4. QED
  BY <1>1, <1>2, <1>3, BornInvariance, PTL DEF Spec
=============================================================================
