----------------------------- MODULE DiskProofs -----------------------------
(***************************************************************************)
(* Proofs about the disks: about the list of them (DiskList) for any         *)
(* machine, and about the self-test inside one (DeepTool) for any targets    *)
(* and platforms. The two systems share no state and no step.                *)
(***************************************************************************)
EXTENDS DiskList, DeepTool, LexOrder, FiniteSetTheorems, TLAPS

-----------------------------------------------------------------------------
(***************************************************************************)
(* The machine, and the sum of its sizes.                                   *)
(***************************************************************************)

MachineInv ==
  /\ os \in Systems /\ table \in Tables /\ size \in [Devices -> Sizes]
  /\ dfRoot \in Devices \cup {"none", "overlay"}

\* The table is finite and its devices have sizes.
LEMMA TableFacts ==
  ASSUME MachineInv
  PROVE  /\ Len(table) \in Nat /\ DOMAIN table = 1..Len(table) /\ IsFiniteSet(DOMAIN table)
         /\ \A n \in DOMAIN table : table[n].dev \in Devices
         /\ \A d \in Devices : size[d] \in Nat
<1> DEFINE Row == [dev : Devices, mount : Mounts \cup {"/"}, fs : {"disk", "virtual"}]
<1>1. table \in Seq(Row)
  BY DiskAssumption DEF MachineInv
<1>2. \A r \in Row : r.dev \in Devices
  OBVIOUS
<1> HIDE DEF Row
<1>3. Len(table) \in Nat /\ DOMAIN table = 1..Len(table) /\ \A n \in DOMAIN table : table[n] \in Row
  BY <1>1
<1>4. IsFiniteSet(1..Len(table))
  BY <1>3, FS_Interval
<1>5. \A d \in Devices : size[d] \in Nat
  BY DiskAssumption DEF MachineInv
<1>6. QED
  BY <1>2, <1>3, <1>4, <1>5

\* Induction up to a bound, on a set.
LEMMA UpTo ==
  ASSUME NEW last \in Nat, NEW S, 0 \in S, \A n \in 1..last : n - 1 \in S => n \in S
  PROVE  0..last \subseteq S
<1> DEFINE Rest == (0..last) \ S
<1>1. Rest = {}
  <2> SUFFICES ASSUME Rest # {} PROVE FALSE
    OBVIOUS
  <2>1. Rest \subseteq Nat
    OBVIOUS
  <2> HIDE DEF Rest
  <2>2. PICK n \in Rest : \A k \in Rest : ~(<<k, n>> \in OpToRel(<, Nat))
    BY <2>1, NatLessThanWellFounded, WFMin, Zenon
  <2>3. \A k \in Rest : ~(k < n)
    BY <2>1, <2>2, Zenon DEF OpToRel
  <2> USE DEF Rest
  <2>4. n \in 1..last /\ n - 1 < n
    OBVIOUS
  <2>5. n - 1 \notin Rest
    BY <2>3, <2>4
  <2>6. QED
    BY <2>4, <2>5
<1>2. QED
  BY <1>1

\* What a row of the table adds to the sum.
Share(n) == IF n \in FirstUses(UsableRows) THEN size[table[n].dev] ELSE 0

LEMMA SumDefined ==
  ASSUME MachineInv
  PROVE  \A n \in 0..Len(table) : SumTo[n] = IF n = 0 THEN 0 ELSE SumTo[n - 1] + Share(n)
<1> DEFINE Solves(f, m) == f = [n \in 0..m |-> IF n = 0 THEN 0 ELSE f[n - 1] + Share(n)]
           Solved == {m \in 0..Len(table) : \E f : Solves(f, m)}
<1>1. Len(table) \in Nat
  BY TableFacts
<1>2. 0 \in Solved
  <2>1. Solves([n \in 0..0 |-> 0], 0)
    OBVIOUS
  <2>2. 0 \in 0..Len(table)
    BY <1>1
  <2>3. QED
    BY <2>1, <2>2
<1>3. ASSUME NEW m \in 1..Len(table), m - 1 \in Solved PROVE m \in Solved
  <2>1. PICK f : Solves(f, m - 1)
    BY <1>3
  <2> DEFINE g == [n \in 0..m |-> IF n = m THEN f[m - 1] + Share(m) ELSE f[n]]
  <2>2. g[0] = 0
    BY <1>3, <2>1
  <2>3. ASSUME NEW n \in 0..m, n # 0 PROVE g[n] = g[n - 1] + Share(n)
    <3>1. n - 1 \in 0..(m - 1) /\ g[n - 1] = f[n - 1]
      BY <1>1, <2>3
    <3>2. CASE n = m
      BY <3>1, <3>2
    <3>3. CASE n # m
      <4>1. n \in 0..(m - 1)
        BY <1>1, <2>3, <3>3
      <4>2. f[n] = f[n - 1] + Share(n)
        BY <2>1, <2>3, <4>1
      <4>3. QED
        BY <3>1, <3>3, <4>2
    <3>4. QED
      BY <3>2, <3>3
  <2>4. Solves(g, m)
    <3> DEFINE h == [n \in 0..m |-> IF n = 0 THEN 0 ELSE g[n - 1] + Share(n)]
    <3>1. \A n \in 0..m : h[n] = g[n]
      BY <2>2, <2>3
    <3>2. g = [n \in 0..m |-> g[n]] /\ h = [n \in 0..m |-> h[n]]
      OBVIOUS
    <3>3. g = h
      <4> HIDE DEF g, h
      <4>1. QED
        BY <3>1, <3>2
    <3>4. QED
      BY <3>3
  <2>5. m \in 0..Len(table)
    BY <1>1
  <2>6. QED
    BY <2>4, <2>5
<1>4. \E f : Solves(f, Len(table))
  <2>1. 0..Len(table) \subseteq Solved
    <3> HIDE DEF Solved
    <3>1. QED
      BY <1>1, <1>2, <1>3, UpTo, Zenon
  <2>2. Len(table) \in 0..Len(table)
    BY <1>1
  <2>3. QED
    BY <2>1, <2>2
<1>5. SumTo = CHOOSE f : Solves(f, Len(table))
  BY DEF SumTo, Share
<1> HIDE DEF Solved
<1>6. Solves(SumTo, Len(table))
  BY <1>4, <1>5
<1>7. QED
  BY <1>6, Zenon

LEMMA TotalSizeType == ASSUME MachineInv PROVE TotalSize \in Nat
<1> DEFINE S == {n \in 0..Len(table) : SumTo[n] \in Nat}
<1>1. Len(table) \in Nat
  BY TableFacts
<1>2. \A n \in 1..Len(table) : Share(n) \in Nat
  <2>1. FirstUses(UsableRows) \subseteq DOMAIN table
    BY DEF FirstUses, UsableRows
  <2>2. QED
    BY <2>1, TableFacts DEF Share
<1>3. 0 \in S
  BY <1>1, SumDefined
<1>4. ASSUME NEW n \in 1..Len(table), n - 1 \in S PROVE n \in S
  <2>1. n \in 0..Len(table) /\ n # 0
    BY <1>1
  <2>2. SumTo[n] = SumTo[n - 1] + Share(n)
    BY <2>1, SumDefined
  <2>3. SumTo[n - 1] \in Nat /\ Share(n) \in Nat
    BY <1>2, <1>4
  <2>4. QED
    BY <2>1, <2>2, <2>3
<1>5. SumTo[Len(table)] \in Nat
  <2>1. 0..Len(table) \subseteq S
    <3> HIDE DEF S
    <3>1. QED
      BY <1>1, <1>3, <1>4, UpTo, Zenon
  <2>2. Len(table) \in 0..Len(table)
    BY <1>1
  <2>3. QED
    BY <2>1, <2>2
<1>6. DfSize \in Nat
  BY TableFacts, DiskAssumption DEF DfSize
<1>7. QED
  BY <1>5, <1>6 DEF TotalSize

-----------------------------------------------------------------------------
(***************************************************************************)
(* The entries.                                                             *)
(***************************************************************************)

EntryOk(e) == e.dev \in Devices \cup {"overlay"} /\ e.size \in Nat

\* Some finite collection of entries of the table, of df and of nothing else.
Listed(entries) == IsFiniteSet(entries) /\ \A e \in entries : EntryOk(e)

\* Some rows' entries.
LEMMA RowsAreListed ==
  ASSUME MachineInv, NEW kept, kept \subseteq DOMAIN table
  PROVE  Listed({Entry(table[n].dev, table[n].mount) : n \in kept})
<1> DEFINE E(n) == Entry(table[n].dev, table[n].mount)
           entries == {E(n) : n \in kept}
           f == [n \in kept |-> E(n)]
<1>1. IsFiniteSet(kept)
  BY TableFacts, FS_Subset
<1>2. f \in Surjection(kept, entries)
  BY DEF Surjection
<1>3. IsFiniteSet(entries)
  <2> HIDE DEF f, entries
  <2>1. QED
    BY <1>1, <1>2, FS_Surjection
<1>4. \A n \in kept : EntryOk(E(n))
  BY TableFacts DEF Entry, EntryOk
<1>5. QED
  BY <1>3, <1>4 DEF Listed

LEMMA SubsetListed == ASSUME NEW all, Listed(all), NEW some, some \subseteq all PROVE Listed(some)
BY FS_Subset DEF Listed

LEMMA FirstMountsListed ==
  ASSUME MachineInv, NEW kept, kept \subseteq DOMAIN table PROVE Listed(FirstMounts(kept))
<1>1. FirstUses(kept) \subseteq DOMAIN table
  BY DEF FirstUses
<1>2. QED
  BY <1>1, RowsAreListed DEF FirstMounts

LEMMA AddListed == ASSUME NEW all, Listed(all), NEW e, EntryOk(e) PROVE Listed(all \cup {e})
BY FS_AddElement DEF Listed

\* What the collectors leave, and the fallback: the current disk is one of the list or a new
\* one whose device no entry has.
CurrentInv ==
  /\ current.size \in Nat
  /\ bootPath # "none" => current.dev = bootPath

ListInv ==
  /\ MachineInv /\ CurrentInv
  /\ pc \in {"collect", "fallback", "consolidate", "reduce", "done"}
  /\ pc = "collect" => current = Nobody /\ bootPath = "none"
  /\ pc = "fallback" => Listed(infos) /\ current \in infos \cup {Nobody}
  /\ pc = "consolidate" =>
       Listed(infos) /\ (current \in infos \cup {Nobody} \/ current.dev = "/")
  /\ pc = "reduce" =>
       /\ collected = infos /\ IsFiniteSet(infos) /\ \A e \in infos : e.size \in Nat
       /\ current \in infos \cup {Nobody}
  /\ EveryDiskOnce /\ SystemDiskShown

LEMMA InitListInv == Init => ListInv
<1> SUFFICES ASSUME Init PROVE ListInv
  OBVIOUS
<1>1. MachineInv
  <2>1. os \in Systems /\ table \in Tables /\ size \in [Devices -> Sizes]
        /\ dfRoot \in {"none", "overlay"} \cup {table[i].dev : i \in DOMAIN table}
    BY DEF Init
  <2> DEFINE Row == [dev : Devices, mount : Mounts \cup {"/"}, fs : {"disk", "virtual"}]
  <2>2. table \in Seq(Row)
    BY <2>1, DiskAssumption
  <2>3. \A r \in Row : r.dev \in Devices
    OBVIOUS
  <2> HIDE DEF Row
  <2>4. \A n \in DOMAIN table : table[n] \in Row
    BY <2>2
  <2>5. QED
    BY <2>1, <2>3, <2>4 DEF MachineInv
<1>2. QED
  BY <1>1 DEF Init, ListInv, CurrentInv, Nobody, EveryDiskOnce, SystemDiskShown

LEMMA LinuxKeeps == ASSUME ListInv, LinuxDisks PROVE ListInv'
<1> DEFINE found == Readable(FirstMounts(UsableRows))
           overlay == [dev |-> "overlay", mount |-> "/", size |-> OneGB]
<1>1. /\ pc = "collect" /\ pc' = "fallback" /\ UNCHANGED <<machine, collected, shown>>
      /\ \/ \E e \in LinuxRoots(found) : current' = e /\ bootPath' = e.dev /\ infos' = found
         \/ /\ LinuxRoots(found) = {}
            /\ IF dfRoot = "overlay"
               THEN current' = overlay /\ bootPath' = "overlay" /\ infos' = found \cup {overlay}
               ELSE infos' = found /\ UNCHANGED <<current, bootPath>>
  BY DEF LinuxDisks
<1>2. MachineInv /\ current = Nobody /\ bootPath = "none" /\ MachineInv'
  BY <1>1 DEF ListInv, MachineInv, machine
<1>3. Listed(found)
  <2>1. UsableRows \subseteq DOMAIN table
    BY DEF UsableRows
  <2>2. Listed(FirstMounts(UsableRows))
    BY <1>2, <2>1, FirstMountsListed
  <2>3. QED
    BY <2>2, SubsetListed DEF Readable
<1>4. EntryOk(overlay) /\ overlay.dev = "overlay"
  BY DiskAssumption DEF EntryOk
<1>5. LinuxRoots(found) \subseteq found
  BY DEF LinuxRoots
<1> HIDE DEF found, overlay
<1>6. Listed(found \cup {overlay})
  BY <1>3, <1>4, AddListed
<1>7. Listed(infos') /\ current' \in infos' \cup {Nobody}
  BY <1>1, <1>2, <1>3, <1>5, <1>6
<1>8. \A e \in found \cup {overlay} : e.size \in Nat
  BY <1>6 DEF Listed, EntryOk
<1>9. CurrentInv'
  <2>1. current'.size \in Nat
    BY <1>1, <1>2, <1>5, <1>8 DEF Nobody
  <2>2. bootPath' # "none" => current'.dev = bootPath'
    BY <1>1, <1>2, <1>4
  <2>3. QED
    BY <2>1, <2>2 DEF CurrentInv
<1>10. QED
  BY <1>1, <1>2, <1>7, <1>9 DEF ListInv, EveryDiskOnce, SystemDiskShown

LEMMA BSDKeeps == ASSUME ListInv, BSDDisks PROVE ListInv'
<1> DEFINE rows == {n \in DOMAIN table : MountKept(table[n])}
<1>1. /\ pc = "collect" /\ pc' = "fallback" /\ UNCHANGED <<machine, collected, shown>>
      /\ infos' = FirstMounts(rows)
      /\ \/ \E e \in infos' : current' = e /\ bootPath' = e.dev
         \/ UNCHANGED <<current, bootPath>>
  BY DEF BSDDisks
<1>2. MachineInv /\ current = Nobody /\ bootPath = "none" /\ MachineInv'
  BY <1>1 DEF ListInv, MachineInv, machine
<1>3. rows \subseteq DOMAIN table
  OBVIOUS
<1> HIDE DEF rows
<1>4. Listed(infos')
  BY <1>1, <1>2, <1>3, FirstMountsListed
<1>5. current' \in infos' \cup {Nobody}
  BY <1>1, <1>2
<1>6. CurrentInv'
  <2>1. \A e \in infos' : e.size \in Nat
    BY <1>4 DEF Listed, EntryOk
  <2>2. QED
    BY <1>1, <1>2, <2>1 DEF CurrentInv, Nobody
<1>7. QED
  BY <1>1, <1>2, <1>4, <1>5, <1>6 DEF ListInv, EveryDiskOnce, SystemDiskShown

LEMMA MacOSKeeps == ASSUME ListInv, MacOSDisks PROVE ListInv'
<1> DEFINE boot == IF dfRoot \in Devices THEN dfRoot ELSE "none"
           root == IF boot = "none" THEN {} ELSE {Entry(boot, "/")}
           all == Readable(OtherMounts(boot))
<1>1. /\ pc = "collect" /\ pc' = "fallback" /\ UNCHANGED <<machine, collected, shown>>
      /\ \E others \in Reductions(all) : infos' = root \cup others
      /\ IF boot = "none" THEN UNCHANGED <<current, bootPath>>
                          ELSE current' = Entry(boot, "/") /\ bootPath' = boot
  BY DEF MacOSDisks
<1>2. MachineInv /\ current = Nobody /\ bootPath = "none" /\ MachineInv'
  BY <1>1 DEF ListInv, MachineInv, machine
<1>3. Listed(all)
  <2> DEFINE kept == {n \in UsableRows : table[n].dev # boot}
             fresh == {n \in kept : \A j \in kept : j < n => table[j].mount # table[n].mount}
             last == {m \in fresh : \A j \in fresh : j > m => table[j].dev # table[m].dev}
  <2>1. OtherMounts(boot) = {Entry(table[n].dev, table[n].mount) : n \in last}
    BY Zenon DEF OtherMounts
  <2>2. last \subseteq DOMAIN table
    BY DEF UsableRows
  <2> HIDE DEF last
  <2>3. Listed(OtherMounts(boot))
    BY <1>2, <2>1, <2>2, RowsAreListed
  <2> HIDE DEF boot
  <2>4. QED
    BY <2>3, SubsetListed DEF Readable
<1>4. boot # "none" => boot \in Devices /\ EntryOk(Entry(boot, "/")) /\ Entry(boot, "/").dev = boot
  BY <1>2, TableFacts DEF EntryOk, Entry
<1> HIDE DEF boot, all
<1>5. PICK others \in SUBSET all : infos' = root \cup others
  BY <1>1 DEF Reductions
<1>6. Listed(others)
  BY <1>3, <1>5, SubsetListed
<1>7. CASE boot = "none"
  <2>1. infos' = others /\ current' = Nobody /\ bootPath' = "none"
    BY <1>1, <1>2, <1>5, <1>7
  <2>2. QED
    BY <1>1, <1>2, <1>6, <2>1 DEF ListInv, CurrentInv, Nobody, EveryDiskOnce, SystemDiskShown
<1>8. CASE boot # "none"
  <2> DEFINE e == Entry(boot, "/")
  <2>1. infos' = others \cup {e} /\ current' = e /\ bootPath' = boot
    BY <1>1, <1>5, <1>8
  <2>2. EntryOk(e) /\ e.dev = boot
    BY <1>4, <1>8
  <2> HIDE DEF e
  <2>3. Listed(infos')
    BY <1>6, <2>1, <2>2, AddListed
  <2>4. QED
    BY <1>1, <1>2, <2>1, <2>2, <2>3 DEF ListInv, CurrentInv, EntryOk, EveryDiskOnce, SystemDiskShown
<1>9. QED
  BY <1>7, <1>8

LEMMA FallbackKeeps == ASSUME ListInv, Fallback PROVE ListInv'
<1> DEFINE whole == [dev |-> "/", mount |-> "/", size |-> TotalSize]
<1>1. /\ pc = "fallback" /\ pc' = "consolidate"
      /\ UNCHANGED <<machine, infos, bootPath, collected, shown>>
      /\ current' = IF current = Nobody /\ TotalSize > 0 THEN whole ELSE current
  BY DEF Fallback
<1>2. MachineInv /\ MachineInv' /\ CurrentInv /\ Listed(infos) /\ current \in infos \cup {Nobody}
  BY <1>1 DEF ListInv, MachineInv, machine
<1>3. whole.size \in Nat /\ whole.dev = "/"
  BY <1>2, TotalSizeType
<1>4. current = Nobody => bootPath = "none"
  BY <1>2 DEF CurrentInv, Nobody
<1> HIDE DEF whole
<1>5. CurrentInv'
  BY <1>1, <1>2, <1>3, <1>4 DEF CurrentInv
<1>6. current' \in infos' \cup {Nobody} \/ current'.dev = "/"
  BY <1>1, <1>2, <1>3
<1>7. Listed(infos')
  BY <1>1, <1>2
<1>8. QED
  BY <1>1, <1>2, <1>5, <1>6, <1>7 DEF ListInv, EveryDiskOnce, SystemDiskShown

LEMMA ConsolidateKeeps == ASSUME ListInv, Consolidate PROVE ListInv'
<1>1. /\ pc = "consolidate" /\ pc' = "reduce" /\ UNCHANGED <<machine, current, bootPath, shown>>
      /\ infos' = infos \cup (IF current = Nobody \/ \E e \in infos : e.dev = current.dev
                              THEN {} ELSE {current})
      /\ collected' = infos'
  BY DEF Consolidate
<1>2. /\ MachineInv /\ MachineInv' /\ CurrentInv /\ CurrentInv' /\ Listed(infos)
      /\ current \in infos \cup {Nobody} \/ current.dev = "/"
  BY <1>1 DEF ListInv, MachineInv, machine, CurrentInv
<1>3. "/" \notin Devices \cup {"overlay"}
  BY DiskAssumption
<1>4. current' \in infos' \cup {Nobody}
  BY <1>1, <1>2, <1>3 DEF Listed, EntryOk
<1>5. infos' \in {infos, infos \cup {current}}
  BY <1>1
<1>6. IsFiniteSet(infos')
  BY <1>2, <1>5, FS_AddElement DEF Listed
<1>7. \A e \in infos' : e.size \in Nat
  BY <1>2, <1>5 DEF Listed, EntryOk, CurrentInv
<1>8. QED
  BY <1>1, <1>2, <1>4, <1>6, <1>7 DEF ListInv, EveryDiskOnce, SystemDiskShown

-----------------------------------------------------------------------------
(***************************************************************************)
(* The reduction to one row for each disk.                                  *)
(***************************************************************************)

\* Sorting neither loses nor doubles an entry.
LEMMA SortedIsWhole ==
  ASSUME NEW entries, IsFiniteSet(entries), NEW s \in Sorted(entries)
  PROVE  {s[i] : i \in DOMAIN s} = entries
<1> DEFINE n == Cardinality(entries)
<1>1. n \in Nat
  BY FS_CardinalityType
<1>2. s \in [1..n -> entries] /\ \A i, j \in 1..n : i < j => s[i] # s[j]
  BY DEF Sorted
<1>3. IsFiniteSet(1..n) /\ Cardinality(1..n) = n
  BY <1>1, FS_Interval
<1>4. \A i, j \in 1..n : s[i] = s[j] => i = j
  <2>1. \A i, j \in 1..n : i < j \/ j < i \/ i = j
    BY <1>1
  <2>2. QED
    BY <1>2, <2>1
<1>5. s \in Injection(1..n, entries)
  BY <1>2, <1>4 DEF Injection, IsInjective
<1> HIDE DEF n
<1>6. s \in Surjection(1..n, entries)
  BY <1>3, <1>5, FS_Injection DEF n
<1>7. QED
  BY <1>2, <1>6 DEF Surjection

\* What remains of a set of entries: it holds the current one, and a largest of each disk.
LEMMA PickedFacts ==
  ASSUME NEW entries, IsFiniteSet(entries), \A e \in entries : e.size \in Nat,
         NEW picked \in Picked(entries)
  PROVE  /\ picked \subseteq entries
         /\ current \in entries => current \in picked
         /\ \A e \in entries : \E r \in picked : Physical[r.dev] = Physical[e.dev] /\ r.size >= e.size
         /\ \A r, o \in picked : r # o /\ Physical[r.dev] = Physical[o.dev] =>
              current.dev \in {r.dev, o.dev}
<1>1. CASE Cardinality(entries) <= 1
  <2>1. picked = entries
    BY <1>1 DEF Picked
  <2>2. \A r, o \in entries : r = o
    <3>1. Cardinality(entries) = 0 \/ Cardinality(entries) = 1
      BY <1>1, FS_CardinalityType
    <3>2. entries = {} \/ \E x : entries = {x}
      BY <3>1, FS_EmptySet, FS_Singleton
    <3>3. QED
      BY <3>2
  <2>3. \A e \in entries : e.size >= e.size
    OBVIOUS
  <2>4. QED
    BY <2>1, <2>2, <2>3
<1>2. CASE ~(Cardinality(entries) <= 1)
  <2>1. PICK pick \in Reductions(entries) :
          picked = pick \cup {e \in entries : e.dev = current.dev /\ e.mount = current.mount}
    BY <1>2 DEF Picked
  <2>2. /\ pick \subseteq entries
        /\ \A p \in PhysicalOf(entries) : Cardinality(Members(pick, p)) = 1
        /\ \A e \in pick : IsLargest(e, Members(entries, Physical[e.dev]))
    BY DEF Reductions
  <2>3. \A p \in PhysicalOf(entries) : \E x : Members(pick, p) = {x}
    <3>1. \A p : IsFiniteSet(Members(pick, p))
      <4>1. TAKE p
      <4>2. Members(pick, p) \subseteq entries
        BY <2>2 DEF Members
      <4>3. QED
        BY <4>2, FS_Subset
    <3>2. QED
      BY <2>2, <3>1, FS_Singleton
  <2>4. ASSUME NEW e \in entries
        PROVE  \E r \in picked : Physical[r.dev] = Physical[e.dev] /\ r.size >= e.size
    <3>1. Physical[e.dev] \in PhysicalOf(entries)
      BY DEF PhysicalOf
    <3>2. PICK r : Members(pick, Physical[e.dev]) = {r}
      BY <2>3, <3>1
    <3>3. r \in pick /\ Physical[r.dev] = Physical[e.dev]
      BY <3>2 DEF Members
    <3>4. e \in Members(entries, Physical[r.dev])
      BY <3>3 DEF Members
    <3>5. e.size <= r.size
      BY <2>2, <3>3, <3>4 DEF IsLargest
    <3>6. r \in picked /\ r \in entries
      BY <2>1, <2>2, <3>3
    <3>7. r.size >= e.size
      BY <3>5, <3>6
    <3>8. QED
      BY <3>3, <3>6, <3>7
  <2>5. ASSUME NEW r \in picked, NEW o \in picked, r # o, Physical[r.dev] = Physical[o.dev],
               current.dev # r.dev, current.dev # o.dev
        PROVE  FALSE
    <3>1. r \in pick /\ o \in pick
      BY <2>1, <2>5
    <3>2. r \in Members(pick, Physical[r.dev]) /\ o \in Members(pick, Physical[r.dev])
      BY <2>5, <3>1 DEF Members
    <3>3. Physical[r.dev] \in PhysicalOf(entries)
      BY <2>2, <3>1 DEF PhysicalOf
    <3>4. QED
      BY <2>3, <2>5, <3>2, <3>3
  <2>6. picked \subseteq entries /\ (current \in entries => current \in picked)
    BY <2>1, <2>2
  <2>7. QED
    BY <2>4, <2>5, <2>6
<1>3. QED
  BY <1>1, <1>2

LEMMA ReduceKeeps == ASSUME ListInv, Reduce PROVE ListInv'
<1> DEFINE large == Big(infos)
<1>1. /\ pc = "reduce" /\ pc' = "done" /\ UNCHANGED <<machine, current, bootPath, collected>>
      /\ \E entries \in Picked(large) : shown' \in Sorted(entries)
  BY DEF Reduce
<1>2. /\ MachineInv /\ MachineInv' /\ CurrentInv /\ CurrentInv'
      /\ collected = infos /\ IsFiniteSet(infos) /\ \A e \in infos : e.size \in Nat
      /\ current \in infos \cup {Nobody}
  BY <1>1 DEF ListInv, MachineInv, machine, CurrentInv
<1>3. /\ large \subseteq infos
      /\ \A e \in infos : e \in large \/ (~(e.size >= OneGB) /\ \A r \in large : r.size >= OneGB)
  BY DEF Big
<1>4. large = Big(collected)'
  BY <1>1, <1>2 DEF Big
<1> HIDE DEF large
<1>5. IsFiniteSet(large) /\ \A e \in large : e.size \in Nat
  BY <1>2, <1>3, FS_Subset
<1>6. PICK entries \in Picked(large) : shown' \in Sorted(entries)
  BY <1>1
<1>7. /\ entries \subseteq large
      /\ current \in large => current \in entries
      /\ \A e \in large : \E r \in entries : Physical[r.dev] = Physical[e.dev] /\ r.size >= e.size
      /\ \A r, o \in entries : r # o /\ Physical[r.dev] = Physical[o.dev] => current.dev \in {r.dev, o.dev}
  BY <1>5, <1>6, PickedFacts
<1>8. Rows' = entries
  <2>1. IsFiniteSet(entries)
    BY <1>5, <1>7, FS_Subset
  <2>2. QED
    BY <1>6, <2>1, SortedIsWhole DEF Rows
<1>9. EveryDiskOnce'
  BY <1>1, <1>4, <1>7, <1>8 DEF EveryDiskOnce
<1>10. current # Nobody => current \in entries \/ (current.size < OneGB /\ \A r \in entries : r.size >= OneGB)
  <2>1. current.size \in Nat /\ OneGB \in Nat
    BY <1>2, DiskAssumption DEF CurrentInv
  <2>2. ~(current.size >= OneGB) => current.size < OneGB
    BY <2>1
  <2>3. QED
    BY <1>2, <1>3, <1>7, <2>2
<1>11. SystemDiskShown'
  BY <1>1, <1>2, <1>8, <1>10 DEF SystemDiskShown, CurrentInv
<1>12. QED
  BY <1>1, <1>2, <1>9, <1>11 DEF ListInv

LEMMA NextListInv == ListInv /\ [Next]_vars => ListInv'
<1> SUFFICES ASSUME ListInv, [Next]_vars PROVE ListInv'
  OBVIOUS
<1>1. CASE UNCHANGED vars
  BY <1>1 DEF vars, machine, ListInv, MachineInv, CurrentInv, EveryDiskOnce, SystemDiskShown, Rows,
     Big
<1>2. QED
  BY <1>1, LinuxKeeps, BSDKeeps, MacOSKeeps, FallbackKeeps, ConsolidateKeeps, ReduceKeeps DEF Next

LEMMA ListInvariance == Spec => []ListInv
<1>1. QED
  BY InitListInv, NextListInv, PTL DEF Spec

\* Whatever is mounted, every disk that is large enough has a row at least as large, and a
\* physical disk has two rows only for the sake of the disk with the root.
THEOREM DisksOnce == Spec => []EveryDiskOnce
<1>1. ListInv => EveryDiskOnce
  BY DEF ListInv
<1>2. QED
  BY <1>1, ListInvariance, PTL

\* Whatever is mounted, the disk with the root file system is in the list unless it is small.
THEOREM RootIsShown == Spec => []SystemDiskShown
<1>1. ListInv => SystemDiskShown
  BY DEF ListInv
<1>2. QED
  BY <1>1, ListInvariance, PTL

-----------------------------------------------------------------------------
(***************************************************************************)
(* The self-test in a disk: what a call says and leaves behind, however the *)
(* call, the device and the context interleave.                             *)
(***************************************************************************)

TestPlaces == {"idle", "starting", "waiting", "polling", "aborting", "failing", "returned"}

TestTypeOK ==
  /\ tool \in {"none", "smart", "gpu"}
  /\ testPc \in TestPlaces
  /\ device \in {"quiet", "running", "finished", "broken", "aborted", "canceled"}

\* Only a self-test's call has the device do anything.
DeviceQuiet ==
  /\ tool # "smart" => device = "quiet"
  /\ testPc = "idle" => device = "quiet" /\ status # "ok"

\* A call that may still succeed has seen no failure and has aborted nothing; only a
\* self-test's call polls.
NothingWrongYet ==
  /\ testPc \in {"idle", "starting", "waiting", "polling", "aborting"} =>
       failed = {} /\ device # "canceled"
  /\ testPc \in {"waiting", "polling", "aborting"} => tool = "smart"

\* A call in progress has not succeeded, and one about to fail has seen a failure.
NoVerdictYet ==
  /\ status = "ok" => testPc = "returned"
  /\ testPc = "failing" => failed # {}

TestInv ==
  /\ TestTypeOK /\ DeviceQuiet /\ NothingWrongYet /\ NoVerdictYet
  /\ OkAgainstNoEvidence /\ TestLeftForAReason

\* What a call that runs no command returns is no success (deep_tools.go:29-41).
LEMMA VerdictIsNoSuccess ==
  ASSUME NEW t, NEW tg, NEW sys PROVE Verdict(t, tg, sys) # "ok"
BY Zenon DEF Verdict

LEMMA InitTestInv == TestInit => TestInv
BY DEF TestInit, TestInv, TestTypeOK, TestPlaces, DeviceQuiet, NothingWrongYet, NoVerdictYet, OkAgainstNoEvidence,
       TestLeftForAReason

LEMMA CallTestInv ==
  ASSUME TestInv, NEW t \in {"smart", "gpu"}, NEW tg \in Targets, NEW sys \in Platforms, Call(t, tg, sys)
  PROVE  TestInv'
<1> DEFINE v == Verdict(t, tg, sys)
<1>1. /\ testPc = "idle" /\ tool' = t /\ UNCHANGED <<device, failed>>
      /\ \/ status' = "skipped" /\ testPc' = "starting"
         \/ status' = v /\ testPc' = "returned"
  BY DEF Call, Start
<1>2. v # "ok"
  BY VerdictIsNoSuccess
<1> HIDE DEF v
<1>3. QED
  BY <1>1, <1>2 DEF TestInv, TestTypeOK, TestPlaces, DeviceQuiet, NothingWrongYet, NoVerdictYet, OkAgainstNoEvidence,
                    TestLeftForAReason

LEMMA ReportTestInv == ASSUME TestInv, Report PROVE TestInv'
<1>1. status' # "ok"
  BY Zenon DEF Report
<1>2. testPc = "failing" /\ testPc' = "returned" /\ UNCHANGED <<tool, device, failed>>
  BY DEF Report
<1>3. QED
  BY <1>1, <1>2 DEF TestInv, TestTypeOK, TestPlaces, DeviceQuiet, NothingWrongYet, NoVerdictYet, OkAgainstNoEvidence,
                    TestLeftForAReason

LEMMA NextTestInv == TestInv /\ [TestNext]_testVars => TestInv'
<1> SUFFICES ASSUME TestInv, [TestNext]_testVars PROVE TestInv'
  OBVIOUS
<1> USE DEF TestInv, TestTypeOK, TestPlaces, DeviceQuiet, NothingWrongYet, NoVerdictYet, OkAgainstNoEvidence,
            TestLeftForAReason
<1>1. ASSUME NEW t \in {"smart", "gpu"}, NEW tg \in Targets, NEW sys \in Platforms, Call(t, tg, sys)
      PROVE  TestInv'
  BY <1>1, CallTestInv
<1>2. CASE TestBegins
  BY <1>2 DEF TestBegins
<1>2a. ASSUME NEW how \in {"finished", "broken", "aborted"}, TestEnds(how) PROVE TestInv'
  BY <1>2a DEF TestEnds
<1>2b. CASE TestStarted
  BY <1>2b DEF TestStarted
<1>3. CASE Computed
  BY <1>3 DEF Computed
<1>4. CASE CtxEnds \/ Tick
  BY <1>4 DEF CtxEnds, Tick
<1>5. CASE TakeTick
  BY <1>5 DEF TakeTick, Start
<1>6. ASSUME NEW text \in {"progress", "other"}, PollEnds(text) PROVE TestInv'
  BY <1>6 DEF PollEnds
<1>7. CASE CtxTaken
  BY <1>7 DEF CtxTaken
<1>8. ASSUME NEW works \in BOOLEAN, AbortEnds(works) PROVE TestInv'
  BY <1>8 DEF AbortEnds
<1>9. ASSUME NEW why \in {"unavailable", "other"}, CommandFails(why) PROVE TestInv'
  BY <1>9 DEF CommandFails
<1>10. CASE Report
  BY <1>10, ReportTestInv
<1>11. CASE UNCHANGED testVars
  BY <1>11 DEF testVars
<1>12. QED
  BY <1>1, <1>2, <1>2a, <1>2b, <1>3, <1>4, <1>5, <1>6, <1>7, <1>8, <1>9, <1>10, <1>11 DEF TestNext

\* "ok" is said of a self-test only after a poll whose text did not show it in progress,
\* when no command has failed and the call has not aborted it (deep_tools.go:44-75). The
\* text is any text: nothing is assumed of what smartctl says of the device.
THEOREM OkHasNoCounterevidence == TestSpec => []OkAgainstNoEvidence
<1>1. TestSpec => []TestInv
  BY InitTestInv, NextTestInv, PTL DEF TestSpec
<1>2. TestInv => OkAgainstNoEvidence
  BY DEF TestInv
<1>3. QED
  BY <1>1, <1>2, PTL

\* A call that has returned leaves a test running in the device only when one of its
\* commands failed, the abort's included, or when the last poll's text did not show it:
\* the context's end alone never leaves one (deep_tools.go:60-64).
THEOREM TestIsLeftForAReason == TestSpec => []TestLeftForAReason
<1>1. TestSpec => []TestInv
  BY InitTestInv, NextTestInv, PTL DEF TestSpec
<1>2. TestInv => TestLeftForAReason
  BY DEF TestInv
<1>3. QED
  BY <1>1, <1>2, PTL

-----------------------------------------------------------------------------
(***************************************************************************)
(* Once its context is over a call comes to an end.                         *)
(***************************************************************************)

PlaceLeft == [idle |-> 7, starting |-> 6, polling |-> 5, waiting |-> 4, failing |-> 2,
              aborting |-> 2, returned |-> 0]

\* A poll that began after the context's end is nearer to the end than the wait before it:
\* it only fails. One that began before may lead back to the wait.
CallLeft == IF testPc = "polling" /\ doomed THEN 3 ELSE PlaceLeft[testPc]

DeviceLeft == [quiet |-> 2, running |-> 1, finished |-> 0, broken |-> 0, aborted |-> 0, canceled |-> 0]

TestLeft == <<CallLeft, DeviceLeft[device], IF tick THEN 0 ELSE 1>>

\* Where the call is after the context's end, there is a step it can take by itself.
CanReturn ==
  \/ testPc = "waiting" /\ ctx = "over"
  \/ testPc \in {"starting", "polling", "aborting", "failing"}

LEMMA TestLeftIsNatural == ASSUME TestTypeOK PROVE \A i \in 1 .. 3 : TestLeft[i] \in Nat
<1>1. CallLeft \in Nat
  BY DEF TestTypeOK, TestPlaces, CallLeft, PlaceLeft
<1>2. DeviceLeft[device] \in Nat
  BY DEF TestTypeOK, DeviceLeft
<1>3. TestLeft[1] \in Nat /\ TestLeft[2] \in Nat /\ TestLeft[3] \in Nat
  BY <1>1, <1>2 DEF TestLeft
<1> HIDE DEF TestLeft
<1>4. QED
  BY <1>3

\* A tuple whose first component that changes goes down is smaller.
LEMMA TestFirstDown ==
  ASSUME NEW a, NEW b, DOMAIN b = 1 .. 3, NEW i \in 1 .. 3, a[i] < b[i],
         \A j \in 1 .. (i - 1) : a[j] = b[j]
  PROVE  LexLess(a, b)
BY DEF LexLess

LEMMA PlaceLess == ASSUME CallLeft' < CallLeft PROVE LexLess(TestLeft', TestLeft)
<1>1. DOMAIN TestLeft = 1 .. 3 /\ TestLeft'[1] < TestLeft[1]
  BY DEF TestLeft
<1>2. QED
  BY <1>1, TestFirstDown

\* The call's own steps.
LEMMA CallLess ==
  ASSUME TestTypeOK, ctx = "over",
         \/ \E t \in {"smart", "gpu"}, tg \in Targets, sys \in Platforms : Call(t, tg, sys)
         \/ TestStarted \/ Computed \/ TakeTick \/ CtxTaken
         \/ \E text \in {"progress", "other"} : PollEnds(text)
         \/ \E works \in BOOLEAN : AbortEnds(works)
         \/ \E why \in {"unavailable", "other"} : CommandFails(why)
         \/ Report
  PROVE  LexLess(TestLeft', TestLeft)
<1> USE DEF CallLeft, PlaceLeft
<1>1. ASSUME NEW t, NEW tg, NEW sys, Call(t, tg, sys) PROVE CallLeft' < CallLeft
  <2>1. testPc = "idle" /\ testPc' \in {"starting", "returned"}
    BY <1>1 DEF Call, Start
  <2>2. QED
    BY <2>1
<1>2. ASSUME TestStarted \/ Computed PROVE CallLeft' < CallLeft
  BY <1>2 DEF TestStarted, Computed
<1>3. ASSUME TakeTick PROVE CallLeft' < CallLeft
  <2>1. testPc = "waiting" /\ testPc' = "polling"
    BY <1>3 DEF TakeTick, Start
  <2>2. doomed'
    BY <1>3, Zenon DEF TakeTick, Start
  <2>3. CallLeft' = 3 /\ CallLeft = 4
    BY <2>1, <2>2
  <2>4. QED
    BY <2>3
<1>4. ASSUME NEW text, PollEnds(text) PROVE CallLeft' < CallLeft
  BY <1>4 DEF PollEnds
<1>5. ASSUME CtxTaken PROVE CallLeft' < CallLeft
  BY <1>5 DEF CtxTaken
<1>6. ASSUME NEW works, AbortEnds(works) PROVE CallLeft' < CallLeft
  BY <1>6 DEF AbortEnds
<1>7. ASSUME NEW why, CommandFails(why) PROVE CallLeft' < CallLeft
  BY <1>7 DEF CommandFails
<1>8. ASSUME Report PROVE CallLeft' < CallLeft
  BY <1>8 DEF Report
<1>9. QED
  BY <1>1, <1>2, <1>3, <1>4, <1>5, <1>6, <1>7, <1>8, PlaceLess

\* The steps of the device and of the ticker.
LEMMA OutsideLess ==
  ASSUME TestTypeOK,
         TestBegins \/ Tick \/ \E how \in {"finished", "broken", "aborted"} : TestEnds(how)
  PROVE  LexLess(TestLeft', TestLeft)
<1>1. CallLeft' = CallLeft /\ DOMAIN TestLeft = 1 .. 3
  BY DEF TestBegins, TestEnds, Tick, CallLeft, TestLeft
<1>2. CASE TestBegins \/ \E how \in {"finished", "broken", "aborted"} : TestEnds(how)
  <2>1. DeviceLeft[device'] < DeviceLeft[device]
    BY <1>2 DEF TestBegins, TestEnds, DeviceLeft
  <2>2. TestLeft'[1] = TestLeft[1] /\ TestLeft'[2] < TestLeft[2]
    BY <1>1, <2>1 DEF TestLeft
  <2>3. QED
    BY <1>1, <2>2, TestFirstDown
<1>3. CASE Tick
  <2>1. TestLeft'[1] = TestLeft[1] /\ TestLeft'[2] = TestLeft[2] /\ TestLeft'[3] < TestLeft[3]
    BY <1>1, <1>3 DEF TestLeft, Tick
  <2>2. QED
    BY <1>1, <2>1, TestFirstDown
<1>4. QED
  BY <1>2, <1>3

\* After the end of its context every step takes a call nearer to its return, even when the
\* select prefers the tick, and the call has one to take that waits neither for the device
\* nor for a command.
THEOREM OverMeansReturning ==
  TestSpec => /\ [](\A i \in 1 .. 3 : TestLeft[i] \in Nat)
              /\ [][ctx = "over" => ctx' = "over" /\ LexLess(TestLeft', TestLeft)]_testVars
              /\ [](ctx = "over" /\ testPc \notin {"idle", "returned"} => CanReturn)
<1>1. TestSpec => []TestInv
  BY InitTestInv, NextTestInv, PTL DEF TestSpec
<1>2. TestInv => TestTypeOK
  BY DEF TestInv
<1>3. ASSUME TestTypeOK, TestNext, ctx = "over" PROVE ctx' = "over" /\ LexLess(TestLeft', TestLeft)
  <2>1. ctx' = "over"
    BY <1>3 DEF TestNext, Call, TestBegins, TestEnds, TestStarted, Computed, CtxEnds, Tick, TakeTick,
       PollEnds, CtxTaken, AbortEnds, CommandFails, Report
  <2>2. ~CtxEnds
    BY <1>3 DEF CtxEnds
  <2>3. QED
    BY <1>3, <2>1, <2>2, CallLess, OutsideLess DEF TestNext
<1>4. TestTypeOK => (ctx = "over" /\ testPc \notin {"idle", "returned"} => CanReturn)
  BY DEF TestTypeOK, TestPlaces, CanReturn
<1>5. TestTypeOK => \A i \in 1 .. 3 : TestLeft[i] \in Nat
  BY TestLeftIsNatural
<1>6. TestInv /\ [TestNext]_testVars =>
        [ctx = "over" => ctx' = "over" /\ LexLess(TestLeft', TestLeft)]_testVars
  BY <1>2, <1>3
<1>7. QED
  BY <1>1, <1>2, <1>4, <1>5, <1>6, PTL DEF TestSpec
=============================================================================
