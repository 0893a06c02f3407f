------------------------- MODULE NetworkReportProofs -------------------------
(***************************************************************************)
(* Proofs about the IPv6 part of NetworkReport for any time-out, any         *)
(* advertisements, any listings and any lengths.                            *)
(***************************************************************************)
EXTENDS NetworkReport, FiniteSetTheorems, TLAPS

Listening == {"check", "read", "walk"}

\* A read is begun before the deadline and lasts one time-out at most; outside the
\* listener the clock stands at 0.
ClockInv ==
  /\ os \in Systems
  /\ clock \in Nat /\ readStart \in Nat
  /\ clock < 2 * Timeout
  /\ maskPc = "read" => readStart < Timeout /\ clock <= readStart + Timeout
  /\ maskPc \notin Listening => clock = 0

\* Nobody is asked once a source has offered a length, and that source's is printed.
OneOffers ==
  /\ offered = [s \in Sources |-> offered[s]]
  /\ maskPc # "done" => \A s \in Sources : offered[s] = {}
  /\ maskPc = "done" => \A s \in Sources : offered[s] # {} => s = mask.by
  /\ maskPc \in Listening \cup {"idle", "radvdump", "socket", "ask"} => source \in Nat \ {0}

IInv == ClockInv /\ OneOffers

-----------------------------------------------------------------------------

LEMMA TwiceTimeout == Timeout \in Nat \ {0} /\ 0 < 2 * Timeout
BY MaskAssumption

\* A source that offers nothing changes nothing; one that offers something is taken.
LEMMA HearNothing ==
  ASSUME OneOffers, maskPc # "done", NEW s \in Sources, Hear(s, {}) PROVE offered' = offered
BY DEF OneOffers, Hear

LEMMA HearAndTake ==
  ASSUME OneOffers, maskPc # "done", NEW s \in Sources, NEW lengths, NEW n,
         Hear(s, lengths), Take(s, n)
  PROVE  OneOffers'
<1>1. offered' = [t \in Sources |-> offered'[t]] /\ \A t \in Sources : t # s => offered'[t] = {}
  BY DEF OneOffers, Hear
<1>2. maskPc' = "done" /\ mask'.by = s
  BY DEF Take
<1>3. QED
  BY <1>1, <1>2 DEF OneOffers, Listening

LEMMA InitIInv == Init => IInv
<1> SUFFICES ASSUME Init PROVE IInv
  OBVIOUS
<1>1. ClockInv
  BY TwiceTimeout DEF Init, MaskInit, ClockInv, Listening
<1>2. OneOffers
  BY DEF Init, MaskInit, OneOffers
<1>3. QED
  BY <1>1, <1>2 DEF IInv

\* Chains hold sources only.
LEMMA ChainOfSources == ASSUME os \in Systems PROVE \A i \in 1..Len(Chain) : Chain[i] \in Sources
<1>1. os \in {"linux", "darwin", "freebsd", "windows"}
  BY MaskAssumption
<1>2. CASE os = "linux"
  <2>1. Chain = <<"ra", "ip", "config">>
    BY <1>2, Zenon DEF Chain, LinuxChain
  <2>2. QED
    BY <2>1 DEF Sources
<1>3. CASE os = "darwin"
  <2>1. Chain = <<"ifconfig", "networksetup">>
    BY <1>3, Zenon DEF Chain, DarwinChain
  <2>2. QED
    BY <2>1 DEF Sources
<1>4. CASE os = "freebsd"
  <2>1. Chain = <<"ifconfig", "config">>
    BY <1>4, Zenon DEF Chain, FreeBSDChain
  <2>2. QED
    BY <2>1 DEF Sources
<1>5. CASE os = "windows"
  <2>1. Chain = <<"netsh", "powershell">>
    BY <1>5, Zenon DEF Chain, WindowsChain
  <2>2. QED
    BY <2>1 DEF Sources
<1>6. QED
  BY <1>1, <1>2, <1>3, <1>4, <1>5

\* The steps that listen and hear no length.
LEMMA SilentIInv ==
  ASSUME IInv,
         \/ Begin \/ NoInterface \/ SocketFails \/ Solicit \/ Check \/ Tick \/ ReadTimesOut
         \/ ReadFails \/ ReceiveForeign \/ Receive \/ WalkStep
  PROVE  IInv'
<1>1. UNCHANGED <<os, offered, mask>> /\ maskPc # "done" /\ maskPc' # "done"
  BY DEF Begin, NoInterface, SocketFails, Solicit, Check, Tick, ReadTimesOut, ReadFails,
         ReceiveForeign, Receive, WalkStep, LeaveListener
<1>2. source' \in {source, 2} /\ (maskPc' \in Listening \cup {"idle", "radvdump", "socket", "ask"} =>
        maskPc \in Listening \cup {"idle", "radvdump", "socket", "ask"})
  BY DEF Begin, NoInterface, SocketFails, Solicit, Check, Tick, ReadTimesOut, ReadFails,
         ReceiveForeign, Receive, WalkStep, LeaveListener, Listening, listenVars
<1>3. OneOffers'
  BY <1>1, <1>2 DEF IInv, OneOffers
<1>4. clock \in Nat /\ readStart \in Nat /\ clock < 2 * Timeout /\ os \in Systems
  BY DEF IInv, ClockInv
<1>5. CASE Begin \/ NoInterface \/ Solicit
  BY <1>1, <1>3, <1>5 DEF Begin, NoInterface, Solicit, IInv, ClockInv, Listening, listenVars
<1>6. CASE SocketFails \/ ReadFails
  BY <1>1, <1>3, <1>4, <1>6, TwiceTimeout DEF SocketFails, ReadFails, LeaveListener, IInv, ClockInv, Listening
<1>7. CASE Check
  <2>1. CASE clock >= Timeout
    BY <1>1, <1>3, <1>4, <1>7, <2>1, TwiceTimeout DEF Check, LeaveListener, IInv, ClockInv, Listening
  <2>2. CASE ~(clock >= Timeout)
    BY <1>1, <1>3, <1>4, <1>7, <2>2, TwiceTimeout DEF Check, IInv, ClockInv, Listening
  <2>3. QED
    BY <2>1, <2>2
<1>8. CASE Tick
  BY <1>1, <1>3, <1>4, <1>8, TwiceTimeout DEF Tick, IInv, ClockInv, Listening
<1>9. CASE ReadTimesOut \/ ReceiveForeign \/ Receive
  BY <1>1, <1>3, <1>4, <1>9 DEF ReadTimesOut, ReceiveForeign, Receive, IInv, ClockInv, Listening, listenVars
<1>10. CASE WalkStep
  BY <1>1, <1>3, <1>4, <1>10 DEF WalkStep, IInv, ClockInv, Listening
<1>11. QED
  BY <1>5, <1>6, <1>7, <1>8, <1>9, <1>10

\* The steps that may hear one.
LEMMA AskRadvdumpIInv == ASSUME IInv, AskRadvdump PROVE IInv'
<1>1. maskPc = "radvdump" /\ UNCHANGED <<os, source, listenVars>>
  BY DEF AskRadvdump
<1>2. PICK listing \in Listings :
        /\ Hear("ra", UsableLengths("ra", listing))
        /\ IF UsableLengths("ra", listing) # {}
           THEN Take("ra", Chosen("ra", listing))
           ELSE maskPc' = "socket" /\ UNCHANGED mask
  BY DEF AskRadvdump
<1>3. "ra" \in Sources
  BY DEF Sources
<1>4. CASE UsableLengths("ra", listing) # {}
  <2>1. OneOffers'
    BY <1>1, <1>2, <1>3, <1>4, HearAndTake DEF IInv
  <2>2. QED
    BY <1>1, <1>2, <1>4, <2>1 DEF IInv, ClockInv, Take, listenVars, Listening
<1>5. CASE UsableLengths("ra", listing) = {}
  <2>1. offered' = offered /\ maskPc' = "socket" /\ mask' = mask
    BY <1>1, <1>2, <1>3, <1>5, HearNothing DEF IInv
  <2>2. QED
    BY <1>1, <2>1 DEF IInv, ClockInv, OneOffers, listenVars, Listening
<1>6. QED
  BY <1>4, <1>5

LEMMA WalkEndsIInv == ASSUME IInv, WalkEnds PROVE IInv'
<1>1. /\ maskPc = "walk" /\ UNCHANGED <<os, source>>
      /\ Hear("ra", {found[i] : i \in DOMAIN found})
      /\ IF found # <<>>
         THEN Take("ra", Head(found)) /\ clock' = 0 /\ readStart' = 0
         ELSE maskPc' = "check" /\ UNCHANGED <<mask, clock, readStart>>
  BY DEF WalkEnds
<1>2. "ra" \in Sources
  BY DEF Sources
<1>3. CASE found # <<>>
  <2>1. OneOffers'
    BY <1>1, <1>2, <1>3, HearAndTake DEF IInv
  <2>2. ClockInv'
    BY <1>1, <1>3, TwiceTimeout DEF IInv, ClockInv, Take, Listening
  <2>3. QED
    BY <2>1, <2>2 DEF IInv
<1>4. CASE found = <<>>
  <2>1. {found[i] : i \in DOMAIN found} = {}
    BY <1>4
  <2>2. offered' = offered /\ maskPc' = "check" /\ UNCHANGED <<mask, clock, readStart>>
    BY <1>1, <1>2, <1>4, <2>1, HearNothing DEF IInv
  <2>3. QED
    BY <1>1, <2>2 DEF IInv, ClockInv, OneOffers, Listening
<1>5. QED
  BY <1>3, <1>4

LEMMA AskIInv == ASSUME IInv, Ask PROVE IInv'
<1> DEFINE s == Chain[source]
<1>1. maskPc = "ask" /\ source <= Len(Chain) /\ UNCHANGED <<os, listenVars>>
  BY DEF Ask
<1>2. PICK listing \in Listings :
        /\ Hear(s, UsableLengths(s, listing))
        /\ IF UsableLengths(s, listing) # {}
           THEN Take(s, Chosen(s, listing)) /\ UNCHANGED source
           ELSE source' = source + 1 /\ UNCHANGED <<mask, maskPc>>
  BY DEF Ask
<1>3. source \in Nat \ {0} /\ Len(Chain) \in Nat
  <2>1. source \in Nat \ {0}
    BY <1>1 DEF IInv, OneOffers
  <2>2. os \in {"linux", "darwin", "freebsd", "windows"}
    BY MaskAssumption DEF IInv, ClockInv
  <2>3. Chain \in {LinuxChain, DarwinChain, FreeBSDChain, WindowsChain}
    BY <2>2, Zenon DEF Chain
  <2>4. QED
    BY <2>1, <2>3 DEF LinuxChain, DarwinChain, FreeBSDChain, WindowsChain
<1>4. s \in Sources
  BY <1>1, <1>3, ChainOfSources DEF IInv, ClockInv
<1> HIDE DEF s
<1>5. ClockInv'
  BY <1>1, <1>2 DEF IInv, ClockInv, Take, listenVars, Listening
<1>6. CASE UsableLengths(s, listing) # {}
  BY <1>1, <1>2, <1>4, <1>5, <1>6, HearAndTake DEF IInv
<1>7. CASE UsableLengths(s, listing) = {}
  <2>1. offered' = offered /\ source' = source + 1 /\ UNCHANGED <<mask, maskPc>>
    BY <1>1, <1>2, <1>4, <1>7, HearNothing DEF IInv
  <2>2. QED
    BY <1>1, <1>3, <1>5, <2>1 DEF IInv, OneOffers
<1>8. QED
  BY <1>6, <1>7

LEMMA NobodyKnowsIInv == ASSUME IInv, NobodyKnows PROVE IInv'
<1>1. maskPc = "ask" /\ maskPc' = "done" /\ UNCHANGED <<os, source, listenVars, offered>>
  BY DEF NobodyKnows, Take
<1>2. QED
  BY <1>1 DEF IInv, ClockInv, OneOffers, listenVars, Listening

LEMMA MaskUnchanged == ASSUME IInv, UNCHANGED maskVars PROVE IInv'
BY DEF IInv, ClockInv, OneOffers, maskVars, listenVars

LEMMA NextIInv == IInv /\ [Next]_vars => IInv'
<1> SUFFICES ASSUME IInv, [Next]_vars PROVE IInv'
  OBVIOUS
<1>1. CASE GetIPv6Mask
  BY <1>1, SilentIInv, AskRadvdumpIInv, WalkEndsIInv, AskIInv, NobodyKnowsIInv
     DEF GetIPv6Mask, MaskNext, Listener
<1>2. CASE \/ ParseCLI \/ PreCheck \/ RunIpCheck
           \/ \E f \in Families : PrintIPInfo(f)
           \/ CountSubnet \/ AskHE \/ AskBGPTools \/ CountPrefix \/ PrintActive
           \/ PrintMask \/ SystemInfo \/ Enter
  <2>1. UNCHANGED maskVars
    BY <1>2 DEF ParseCLI, PreCheck, RunIpCheck, PrintIPInfo, CountSubnet, AskHE, AskBGPTools,
       CountPrefix, PrintActive, PrintMask, SystemInfo, Enter
  <2>2. QED
    BY <2>1, MaskUnchanged
<1>3. CASE UNCHANGED vars
  BY <1>3, MaskUnchanged DEF vars
<1>4. QED
  BY <1>1, <1>2, <1>3 DEF Next

LEMMA Invariance == Spec => []IInv
<1>1. QED
  BY InitIInv, NextIInv, PTL DEF Spec

-----------------------------------------------------------------------------
(***************************************************************************)
(* Facts about numbers and the places at which options begin.               *)
(***************************************************************************)

\* A set of natural numbers has a least element.
LEMMA LeastNat ==
  ASSUME NEW S, S \subseteq Nat, S # {}
  PROVE  Min(S) \in S /\ \A n \in S : Min(S) <= n
<1>1. PICK least \in S : \A n \in S : ~(<<n, least>> \in OpToRel(<, Nat))
  BY NatLessThanWellFounded, WFMin, Zenon
<1>2. \A n \in S : ~(n < least)
  BY <1>1, Zenon DEF OpToRel
<1>3. \A n \in S : least <= n
  BY <1>2
<1>4. QED
  BY <1>3 DEF Min

\* Induction up to a bound, on a set.
LEMMA UpTo ==
  ASSUME NEW last \in Nat, NEW S, 0 \in S, \A n \in 1..last : n - 1 \in S => n \in S
  PROVE  0..last \subseteq S
<1> DEFINE Rest == (0..last) \ S
<1>1. Rest = {}
  <2> SUFFICES ASSUME NEW other \in Rest PROVE FALSE
    OBVIOUS
  <2>1. Rest \subseteq Nat /\ Rest # {}
    OBVIOUS
  <2>2. PICK n \in Rest : \A k \in Rest : n <= k
    BY <2>1, LeastNat
  <2>3. n \in 1..last
    BY <2>2
  <2>4. n - 1 \notin Rest
    BY <2>2, <2>3
  <2>5. QED
    BY <2>2, <2>3, <2>4
<1>2. QED
  BY <1>1

\* The places known after the n-th unit, from those known before it.
After(p, before, n) ==
  before \cup (IF n \in before /\ p[n].b1 > 0 THEN {n + p[n].b1} ELSE {})

\* The part of a packet that the walk's positions depend on.
LEMMA PacketType ==
  ASSUME NEW p \in Packets
  PROVE  Len(p) \in Nat /\ \A i \in 1..Len(p) : p[i].b1 \in 0..255
<1> DEFINE Unit == [b0 : 0..255, b1 : 0..255, b2 : 0..255, b7 : 0..255]
<1>1. p \in Seq(Unit)
  BY MaskAssumption
<1>2. \A u \in Unit : u.b1 \in 0..255
  OBVIOUS
<1> HIDE DEF Unit
<1>3. Len(p) \in Nat /\ \A i \in 1..Len(p) : p[i] \in Unit
  BY <1>1
<1>4. QED
  BY <1>2, <1>3

\* The recursion that defines Starts has a solution, by induction on the number of units.
LEMMA StartsDefined ==
  ASSUME NEW p \in Packets
  PROVE  /\ Starts(p)[0] = {1}
         /\ \A n \in 1..Len(p) : Starts(p)[n] = After(p, Starts(p)[n - 1], n)
<1> DEFINE Solves(f, m) == f = [n \in 0..m |-> IF n = 0 THEN {1} ELSE After(p, f[n - 1], n)]
           Solved == {m \in 0..Len(p) : \E f : Solves(f, m)}
<1>1. Len(p) \in Nat
  BY PacketType
<1>2. 0 \in Solved
  <2>1. Solves([n \in 0..0 |-> {1}], 0)
    OBVIOUS
  <2>2. 0 \in 0..Len(p)
    BY <1>1
  <2>3. QED
    BY <2>1, <2>2
<1>3. ASSUME NEW m \in 1..Len(p), m - 1 \in Solved PROVE m \in Solved
  <2>1. PICK f : Solves(f, m - 1)
    BY <1>3
  <2> DEFINE g == [n \in 0..m |-> IF n = m THEN After(p, f[m - 1], m) ELSE f[n]]
  <2>2. g[0] = {1}
    BY <1>3, <2>1
  <2>3. ASSUME NEW n \in 0..m, n # 0 PROVE g[n] = After(p, g[n - 1], n)
    <3>1. n - 1 \in 0..(m - 1) /\ g[n - 1] = f[n - 1]
      BY <1>1, <2>3
    <3>2. CASE n = m
      BY <3>1, <3>2
    <3>3. CASE n # m
      <4>1. n \in 0..(m - 1)
        BY <1>1, <2>3, <3>3
      <4>2. f[n] = After(p, f[n - 1], n)
        BY <2>1, <2>3, <4>1
      <4>3. QED
        BY <3>1, <3>3, <4>2
    <3>4. QED
      BY <3>2, <3>3
  <2>4. Solves(g, m)
    <3> DEFINE h == [n \in 0..m |-> IF n = 0 THEN {1} ELSE After(p, g[n - 1], n)]
    <3>1. \A n \in 0..m : h[n] = g[n]
      BY <2>2, <2>3
    <3>2. g = [n \in 0..m |-> g[n]] /\ h = [n \in 0..m |-> h[n]]
      OBVIOUS
    <3>3. g = h
      <4> HIDE DEF g, h
      <4>1. QED
        BY <3>1, <3>2
    <3>4. QED
      BY <3>3
  <2>5. m \in 0..Len(p)
    BY <1>1
  <2>6. QED
    BY <2>4, <2>5
<1>4. \E f : Solves(f, Len(p))
  <2>1. 0..Len(p) \subseteq Solved
    <3> HIDE DEF Solved
    <3>1. QED
      BY <1>1, <1>2, <1>3, UpTo, Zenon
  <2>2. Len(p) \in 0..Len(p)
    BY <1>1
  <2>3. QED
    BY <2>1, <2>2
<1>5. Starts(p) = CHOOSE f : Solves(f, Len(p))
  BY DEF Starts, After
<1> HIDE DEF Solved
<1>6. Solves(Starts(p), Len(p))
  BY <1>4, <1>5
<1>7. \A n \in 0..Len(p) : Starts(p)[n] = IF n = 0 THEN {1} ELSE After(p, Starts(p)[n - 1], n)
  BY <1>6, Zenon
<1> HIDE DEF Solves
<1>8. QED
  BY <1>1, <1>7

\* An option that begins at a place the table of the first n units has is where the table
\* says, and the option behind it is in the table as well; a unit adds places behind it only.
LEMMA StartsClosed ==
  ASSUME NEW p \in Packets
  PROVE  /\ 1 \in OptionStarts(p)
         /\ OptionStarts(p) \subseteq Nat
         /\ \A i \in OptionStarts(p) : i <= Len(p) /\ p[i].b1 > 0 => i + p[i].b1 \in OptionStarts(p)
<1> DEFINE Onward(n) == \A i \in 1..n : i \in Starts(p)[n] /\ p[i].b1 > 0 => i + p[i].b1 \in Starts(p)[n]
           Good(n) == 1 \in Starts(p)[n] /\ Starts(p)[n] \subseteq Nat \ {0} /\ Onward(n)
           S == {n \in 0..Len(p) : Good(n)}
<1>1. Len(p) \in Nat /\ \A i \in 1..Len(p) : p[i].b1 \in 0..255
  BY PacketType
<1>2. Starts(p)[0] = {1} /\ \A n \in 1..Len(p) : Starts(p)[n] = After(p, Starts(p)[n - 1], n)
  BY StartsDefined
<1>3. 0 \in S
  BY <1>1, <1>2
<1>4. ASSUME NEW m \in 1..Len(p), Good(m - 1) PROVE Good(m)
  <2>1. Starts(p)[m] = After(p, Starts(p)[m - 1], m)
    BY <1>2
  <2>2. m \in Nat /\ p[m].b1 \in Nat
    <3>1. p[m].b1 \in 0..255
      BY <1>1, Zenon
    <3>2. \A last \in Nat : \A n \in 1..last : n \in Nat
      OBVIOUS
    <3>3. m \in Nat
      BY <1>1, <3>2, Zenon
    <3>4. \A b \in 0..255 : b \in Nat
      OBVIOUS
    <3>5. QED
      BY <3>1, <3>3, <3>4, Zenon
  <2>3. \A i \in Starts(p)[m] : i \in Starts(p)[m - 1] \/ (i \in Nat /\ i > m)
    <3>1. \A i \in Starts(p)[m] : i \notin Starts(p)[m - 1] => i = m + p[m].b1 /\ p[m].b1 > 0
      BY <2>1, Zenon DEF After
    <3>2. p[m].b1 > 0 => m + p[m].b1 \in Nat /\ m + p[m].b1 > m
      BY <2>2
    <3>3. QED
      BY <3>1, <3>2
  <2>4. Starts(p)[m - 1] \subseteq Starts(p)[m]
    BY <2>1, Zenon DEF After
  <2>5. 1 \in Starts(p)[m] /\ Starts(p)[m] \subseteq Nat \ {0}
    <3>1. \A i \in Starts(p)[m] : i \in Nat \ {0}
      BY <1>4, <2>2, <2>3
    <3>2. QED
      BY <1>4, <2>4, <3>1
  <2>6. Onward(m)
    <3> SUFFICES ASSUME NEW i \in 1..m, i \in Starts(p)[m], p[i].b1 > 0
                 PROVE  i + p[i].b1 \in Starts(p)[m]
      OBVIOUS
    <3>1. i \in Starts(p)[m - 1]
      BY <2>2, <2>3
    <3>2. CASE i = m
      BY <2>1, <3>1, <3>2 DEF After
    <3>3. CASE i # m
      <4>1. i \in 1..(m - 1)
        BY <2>2, <3>3
      <4>2. QED
        BY <1>4, <2>4, <3>1, <4>1
    <3>4. QED
      BY <3>2, <3>3
  <2>7. QED
    BY <2>5, <2>6
<1>5. Good(Len(p))
  <2>1. \A n \in 1..Len(p) : n - 1 \in S => n \in S
    <3> HIDE DEF Good
    <3>1. QED
      BY <1>1, <1>4
  <2>2. 0..Len(p) \subseteq S
    <3> HIDE DEF S
    <3>1. QED
      BY <1>1, <1>3, <2>1, UpTo, Zenon
  <2>3. Len(p) \in 0..Len(p)
    BY <1>1
  <2> HIDE DEF Good
  <2>4. QED
    BY <2>2, <2>3
<1>6. 1 \in OptionStarts(p) /\ OptionStarts(p) \subseteq Nat \ {0}
  BY <1>5 DEF OptionStarts
<1>7. \A i \in OptionStarts(p) : i <= Len(p) => i \in 1..Len(p)
  BY <1>1, <1>6
<1>8. QED
  BY <1>5, <1>6, <1>7 DEF OptionStarts

\* An option's length in units, computed in a byte.
LEMMA UnitsInAByte ==
  ASSUME NEW u, u.b1 \in 0..255
  PROVE  OptionUnits(u) \in 0..31 /\ (u.b1 < 32 => OptionUnits(u) = u.b1)
BY DEF OptionUnits

-----------------------------------------------------------------------------
(***************************************************************************)
(* The walk over an advertisement.                                          *)
(***************************************************************************)

\* Where the walk is, and what it has collected.
WalkInv ==
  /\ found \in Seq(Nat)
  /\ maskPc = "walk" => packet \in Packets /\ at \in 1..(Len(packet) + 1)
  /\ WalkOnOptions

\* A step of the walk passes a whole option, or is behind one that is too long for a byte.
LEMMA WalkStepKeeps == ASSUME WalkInv, WalkStep PROVE WalkInv'
<1> DEFINE u == packet[at]
<1>1. /\ maskPc = "walk" /\ OptionHere /\ packet' = packet
      /\ found' = IF PrefixHere THEN Append(found, u.b2) ELSE found
      /\ at' = at + OptionUnits(u)
  BY DEF WalkStep
<1> DEFINE last == Len(packet)
           units == OptionUnits(u)
<1>2. packet \in Packets /\ at \in 1..(last + 1)
  BY <1>1 DEF WalkInv
<1>3. last \in Nat /\ \A i \in 1..last : packet[i].b1 \in 0..255
  BY <1>2, PacketType
<1>4. at <= last /\ units > 0 /\ at - 1 + units <= last
  BY <1>1 DEF OptionHere
<1> HIDE DEF last
<1>5. at \in 1..last
  BY <1>2, <1>3, <1>4
<1>6. u.b1 \in 0..255
  BY <1>3, <1>5, Zenon
<1>7. units \in 0..31 /\ (u.b1 < 32 => units = u.b1)
  BY <1>6, UnitsInAByte
<1>8. at' = at + units
  BY <1>1
<1>9. found' \in Seq(Nat)
  <2>1. CASE PrefixHere
    <3>1. u.b2 \in 1..128
      BY <2>1 DEF PrefixHere
    <3> HIDE DEF u, units
    <3>2. found' = Append(found, u.b2) /\ found \in Seq(Nat)
      BY <1>1, <2>1 DEF WalkInv
    <3>3. \A s \in Seq(Nat), n \in 1..128 : Append(s, n) \in Seq(Nat)
      OBVIOUS
    <3>4. QED
      BY <3>1, <3>2, <3>3, Zenon
  <2>2. CASE ~PrefixHere
    BY <1>1, <2>2 DEF WalkInv
  <2>3. QED
    BY <2>1, <2>2
<1> HIDE DEF u, units
<1>10. at' \in 1..(last + 1) /\ at < at' /\ at' <= last + 1
  BY <1>3, <1>4, <1>5, <1>7, <1>8
<1>11. \/ at' \in OptionStarts(packet)
       \/ \E j \in OptionStarts(packet) : j < at' /\ packet[j].b1 >= 32
  <2>1. OptionStarts(packet) \subseteq Nat
    BY <1>2, StartsClosed
  <2>2. CASE \E j \in OptionStarts(packet) : j < at /\ packet[j].b1 >= 32
    <3>1. PICK j \in OptionStarts(packet) : j < at /\ packet[j].b1 >= 32
      BY <2>2
    <3>2. j < at'
      BY <1>3, <1>5, <1>10, <2>1, <3>1
    <3>3. QED
      BY <3>1, <3>2
  <2>3. CASE at \in OptionStarts(packet) /\ u.b1 >= 32
    BY <1>10, <2>3 DEF u
  <2>4. CASE at \in OptionStarts(packet) /\ ~(u.b1 >= 32)
    <3>1. u.b1 < 32 /\ at' = at + u.b1 /\ u.b1 > 0
      BY <1>4, <1>6, <1>7, <1>8, <2>4
    <3>2. at + u.b1 \in OptionStarts(packet)
      BY <1>2, <1>4, <2>4, <3>1, StartsClosed DEF u, last
    <3>3. QED
      BY <3>1, <3>2
  <2>5. QED
    BY <1>1, <2>2, <2>3, <2>4 DEF WalkInv, WalkOnOptions
<1>12. QED
  BY <1>1, <1>2, <1>9, <1>10, <1>11 DEF WalkInv, WalkOnOptions, last

\* Every other step has left the packet, or takes a new one at its beginning.
LEMMA MaskWalkInv == ASSUME WalkInv, MaskNext PROVE WalkInv'
<1>1. CASE WalkStep
  BY <1>1, WalkStepKeeps
<1>2. CASE Receive
  <2>1. packet' \in Packets /\ at' = 1 /\ found' = <<>>
    BY <1>2 DEF Receive
  <2>2. 1 \in OptionStarts(packet') /\ Len(packet') \in Nat
    BY <2>1, StartsClosed, PacketType
  <2>3. 1 \in 1..(Len(packet') + 1) /\ 1 <= Len(packet') + 1
    BY <2>2
  <2>4. QED
    BY <2>1, <2>2, <2>3 DEF WalkInv, WalkOnOptions
<1>3. CASE ~WalkStep /\ ~Receive
  <2>1. maskPc' # "walk" /\ found' \in {found, <<>>}
    BY <1>3 DEF MaskNext, Listener, Begin, NoInterface, AskRadvdump, SocketFails, Solicit, Check,
       Tick, ReadTimesOut, ReadFails, ReceiveForeign, WalkEnds, Ask, NobodyKnows, LeaveListener,
       WalkForgotten, Take, listenVars
  <2>2. <<>> \in Seq(Nat)
    OBVIOUS
  <2>3. QED
    BY <2>1, <2>2 DEF WalkInv, WalkOnOptions
<1>4. QED
  BY <1>1, <1>2, <1>3

-----------------------------------------------------------------------------
(***************************************************************************)
(* The length that is printed.                                              *)
(***************************************************************************)

\* What is chosen of a listing is one of its usable lengths, the ip command's least.
LEMMA ChosenIsUsable ==
  ASSUME NEW s, NEW listing \in Listings, UsableLengths(s, listing) # {}
  PROVE  /\ Chosen(s, listing) \in UsableLengths(s, listing)
         /\ s = "ip" => \A n \in UsableLengths(s, listing) : Chosen(s, listing) <= n
<1> DEFINE places == {i \in DOMAIN listing : Usable(s, listing[i])}
<1>1. DOMAIN listing \subseteq Nat /\ \A i \in DOMAIN listing : listing[i] \in Addresses
  BY DEF Listings
<1>2. UsableLengths(s, listing) = {listing[i].length : i \in places}
  BY DEF UsableLengths
<1>3. UsableLengths(s, listing) \subseteq Nat
  <2>1. \A i \in DOMAIN listing : listing[i].length \in Nat
    BY <1>1, MaskAssumption DEF Addresses
  <2>2. QED
    BY <1>2, <2>1
<1>4. CASE s = "ip"
  BY <1>3, <1>4, LeastNat DEF Chosen
<1>5. CASE s # "ip"
  <2>1. places \subseteq Nat /\ places # {}
    BY <1>1, <1>2
  <2>2. Min(places) \in places
    BY <2>1, LeastNat
  <2>3. Chosen(s, listing) = listing[Min(places)].length
    BY <1>5 DEF Chosen
  <2>4. QED
    BY <1>2, <1>5, <2>2, <2>3
<1>6. QED
  BY <1>4, <1>5

\* The four chains.
LEMMA ChainsByName ==
  ASSUME os \in Systems
  PROVE  Chain \in {LinuxChain, DarwinChain, FreeBSDChain, WindowsChain} /\ (os = "linux" => Chain = LinuxChain)
<1>1. os \in {"linux", "darwin", "freebsd", "windows"}
  BY MaskAssumption
<1>2. QED
  BY <1>1, Zenon DEF Chain

\* No source is asked twice.
LEMMA ChainWithoutRepetition ==
  ASSUME os \in Systems
  PROVE  /\ DOMAIN Chain = 1..Len(Chain) /\ DOMAIN Chain \subseteq Nat
         /\ \A i, j \in DOMAIN Chain : Chain[i] = Chain[j] => i = j
<1>1. CASE Chain = <<"ra", "ip", "config">>
  BY <1>1
<1>2. CASE Chain = <<"ifconfig", "networksetup">>
  BY <1>2
<1>3. CASE Chain = <<"ifconfig", "config">>
  BY <1>3
<1>4. CASE Chain = <<"netsh", "powershell">>
  BY <1>4
<1>5. QED
  BY <1>1, <1>2, <1>3, <1>4, ChainsByName DEF LinuxChain, DarwinChain, FreeBSDChain, WindowsChain

\* The listener is Linux's, and the length is the default or one that its source gave.
PrintedInv ==
  /\ maskPc \in Listening \cup {"radvdump", "socket"} => os = "linux"
  /\ maskPc = "done" =>
       \/ mask = [length |-> 128, by |-> "default"] /\ \A s \in Sources : offered[s] = {}
       \/ \E i \in DOMAIN Chain :
            /\ mask.by = Chain[i] /\ mask.length \in offered[Chain[i]]
            /\ Chain[i] = "ip" => \A n \in offered["ip"] : mask.length <= n

\* A source in the chain whose lengths are all those given is taken.
LEMMA TakenIsPrinted ==
  ASSUME IInv, PrintedInv, maskPc # "done", NEW i \in DOMAIN Chain, Chain' = Chain,
         NEW lengths, NEW n \in lengths, Hear(Chain[i], lengths), Take(Chain[i], n),
         Chain[i] = "ip" => \A k \in lengths : n <= k
  PROVE  PrintedInv'
<1>1. Chain[i] \in Sources
  BY ChainOfSources, ChainWithoutRepetition DEF IInv, ClockInv
<1>2. offered'[Chain[i]] = lengths
  BY <1>1 DEF Hear, IInv, OneOffers
<1>3. maskPc' = "done" /\ mask'.length = n /\ mask'.by = Chain[i]
  BY DEF Take
<1>4. QED
  BY <1>2, <1>3 DEF PrintedInv, Listening

\* The steps that print nothing, then each one that may.
LEMMA SilentPrinted ==
  ASSUME PrintedInv,
         \/ Begin \/ NoInterface \/ SocketFails \/ Solicit \/ Check \/ Tick \/ ReadTimesOut
         \/ ReadFails \/ ReceiveForeign \/ Receive \/ WalkStep
  PROVE  PrintedInv'
<1>1. maskPc' # "done" /\ os' = os
  BY DEF Begin, NoInterface, SocketFails, Solicit, Check, Tick, ReadTimesOut, ReadFails,
         ReceiveForeign, Receive, WalkStep, LeaveListener
<1>2. maskPc' \in Listening \cup {"radvdump", "socket"} =>
        maskPc \in Listening \cup {"radvdump", "socket"} \/ os = "linux"
  BY DEF Begin, NoInterface, SocketFails, Solicit, Check, Tick, ReadTimesOut, ReadFails,
         ReceiveForeign, Receive, WalkStep, LeaveListener, Listening
<1>3. QED
  BY <1>1, <1>2 DEF PrintedInv

LEMMA AskRadvdumpPrinted == ASSUME IInv, PrintedInv, AskRadvdump PROVE PrintedInv'
<1>1. maskPc = "radvdump" /\ UNCHANGED <<os, source, listenVars>>
  BY DEF AskRadvdump
<1>2. os = "linux" /\ Chain = LinuxChain
  BY <1>1, ChainsByName DEF PrintedInv, IInv, ClockInv
<1>3. 1 \in DOMAIN Chain /\ Chain[1] = "ra" /\ Chain' = Chain
  <2>1. Chain' = Chain
    BY <1>1, Zenon DEF Chain
  <2>2. QED
    BY <1>2, <2>1 DEF LinuxChain
<1>4. PICK listing \in Listings :
        /\ Hear("ra", UsableLengths("ra", listing))
        /\ IF UsableLengths("ra", listing) # {}
           THEN Take("ra", Chosen("ra", listing))
           ELSE maskPc' = "socket" /\ UNCHANGED mask
  BY DEF AskRadvdump
<1>5. CASE UsableLengths("ra", listing) # {}
  <2>1. Chosen("ra", listing) \in UsableLengths("ra", listing)
    BY <1>5, ChosenIsUsable
  <2>2. QED
    BY <1>1, <1>3, <1>4, <1>5, <2>1, TakenIsPrinted
<1>6. CASE UsableLengths("ra", listing) = {}
  BY <1>1, <1>2, <1>4, <1>6 DEF PrintedInv
<1>7. QED
  BY <1>5, <1>6

LEMMA WalkEndsPrinted == ASSUME IInv, WalkInv, PrintedInv, WalkEnds PROVE PrintedInv'
<1> DEFINE heard == {found[i] : i \in DOMAIN found}
<1>1. /\ maskPc = "walk" /\ UNCHANGED <<os, source>>
      /\ Hear("ra", heard)
      /\ found # <<>> => Take("ra", Head(found))
      /\ found = <<>> => maskPc' = "check"
  BY DEF WalkEnds
<1>2. os = "linux" /\ Chain = LinuxChain
  BY <1>1, ChainsByName DEF PrintedInv, IInv, ClockInv, Listening
<1>3. 1 \in DOMAIN Chain /\ Chain[1] = "ra" /\ Chain' = Chain
  <2>1. Chain' = Chain
    BY <1>1, Zenon DEF Chain
  <2>2. QED
    BY <1>2, <2>1 DEF LinuxChain
<1>4. CASE found # <<>>
  <2>1. Head(found) \in heard
    <3>1. 1 \in DOMAIN found /\ Head(found) = found[1]
      BY <1>4 DEF WalkInv
    <3>2. QED
      BY <3>1
  <2> HIDE DEF heard
  <2>2. QED
    BY <1>1, <1>3, <1>4, <2>1, TakenIsPrinted
<1>5. CASE found = <<>>
  BY <1>1, <1>2, <1>5 DEF PrintedInv
<1>6. QED
  BY <1>4, <1>5

LEMMA AskPrinted == ASSUME IInv, PrintedInv, Ask PROVE PrintedInv'
<1> DEFINE s == Chain[source]
<1>1. maskPc = "ask" /\ source <= Len(Chain) /\ UNCHANGED <<os, listenVars>>
  BY DEF Ask
<1>2. PICK listing \in Listings :
        /\ Hear(s, UsableLengths(s, listing))
        /\ IF UsableLengths(s, listing) # {}
           THEN Take(s, Chosen(s, listing)) /\ UNCHANGED source
           ELSE source' = source + 1 /\ UNCHANGED <<mask, maskPc>>
  BY DEF Ask
<1>3. source \in DOMAIN Chain /\ Chain' = Chain
  <2>1. Chain' = Chain
    BY <1>1, Zenon DEF Chain
  <2>2. source \in Nat \ {0} /\ DOMAIN Chain = 1..Len(Chain)
    BY <1>1, ChainWithoutRepetition DEF IInv, OneOffers, ClockInv
  <2>3. Len(Chain) \in Nat
    BY ChainsByName DEF IInv, ClockInv, LinuxChain, DarwinChain, FreeBSDChain, WindowsChain
  <2>4. QED
    BY <1>1, <2>1, <2>2, <2>3
<1>4. CASE UsableLengths(s, listing) # {}
  <2>1. /\ Chosen(s, listing) \in UsableLengths(s, listing)
        /\ s = "ip" => \A n \in UsableLengths(s, listing) : Chosen(s, listing) <= n
    BY <1>4, ChosenIsUsable
  <2>2. QED
    BY <1>1, <1>2, <1>3, <1>4, <2>1, TakenIsPrinted
<1>5. CASE UsableLengths(s, listing) = {}
  BY <1>1, <1>2, <1>5 DEF PrintedInv, Listening
<1>6. QED
  BY <1>4, <1>5

LEMMA NobodyKnowsPrinted == ASSUME IInv, PrintedInv, NobodyKnows PROVE PrintedInv'
<1>1. maskPc = "ask" /\ maskPc' = "done" /\ mask' = [length |-> 128, by |-> "default"] /\ offered' = offered
  BY DEF NobodyKnows, Take
<1>2. QED
  BY <1>1 DEF IInv, OneOffers, PrintedInv, Listening

LEMMA MaskPrinted == ASSUME IInv, WalkInv, PrintedInv, MaskNext PROVE PrintedInv'
BY SilentPrinted, AskRadvdumpPrinted, WalkEndsPrinted, AskPrinted, NobodyKnowsPrinted DEF MaskNext, Listener

-----------------------------------------------------------------------------
(***************************************************************************)
(* The addresses that are active.                                           *)
(***************************************************************************)

\* A network of so many bits has a positive number of addresses: as many as there are
\* subsets of its other bits.
LEMMA TwoToThe == ASSUME NEW n \in Nat PROVE 2 ^ n \in Nat
<1>1. IsFiniteSet(1..n) /\ Cardinality(1..n) = n
  BY FS_Interval
<1>2. IsFiniteSet(SUBSET (1..n)) /\ Cardinality(SUBSET (1..n)) = 2 ^ n
  BY <1>1, FS_SUBSET
<1>3. QED
  BY <1>2, FS_CardinalityType

\* A share of the picture is a share of the network.
LEMMA ShareOfTotal ==
  ASSUME NEW total \in Nat, NEW coloured \in 0..Pixels
  PROVE  Share(coloured, total) \in 0..total
<1>1. Pixels \in Nat \ {0}
  BY ReportAssumption
<1>2. coloured * total \in Nat /\ coloured * total <= Pixels * total
  BY <1>1
<1>3. \A n \in Nat, p \in Nat \ {0} : n <= p * total => n \div p \in 0..total
  OBVIOUS
<1>4. QED
  BY <1>1, <1>2, <1>3 DEF Share

\* No more active addresses than there are.
Honest(c) == c.active \in 0..c.total

\* What the page yields is honest for a network of any length.
LEMMA CountsAreHonest == ASSUME NEW bits, NEW c \in Counts(bits) PROVE Honest(c)
<1>1. CASE c = NoCount
  BY <1>1 DEF NoCount, Honest
<1>2. CASE c # NoCount
  <2>1. bits \in 0..32
    BY <1>2 DEF Counts
  <2>2. PICK k \in 0..Pixels : c = [active |-> Share(k, 2 ^ (32 - bits)), total |-> 2 ^ (32 - bits)]
    BY <1>2, <2>1 DEF Counts
  <2>3. 2 ^ (32 - bits) \in Nat
    BY <2>1, TwoToThe
  <2>4. QED
    BY <2>2, <2>3, ShareOfTotal DEF Honest
<1>3. QED
  BY <1>1, <1>2

\* The rows that are not about the active addresses.
PlainRows == {<<f, what>> : f \in Families, what \in {"ASN", "Location", "Mask"}}

\* The row of active addresses stands behind PrintActive only; without a question there is
\* no count.
ActiveInv ==
  /\ active = [subnet |-> active.subnet, prefix |-> active.prefix]
  /\ Honest(active.subnet) /\ Honest(active.prefix)
  /\ \/ rows \subseteq PlainRows /\ (pc = "ipv6" => active = NoCounts)
     \/ rows = ActiveRow /\ pc = "ipv6"

\* The row is honest when its counts are, and it is the only one with parts.
LEMMA ActiveInvImplies == ActiveInv => ActiveRowHonest
<1> SUFFICES ASSUME ActiveInv PROVE ActiveRowHonest
  OBVIOUS
<1> DEFINE parts == {r \in rows : r[1] \in {"subnet", "prefix"}}
<1>1. CASE rows \subseteq PlainRows /\ (pc = "ipv6" => active = NoCounts)
  <2>1. parts = {} /\ <<"ipv4", "Active IPs">> \notin rows
    <3>1. \A r \in PlainRows : r[1] \in {"ipv4", "ipv6"} /\ r[2] \in {"ASN", "Location", "Mask"}
      BY DEF PlainRows, Families
    <3>2. <<"ipv4", "Active IPs">>[2] = "Active IPs"
      OBVIOUS
    <3>3. QED
      BY <1>1, <3>1, <3>2
  <2>2. pc = "ipv6" => ~Counted(active.prefix)
    BY <1>1 DEF NoCounts, NoCount, Counted
  <2>3. QED
    BY <2>1, <2>2 DEF ActiveRowHonest
<1>2. CASE rows = ActiveRow /\ pc = "ipv6"
  <2>1. parts = (IF Counted(active.subnet) THEN {<<"subnet", 24, active.subnet>>} ELSE {})
                \cup (IF Counted(active.prefix) /\ network # 24 THEN {<<"prefix", network, active.prefix>>} ELSE {})
    <3> DEFINE title == <<"ipv4", "Active IPs">>
               ofSubnet == <<"subnet", 24, active.subnet>>
               ofPrefix == <<"prefix", network, active.prefix>>
    <3>1. title[1] = "ipv4" /\ ofSubnet[1] = "subnet" /\ ofPrefix[1] = "prefix"
      OBVIOUS
    <3>2. rows = (IF Counted(active.subnet) \/ Counted(active.prefix) THEN {title} ELSE {})
                 \cup (IF Counted(active.subnet) THEN {ofSubnet} ELSE {})
                 \cup (IF Counted(active.prefix) /\ network # 24 THEN {ofPrefix} ELSE {})
      BY <1>2 DEF ActiveRow
    <3> HIDE DEF title, ofSubnet, ofPrefix
    <3>3. parts = (IF Counted(active.subnet) THEN {ofSubnet} ELSE {})
                  \cup (IF Counted(active.prefix) /\ network # 24 THEN {ofPrefix} ELSE {})
      BY <3>1, <3>2
    <3>4. QED
      BY <3>3 DEF ofSubnet, ofPrefix
  <2>2. \A c \in {active.subnet, active.prefix} : Counted(c) => c.active \in 1..c.total
    BY DEF ActiveInv, Honest, Counted
  <2>3. \A p \in parts : /\ p[3].active \in 1..p[3].total
                         /\ p[1] = "prefix" => p[2] # 24
    <3> HIDE DEF parts
    <3>1. QED
      BY <2>1, <2>2
  <2>4. parts # {} <=> Counted(active.subnet) \/ (Counted(active.prefix) /\ network # 24)
    <3> HIDE DEF parts
    <3>1. QED
      BY <2>1
  <2>5. <<"ipv4", "Active IPs">> \in rows <=> Counted(active.subnet) \/ Counted(active.prefix)
    BY <1>2 DEF ActiveRow
  <2> HIDE DEF parts
  <2>6. <<"ipv4", "Active IPs">> \in rows <=>
          \/ parts # {}
          \/ network = 24 /\ ~Counted(active.subnet) /\ Counted(active.prefix) /\ pc = "ipv6"
    BY <1>2, <2>4, <2>5
  <2>7. QED
    BY <2>3, <2>6 DEF ActiveRowHonest, parts
<1>3. QED
  BY <1>1, <1>2 DEF ActiveInv

\* Only the questions about the neighbourhood change the counts, only PrintActive makes the row.
LEMMA NextActiveInv == ActiveInv /\ [Next]_vars => ActiveInv'
<1> SUFFICES ASSUME ActiveInv, [Next]_vars PROVE ActiveInv'
  OBVIOUS
<1>1. CASE UNCHANGED <<active, network, rows, pc>>
  BY <1>1 DEF ActiveInv, ActiveRow, Counted
<1>2. CASE \/ ParseCLI \/ PreCheck \/ RunIpCheck \/ AskHE \/ AskBGPTools \/ SystemInfo \/ Enter
  <2>1. active' = active /\ rows' = rows /\ pc' # "ipv6" /\ pc # "ipv6"
    BY <1>2 DEF ParseCLI, PreCheck, RunIpCheck, AskHE, AskBGPTools, SystemInfo, Enter, activeVars
  <2>2. QED
    BY <2>1 DEF ActiveInv
<1>3. CASE \E f \in Families : PrintIPInfo(f)
  <2>1. PICK f \in Families : PrintIPInfo(f)
    BY <1>3
  <2>2. rows' = RowsOf(f) /\ active' = NoCounts
    BY <2>1 DEF PrintIPInfo
  <2>3. RowsOf(f) \subseteq PlainRows
    BY DEF RowsOf, PlainRows
  <2>4. QED
    BY <2>2, <2>3 DEF ActiveInv, NoCounts, NoCount, Honest
<1>4. CASE CountSubnet
  <2>1. PICK c \in Counts(24) : active' = [active EXCEPT !.subnet = c]
    BY <1>4 DEF CountSubnet
  <2>2. active' = [subnet |-> c, prefix |-> active.prefix] /\ Honest(c)
    BY <2>1, CountsAreHonest DEF ActiveInv
  <2>3. pc = "subnet" /\ pc' = "he" /\ rows' = rows
    BY <1>4 DEF CountSubnet
  <2>4. QED
    BY <2>2, <2>3 DEF ActiveInv
<1>5. CASE CountPrefix
  <2>1. PICK c \in Counts(network) : active' = [active EXCEPT !.prefix = c]
    BY <1>5 DEF CountPrefix
  <2>2. active' = [subnet |-> active.subnet, prefix |-> c] /\ Honest(c)
    BY <2>1, CountsAreHonest DEF ActiveInv
  <2>3. pc = "prefix" /\ pc' = "active row" /\ rows' = rows
    BY <1>5 DEF CountPrefix
  <2>4. QED
    BY <2>2, <2>3 DEF ActiveInv
<1>6. CASE PrintActive
  <2>1. rows' = ActiveRow /\ pc' = "ipv6" /\ active' = active /\ network' = network
    BY <1>6 DEF PrintActive, activeVars
  <2>2. rows' = ActiveRow'
    BY <2>1 DEF ActiveRow, Counted
  <2>3. QED
    BY <2>1, <2>2 DEF ActiveInv
<1>7. CASE PrintMask
  <2>1. rows' \subseteq PlainRows /\ pc' = "system" /\ active' = active
    BY <1>7 DEF PrintMask, PlainRows, Families, activeVars
  <2>2. QED
    BY <2>1 DEF ActiveInv
<1>8. CASE GetIPv6Mask
  BY <1>1, <1>8 DEF GetIPv6Mask, activeVars
<1>9. QED
  BY <1>1, <1>2, <1>3, <1>4, <1>5, <1>6, <1>7, <1>8 DEF Next, vars, activeVars

-----------------------------------------------------------------------------
(***************************************************************************)
(* The theorems.                                                            *)
(***************************************************************************)

\* What is invariant besides IInv.
Whole == WalkInv /\ PrintedInv /\ ActiveInv

LEMMA InitWhole == Init => Whole
<1> SUFFICES ASSUME Init PROVE Whole
  OBVIOUS
<1>1. WalkInv
  BY DEF Init, MaskInit, WalkInv, WalkOnOptions
<1>2. PrintedInv
  BY DEF Init, MaskInit, PrintedInv, Listening
<1>3. ActiveInv
  BY DEF Init, ActiveInv, NoCounts, NoCount, Honest
<1>4. QED
  BY <1>1, <1>2, <1>3 DEF Whole

LEMMA NextWhole == IInv /\ Whole /\ [Next]_vars => Whole'
<1> SUFFICES ASSUME IInv, Whole, [Next]_vars PROVE Whole'
  OBVIOUS
<1>1. ActiveInv'
  BY NextActiveInv DEF Whole
<1>2. CASE GetIPv6Mask
  BY <1>1, <1>2, MaskWalkInv, MaskPrinted DEF GetIPv6Mask, Whole
<1>3. CASE UNCHANGED maskVars
  <2>1. Chain' = Chain
    BY <1>3, Zenon DEF maskVars, Chain
  <2>2. PrintedInv'
    BY <1>3, <2>1 DEF Whole, PrintedInv, maskVars
  <2>3. WalkInv'
    BY <1>3 DEF Whole, WalkInv, WalkOnOptions, maskVars, listenVars
  <2>4. QED
    BY <1>1, <2>2, <2>3 DEF Whole
<1>4. [Next]_vars => GetIPv6Mask \/ UNCHANGED maskVars
  BY DEF Next, vars, ParseCLI, PreCheck, RunIpCheck, PrintIPInfo, CountSubnet, AskHE, AskBGPTools,
     CountPrefix, PrintActive, PrintMask, SystemInfo, Enter
<1>5. QED
  BY <1>2, <1>3, <1>4

LEMMA WholeInvariance == Spec => [](IInv /\ Whole)
<1>1. QED
  BY InitIInv, NextIInv, InitWhole, NextWhole, PTL DEF Spec

\* Whatever the time-out is, the listener is gone before twice that time has passed.
THEOREM ListenerEnds == Spec => []ListenerBounded
<1>1. IInv => ListenerBounded
  BY DEF IInv, ClockInv, ListenerBounded
<1>2. QED
  BY <1>1, Invariance, PTL

\* The length printed is of the only source that offered any: nobody behind it in the chain
\* was asked, and nobody before it had an answer that was passed over.
THEOREM OnlyOneSourceOffers ==
  Spec => [](maskPc = "done" => \A s \in Sources : offered[s] # {} => s = mask.by)
<1>1. IInv => (maskPc = "done" => \A s \in Sources : offered[s] # {} => s = mask.by)
  BY DEF IInv, OneOffers
<1>2. QED
  BY <1>1, Invariance, PTL

\* Whatever an advertisement holds, the walk over its options stays in the packet and, up to
\* the first option of 256 bytes or more, stops only where an option begins.
THEOREM WalkStaysOnOptions == Spec => []WalkOnOptions
<1>1. Whole => WalkOnOptions
  BY DEF Whole, WalkInv
<1>2. QED
  BY <1>1, WholeInvariance, PTL

\* Whatever the sources list, the printed length is a valid one that the first source with
\* any gave, the least of the ip command's, and 128 only when none gave any.
THEOREM MaskOfTheFirstSource == Spec => []MaskByPriority
<1>1. ASSUME IInv, Whole PROVE MaskByPriority
  <2> SUFFICES ASSUME maskPc = "done",
                      ~(mask = [length |-> 128, by |-> "default"] /\ \A s \in Sources : offered[s] = {})
               PROVE  \E i \in DOMAIN Chain :
                        /\ mask.by = Chain[i] /\ mask.length \in offered[Chain[i]]
                        /\ \A j \in 1..(i - 1) : offered[Chain[j]] = {}
                        /\ Chain[i] = "ip" => \A n \in offered["ip"] : mask.length <= n
    BY Zenon DEF MaskByPriority
  <2>1. PICK i \in DOMAIN Chain :
          /\ mask.by = Chain[i] /\ mask.length \in offered[Chain[i]]
          /\ Chain[i] = "ip" => \A n \in offered["ip"] : mask.length <= n
    BY <1>1 DEF Whole, PrintedInv
  <2>2. /\ DOMAIN Chain = 1..Len(Chain) /\ DOMAIN Chain \subseteq Nat
        /\ \A j, k \in DOMAIN Chain : Chain[j] = Chain[k] => j = k
        /\ \A j \in DOMAIN Chain : Chain[j] \in Sources
    BY <1>1, ChainWithoutRepetition, ChainOfSources DEF IInv, ClockInv
  <2>3. ASSUME NEW j \in 1..(i - 1) PROVE offered[Chain[j]] = {}
    <3>1. j \in DOMAIN Chain /\ j # i
      <4>1. Len(Chain) \in Nat
        BY <1>1, ChainsByName DEF IInv, ClockInv, LinuxChain, DarwinChain, FreeBSDChain, WindowsChain
      <4>2. QED
        BY <2>2, <4>1
    <3>2. Chain[j] # mask.by /\ Chain[j] \in Sources
      BY <2>1, <2>2, <3>1
    <3>3. QED
      BY <1>1, <3>2 DEF IInv, OneOffers
  <2>4. QED
    BY <2>1, <2>3
<1>2. QED
  BY <1>1, WholeInvariance, PTL

\* For any prefixes and any picture, the row of active addresses says no more than there is.
THEOREM ActiveRowIsHonest == Spec => []ActiveRowHonest
<1>1. Whole => ActiveRowHonest
  BY ActiveInvImplies DEF Whole
<1>2. QED
  BY <1>1, WholeInvariance, PTL
=============================================================================
