------------------------------ MODULE Ipv6Mask -------------------------------
(***************************************************************************)
(* GetIPv6Mask (network/ipv6): the length of the prefix the machine's IPv6  *)
(* address is in, asked of one source after another and 128 when no source  *)
(* knows it. On Linux the first source listens for router advertisements on *)
(* a raw socket with two time-outs: one on each read and one, looked at     *)
(* between two reads only, on the whole.                                    *)
(*                                                                         *)
(* A source lists addresses, each with its scope and the length of its      *)
(* prefix. An advertisement is the sequence of 8-byte units behind its      *)
(* header of 16 bytes, a unit its bytes 0, 1, 2 and 7, the only ones read.  *)
(***************************************************************************)
EXTENDS Naturals, SequencesExt

CONSTANTS
  Systems,   \* the systems GetIPv6Mask is built for
  Lengths,   \* the numbers that sources give as lengths
  Packets,   \* the units of the advertisements that may arrive
  Timeout    \* both time-outs, in ticks of the clock

Sources == {"ra", "ip", "config", "ifconfig", "networksetup", "netsh", "powershell"}
Addresses == [scope : {"global", "other"}, length : Lengths]

ASSUME MaskAssumption ==
  /\ Systems \subseteq {"linux", "darwin", "freebsd", "windows"}
  /\ Lengths \subseteq Nat /\ Timeout \in Nat \ {0}
  /\ \A p \in Packets : p \in Seq([b0 : 0..255, b1 : 0..255, b2 : 0..255, b7 : 0..255])

VARIABLES
  os,
  maskPc,    \* what GetIPv6Mask is doing
  source,    \* the place in the chain of the source asked
  clock,     \* the time since the listener's context was made
  readStart, \* when the read under way began
  packet, at, found, \* the walk: its packet, its next unit, the lengths it collected
  offered,   \* for each source, the valid lengths of global prefixes it gave
  mask       \* the length that is printed, and the source it comes from

listenVars == <<clock, readStart, packet, at, found>>
maskVars == <<os, maskPc, source, listenVars, offered, mask>>

Unknown == [length |-> 0, by |-> "nobody"]

MaskInit ==
  /\ os \in Systems
  /\ maskPc = "idle" /\ source = 1
  /\ clock = 0 /\ readStart = 0
  /\ packet = <<>> /\ at = 1 /\ found = <<>>
  /\ offered = [s \in Sources |-> {}]
  /\ mask = Unknown

LinuxChain == <<"ra", "ip", "config">>
DarwinChain == <<"ifconfig", "networksetup">>
FreeBSDChain == <<"ifconfig", "config">>
WindowsChain == <<"netsh", "powershell">>

Chain ==
  CASE os = "linux" -> LinuxChain
    [] os = "darwin" -> DarwinChain
    [] os = "freebsd" -> FreeBSDChain
    [] os = "windows" -> WindowsChain

\* The other systems accept a length of 0.
IsPrefixLengthValid(n) == n \in (IF os = "linux" THEN 1 ELSE 0)..128

\* A configuration file and networksetup give a number without an address.
Unaddressed == {"config", "networksetup"}

Usable(s, a) ==
  /\ a.scope = "global" \/ s \in Unaddressed
  /\ IsPrefixLengthValid(a.length)

UsableLengths(s, listing) == {listing[i].length : i \in {j \in DOMAIN listing : Usable(s, listing[j])}}

BugChosen(s, listing) == Head(listing).length

\* The ip command's lengths are sorted, elsewhere the first one counts.
Chosen(s, listing) ==
  IF s = "ip" THEN Min(UsableLengths(s, listing))
  ELSE listing[Min({i \in DOMAIN listing : Usable(s, listing[i])})].length

Begin ==
  /\ maskPc = "idle"
  /\ maskPc' = IF os = "linux" THEN "radvdump" ELSE "ask"
  /\ UNCHANGED <<os, source, listenVars, offered, mask>>

\* getInterface finds nothing: an error, and no row.
NoInterface ==
  /\ maskPc = "idle"
  /\ maskPc' = "failed"
  /\ UNCHANGED <<os, source, listenVars, offered, mask>>

\* What a source prints; a command that fails or a file that is missing prints nothing.
Listings == {<<>>} \cup {<<a>> : a \in Addresses} \cup {<<a, b>> : a \in Addresses, b \in Addresses}

Hear(s, lengths) == offered' = [offered EXCEPT ![s] = @ \cup lengths]

Take(s, n) ==
  /\ mask' = [length |-> n, by |-> s]
  /\ maskPc' = "done"

AskRadvdump ==
  /\ maskPc = "radvdump"
  /\ \E listing \in Listings :
       /\ Hear("ra", UsableLengths("ra", listing))
       /\ IF UsableLengths("ra", listing) # {}
          THEN Take("ra", Chosen("ra", listing))
          ELSE maskPc' = "socket" /\ UNCHANGED mask
  /\ UNCHANGED <<os, source, listenVars>>

-----------------------------------------------------------------------------
(***************************************************************************)
(* The listener.                                                            *)
(***************************************************************************)

\* The walk's variables are not read again, nor the clock after the listener.
WalkForgotten == packet' = <<>> /\ at' = 1 /\ found' = <<>>

LeaveListener ==
  /\ maskPc' = "ask" /\ source' = 2
  /\ clock' = 0 /\ readStart' = 0
  /\ WalkForgotten

\* No raw socket without privileges; an option or the solicitation may fail too.
SocketFails ==
  /\ maskPc = "socket"
  /\ LeaveListener
  /\ UNCHANGED <<os, offered, mask>>

Solicit ==
  /\ maskPc = "socket"
  /\ maskPc' = "check"
  /\ UNCHANGED <<os, source, listenVars, offered, mask>>

BugCheck ==
  /\ maskPc = "check"
  /\ maskPc' = "read" /\ readStart' = clock
  /\ UNCHANGED <<os, source, clock, packet, at, found, offered, mask>>

\* The select: the context's end, or the next read.
Check ==
  /\ maskPc = "check"
  /\ IF clock >= Timeout
     THEN LeaveListener
     ELSE /\ maskPc' = "read" /\ readStart' = clock
          /\ UNCHANGED <<source, clock, packet, at, found>>
  /\ UNCHANGED <<os, offered, mask>>

\* Only a read takes time, and no longer than its own time-out.
Tick ==
  /\ maskPc = "read" /\ clock < readStart + Timeout
  /\ clock' = clock + 1
  /\ UNCHANGED <<os, maskPc, source, readStart, packet, at, found, offered, mask>>

ReadTimesOut ==
  /\ maskPc = "read" /\ clock = readStart + Timeout
  /\ maskPc' = "check"
  /\ UNCHANGED <<os, source, listenVars, offered, mask>>

ReadFails ==
  /\ maskPc = "read"
  /\ LeaveListener
  /\ UNCHANGED <<os, offered, mask>>

\* A packet that is too short or no advertisement.
ReceiveForeign ==
  /\ maskPc = "read"
  /\ maskPc' = "check"
  /\ UNCHANGED <<os, source, listenVars, offered, mask>>

Receive ==
  /\ maskPc = "read"
  /\ packet' \in Packets /\ at' = 1 /\ found' = <<>>
  /\ maskPc' = "walk"
  /\ UNCHANGED <<os, source, clock, readStart, offered, mask>>

-----------------------------------------------------------------------------
(***************************************************************************)
(* extractPrefixFromRAOption.                                               *)
(***************************************************************************)

\* The length of an option in units: its second byte times eight, in a byte.
OptionUnits(u) == ((u.b1 * 8) % 256) \div 8

\* fe80::/10, fc00::/7, ::1 (any prefix of two zero bytes that ends in 1), ff00::/8.
IsNonGlobalPrefix(u, last) ==
  \/ u.b0 = 254 /\ u.b1 \div 64 = 2
  \/ u.b0 \in {252, 253}
  \/ u.b0 = 0 /\ u.b1 = 0 /\ last.b7 = 1
  \/ u.b0 = 255

\* A whole option is next: the loop's condition and its two breaks.
OptionHere ==
  /\ at <= Len(packet)
  /\ OptionUnits(packet[at]) > 0
  /\ at - 1 + OptionUnits(packet[at]) <= Len(packet)

\* A prefix option of 32 bytes or more: its third byte is the length, its third
\* and fourth units are the prefix.
PrefixHere ==
  /\ packet[at].b0 = 3 /\ OptionUnits(packet[at]) >= 4
  /\ ~IsNonGlobalPrefix(packet[at + 2], packet[at + 3])
  /\ packet[at].b2 \in 1..128

BugWalkStep ==
  /\ maskPc = "walk" /\ OptionHere
  /\ found' = IF PrefixHere THEN Append(found, packet[at].b2) ELSE found
  /\ at' = at + 1
  /\ UNCHANGED <<os, maskPc, source, clock, readStart, packet, offered, mask>>

WalkStep ==
  /\ maskPc = "walk" /\ OptionHere
  /\ found' = IF PrefixHere THEN Append(found, packet[at].b2) ELSE found
  /\ at' = at + OptionUnits(packet[at])
  /\ UNCHANGED <<os, maskPc, source, clock, readStart, packet, offered, mask>>

WalkEnds ==
  /\ maskPc = "walk" /\ ~OptionHere
  /\ Hear("ra", {found[i] : i \in DOMAIN found})
  /\ WalkForgotten
  /\ IF found # <<>>
     THEN Take("ra", Head(found)) /\ clock' = 0 /\ readStart' = 0
     ELSE maskPc' = "check" /\ UNCHANGED <<mask, clock, readStart>>
  /\ UNCHANGED <<os, source>>

-----------------------------------------------------------------------------
(***************************************************************************)
(* The other sources, and the chain's end.                                  *)
(***************************************************************************)

Ask ==
  /\ maskPc = "ask" /\ source <= Len(Chain)
  /\ LET s == Chain[source] IN
       \E listing \in Listings :
         /\ Hear(s, UsableLengths(s, listing))
         /\ IF UsableLengths(s, listing) # {}
            THEN Take(s, Chosen(s, listing)) /\ UNCHANGED source
            ELSE source' = source + 1 /\ UNCHANGED <<mask, maskPc>>
  /\ UNCHANGED <<os, listenVars>>

NobodyKnows ==
  /\ maskPc = "ask" /\ source > Len(Chain)
  /\ Take("default", 128)
  /\ UNCHANGED <<os, source, listenVars, offered>>

Listener ==
  \/ SocketFails \/ Solicit \/ Check \/ Tick \/ ReadTimesOut \/ ReadFails
  \/ ReceiveForeign \/ Receive \/ WalkStep \/ WalkEnds

MaskNext == Begin \/ NoInterface \/ AskRadvdump \/ Listener \/ Ask \/ NobodyKnows

-----------------------------------------------------------------------------
(***************************************************************************)
(* Properties.                                                              *)
(***************************************************************************)

\* However many foreign packets arrive, and whenever they do, the listener is gone
\* at the latest one time-out of a read after its deadline: it looks at the deadline
\* between two reads, and a read begun just before it may still last (ipv6_mask_linux.go:137).
ListenerBounded == clock < 2 * Timeout

\* The places at which the options of an advertisement really begin, by its own lengths:
\* those that its first n units tell of, and all of them.
Starts(p) ==
  LET starts[n \in 0..Len(p)] ==
        IF n = 0 THEN {1}
        ELSE LET before == starts[n - 1] IN
               before \cup (IF n \in before /\ p[n].b1 > 0 THEN {n + p[n].b1} ELSE {})
  IN starts

OptionStarts(p) == Starts(p)[Len(p)]

\* The walk never leaves the packet and looks at the beginning of options only, so that
\* nothing inside an option is taken for a prefix; the one exception is behind an option
\* of 256 bytes or more, whose length does not fit in the byte it is computed in
\* (ipv6_mask_linux.go:34).
WalkOnOptions ==
  maskPc = "walk" =>
    /\ at <= Len(packet) + 1
    /\ \/ at \in OptionStarts(packet)
       \/ \E j \in OptionStarts(packet) : j < at /\ packet[j].b1 >= 32

\* The length printed is a valid one of a global prefix that its source gave; no source
\* before it in the chain gave any, over all the advertisements that the listener heard;
\* and 128 is printed for want of a source only when none knew (ipv6_mask_linux.go:233-255).
MaskByPriority ==
  maskPc = "done" =>
    \/ /\ mask = [length |-> 128, by |-> "default"]
       /\ \A s \in Sources : offered[s] = {}
    \/ \E i \in DOMAIN Chain :
         /\ mask.by = Chain[i] /\ mask.length \in offered[Chain[i]]
         /\ \A j \in 1..(i - 1) : offered[Chain[j]] = {}
         /\ Chain[i] = "ip" => \A n \in offered["ip"] : mask.length <= n
==============================================================================
