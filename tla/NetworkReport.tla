---------------------------- MODULE NetworkReport ----------------------------
(***************************************************************************)
(* The command (cmd/main.go) from its arguments to its end, with the        *)
(* network report in detail: the connectivity check chooses which lookup is *)
(* made, NetworkCheck (network/network.go) turns each record into rows and  *)
(* asks how many addresses of the neighbourhood are active                  *)
(* (network/baseinfo/bgp.go) and how long the IPv6 prefix is. The check, the *)
(* lookup, the system information and the structured report appear by their *)
(* outcomes, PublicAccess, IpCheck, SystemInfo and SystemReport have them.  *)
(*                                                                         *)
(* The request that counts the program's uses runs in a goroutine of its    *)
(* own, which recovers and which nobody waits for; it is left out.          *)
(***************************************************************************)
EXTENDS Ipv6Mask

CONSTANTS
  Bits,   \* the numbers that the BGP services may give as a prefix length
  Pixels  \* the pixels of the picture of a neighbourhood

ASSUME ReportAssumption == Bits \subseteq Nat /\ Pixels \in Nat \ {0}

VARIABLES
  pc,
  output,   \* what the process prints
  stack,    \* the connectivity check's StackType
  record,   \* what the lookup returned for each family
  network,  \* the prefix of the IPv4 address, -1 when nobody names it
  active,   \* the counts of the subnet and of that prefix
  rows      \* what the last step added to the text

vars == <<maskVars, pc, output, stack, record, network, active, rows>>
lookupVars == <<stack, record>>
activeVars == <<network, active>>

Families == {"ipv4", "ipv6"}

\* What is known of an address; "place" is its city, region or country.
Facts == {"ip", "asn", "org", "place"}
NoRecord == {"nil"}
Records == {NoRecord} \cup SUBSET Facts

\* An answer without a count stands for an error of the service.
NoCount == [active |-> 0, total |-> 0]
NoCounts == [subnet |-> NoCount, prefix |-> NoCount]

Init ==
  /\ MaskInit
  /\ pc = "start" /\ output = "none" /\ stack = "none"
  /\ record = [f \in Families |-> NoRecord]
  /\ network = -1 /\ active = NoCounts
  /\ rows = {}

-----------------------------------------------------------------------------
(***************************************************************************)
(* The command line.                                                        *)
(***************************************************************************)

Options ==
  [wellFormed : BOOLEAN, help : BOOLEAN, version : BOOLEAN, json : BOOLEAN, text : BOOLEAN,
   language : {"none", "en", "zh", "other"}, timeout : {"unset", "negative", "some"}]

\* parseCLI.
Accepted(o) ==
  /\ o.wellFormed /\ o.language # "other"
  /\ o.timeout # "negative"
  /\ ~(o.json /\ o.text)
  /\ o.timeout # "unset" => o.json \/ o.text

Mode(o) ==
  IF ~Accepted(o) THEN "refusal" ELSE IF o.help THEN "help" ELSE IF o.version THEN "version"
  ELSE IF o.text THEN "structured text" ELSE IF o.json THEN "json" ELSE "traditional"

ParseCLI ==
  /\ pc = "start"
  /\ \E o \in Options : output' = Mode(o)
  /\ pc' = IF output' = "traditional" THEN "precheck" ELSE "exit"
  /\ UNCHANGED <<maskVars, lookupVars, activeVars, rows>>

\* The families that the stack lets be looked up.
Asked(s) ==
  CASE s = "DualStack" -> Families
    [] s = "IPv4" -> {"ipv4"}
    [] s = "IPv6" -> {"ipv6"}
    [] OTHER -> {}

PreCheck ==
  /\ pc = "precheck"
  /\ stack' \in {"DualStack", "IPv4", "IPv6", "None"}
  /\ pc' = IF Asked(stack') = {} THEN "system" ELSE "lookup"
  /\ UNCHANGED <<maskVars, output, record, activeVars, rows>>

-----------------------------------------------------------------------------
(***************************************************************************)
(* NetworkCheck.                                                            *)
(***************************************************************************)

RunIpCheck ==
  /\ pc = "lookup"
  /\ \E r \in [Asked(stack) -> Records] :
       record' = [f \in Families |-> IF f \in DOMAIN r THEN r[f] ELSE NoRecord]
  /\ pc' = "ipv4"
  /\ UNCHANGED <<maskVars, output, stack, activeVars, rows>>

RowsOf(f) ==
  (IF record[f] \cap {"asn", "org"} # {} THEN {<<f, "ASN">>} ELSE {})
  \cup (IF "place" \in record[f] THEN {<<f, "Location">>} ELSE {})

\* processPrintIPInfo up to the questions it asks; without an address there are none.
\* The record is not read again, nor are the counts of the family before.
PrintIPInfo(f) ==
  /\ pc = f
  /\ rows' = RowsOf(f)
  /\ pc' = IF "ip" \in record[f] THEN IF f = "ipv4" THEN "subnet" ELSE "mask"
           ELSE IF f = "ipv4" THEN "ipv6" ELSE "system"
  /\ record' = [record EXCEPT ![f] = NoRecord]
  /\ network' = -1 /\ active' = NoCounts
  /\ UNCHANGED <<maskVars, output, stack>>

\* countActiveIPs: the share of coloured pixels of all addresses.
Share(coloured, total) == (coloured * total) \div Pixels

\* GetActiveIpsCount of a network of so many bits; -1 is refused.
Counts(bits) ==
  {NoCount} \cup
  (IF bits \in 0..32
   THEN {[active |-> Share(c, 2 ^ (32 - bits)), total |-> 2 ^ (32 - bits)] : c \in 0..Pixels}
   ELSE {})

CountSubnet ==
  /\ pc = "subnet"
  /\ \E c \in Counts(24) : active' = [active EXCEPT !.subnet = c]
  /\ pc' = "he"
  /\ UNCHANGED <<maskVars, output, lookupVars, network, rows>>

\* What parseCIDR lets through of a service's page.
ParsedBits == {b \in Bits : b <= 32}

\* HE answers with a prefix, which is taken for good, a length of 0 for none; BGP Tools
\* is asked when HE has no answer.
AskHE ==
  /\ pc = "he"
  /\ \/ \E b \in ParsedBits : network' = (IF b > 0 THEN b ELSE -1) /\ pc' = "prefix"
     \/ pc' = "bgp tools" /\ UNCHANGED network
  /\ UNCHANGED <<maskVars, output, lookupVars, active, rows>>

AskBGPTools ==
  /\ pc = "bgp tools"
  /\ \E b \in ParsedBits \cup {0} : network' = IF b > 0 THEN b ELSE -1
  /\ pc' = "prefix"
  /\ UNCHANGED <<maskVars, output, lookupVars, active, rows>>

CountPrefix ==
  /\ pc = "prefix"
  /\ \E c \in Counts(network) : active' = [active EXCEPT !.prefix = c]
  /\ pc' = "active row"
  /\ UNCHANGED <<maskVars, output, lookupVars, network, rows>>

Counted(c) == c.active > 0 /\ c.total > 0

BugActiveRow ==
  (IF active.subnet.total > 0 \/ active.prefix.total > 0 THEN {<<"ipv4", "Active IPs">>} ELSE {})
  \cup (IF Counted(active.subnet) THEN {<<"subnet", 24, active.subnet>>} ELSE {})
  \cup (IF Counted(active.prefix) /\ network # 24 THEN {<<"prefix", network, active.prefix>>} ELSE {})

\* The row and its two parts.
ActiveRow ==
  (IF Counted(active.subnet) \/ Counted(active.prefix) THEN {<<"ipv4", "Active IPs">>} ELSE {})
  \cup (IF Counted(active.subnet) THEN {<<"subnet", 24, active.subnet>>} ELSE {})
  \cup (IF Counted(active.prefix) /\ network # 24 THEN {<<"prefix", network, active.prefix>>} ELSE {})

PrintActive ==
  /\ pc = "active row"
  /\ rows' = ActiveRow
  /\ pc' = "ipv6"
  /\ UNCHANGED <<maskVars, output, lookupVars, activeVars>>

GetIPv6Mask ==
  /\ pc = "mask"
  /\ MaskNext
  /\ UNCHANGED <<pc, output, lookupVars, activeVars, rows>>

PrintMask ==
  /\ pc = "mask" /\ maskPc \in {"done", "failed"}
  /\ rows' = (IF maskPc = "done" THEN {<<"ipv6", "Mask">>} ELSE {})
  /\ pc' = "system"
  /\ UNCHANGED <<maskVars, output, lookupVars, activeVars>>

\* CheckSystemInfo, and the printing of everything; a user has to close the window on
\* Windows and macOS.
SystemInfo ==
  /\ pc = "system"
  /\ pc' = IF os \in {"windows", "darwin"} THEN "enter" ELSE "exit"
  /\ UNCHANGED <<maskVars, output, lookupVars, activeVars, rows>>

Enter ==
  /\ pc = "enter"
  /\ pc' = "exit"
  /\ UNCHANGED <<maskVars, output, lookupVars, activeVars, rows>>

Next ==
  \/ ParseCLI \/ PreCheck \/ RunIpCheck
  \/ \E f \in Families : PrintIPInfo(f)
  \/ CountSubnet \/ AskHE \/ AskBGPTools \/ CountPrefix \/ PrintActive
  \/ GetIPv6Mask \/ PrintMask \/ SystemInfo \/ Enter

Spec == Init /\ [][Next]_vars

-----------------------------------------------------------------------------
(***************************************************************************)
(* Properties.                                                              *)
(***************************************************************************)

\* The row of active addresses has no more of them than the network has, never a prefix
\* that is the subnet again, and something behind its colon: it is bare only when the
\* prefix is the subnet itself and the two queries about it disagreed, the first one
\* giving nothing and its repetition a count (network.go:90-104).
ActiveRowHonest ==
  LET parts == {r \in rows : r[1] \in {"subnet", "prefix"}} IN
    /\ \A p \in parts : /\ p[3].active \in 1..p[3].total
                        /\ p[1] = "prefix" => p[2] # 24
    /\ <<"ipv4", "Active IPs">> \in rows <=>
         \/ parts # {}
         \/ network = 24 /\ ~Counted(active.subnet) /\ Counted(active.prefix) /\ pc = "ipv6"
==============================================================================
