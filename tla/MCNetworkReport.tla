--------------------------- MODULE MCNetworkReport ---------------------------
EXTENDS NetworkReport

Unit(b0, b1, b2, b7) == [b0 |-> b0, b1 |-> b1, b2 |-> b2, b7 |-> b7]

Pad == Unit(0, 0, 0, 0)
Documentation == Unit(32, 1, 13, 0)  \* 2001:db8::
LinkLocal == Unit(254, 128, 0, 0)
UniqueLocal == Unit(253, 0, 0, 0)
PrefixOption(length, prefix, last) == <<Unit(3, 4, length, 0), Pad, prefix, Unit(0, 0, 0, last)>>

\* The options an advertisement is made of: a link-layer address, prefixes of several
\* kinds, and one of 264 bytes that holds what looks like a prefix.
RAOptions ==
  {<<Unit(1, 1, 0, 0)>>,
   PrefixOption(48, Documentation, 0), PrefixOption(64, Documentation, 1),
   PrefixOption(0, Documentation, 0), PrefixOption(64, LinkLocal, 0),
   PrefixOption(64, UniqueLocal, 0), PrefixOption(128, Pad, 1),
   <<Unit(25, 33, 0, 0)>> \o PrefixOption(56, Documentation, 0) \o [i \in 1..28 |-> Pad]}

\* What may end an advertisement: an option of length 0 or one that is cut off.
Ends == {<<>>, <<Pad>>, <<Unit(3, 4, 64, 0), Pad, Documentation>>}

MCPackets ==
  {e : e \in Ends} \cup {a \o e : a \in RAOptions, e \in Ends}
  \cup {a \o b \o e : a \in RAOptions, b \in RAOptions, e \in Ends}
==============================================================================
