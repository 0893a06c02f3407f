------------------------------- MODULE IpInfo -------------------------------
(***************************************************************************)
(* The record an IP information service fills in (model.IpInfo), and the    *)
(* operators the lookup applies to it: merging two records and deciding     *)
(* whether the AS number must be asked for elsewhere.                       *)
(*                                                                         *)
(* A record is a function from field names to values. A value is Blank     *)
(* (Go's "") or the number of the service that supplied it: what is        *)
(* compared below is who supplied a field, never its characters.           *)
(***************************************************************************)
EXTENDS Naturals

CONSTANTS
  Fields,     \* the fields of model.IpInfo that are told apart
  GeoFields,  \* Country, Region and City, or those of them in Fields
  Nil         \* Go's nil *model.IpInfo

Blank == 0
IpInfos == [Fields -> Nat]
EmptyIpInfo == [x \in Fields |-> Blank]

ASSUME FieldsAssumption ==
  /\ GeoFields \subseteq Fields
  /\ {"ASN", "Org"} \subseteq Fields \ GeoFields

ASSUME NilAssumption == Nil \notin IpInfos

-----------------------------------------------------------------------------

\* The record service p answers with when it knows exactly the fields in known.
Supplied(p, known) == [x \in Fields |-> IF x \in known THEN p ELSE Blank]

chooseString(src, dst) == IF src # Blank THEN src ELSE dst

CompareAndMergeIpInfo(dst, src) == [x \in Fields |-> chooseString(src[x], dst[x])]

hasGeoInfo(info) == info # Nil /\ \E x \in GeoFields : info[x] # Blank

needsASNFallback(info) == hasGeoInfo(info) /\ info["ASN"] = Blank

\* A record whose missing AS number, and organisation if that is missing too, are
\* filled in: Blank fills in nothing.
FillASN(info, asn, org) ==
  [info EXCEPT !["ASN"] = chooseString(@, asn), !["Org"] = chooseString(@, org)]

-----------------------------------------------------------------------------
(***************************************************************************)
(* What the merge of several services' records, and the fallback for a      *)
(* missing AS number, promise their caller.                                *)
(***************************************************************************)

Knows(info, x) == info # Nil /\ info[x] # Blank

\* v is the value the last service of S that knows field x gave, or Blank when
\* none of them knows it. ans[p] is what service p answered.
IsLastKnown(v, ans, S, x) ==
  \/ /\ v = Blank
     /\ \A p \in S : ~Knows(ans[p], x)
  \/ \E p \in S :
       /\ Knows(ans[p], x)
       /\ v = ans[p][x]
       /\ \A q \in S : q > p => ~Knows(ans[q], x)

\* r is the merge of the answers of the services in S, in their order.
IsMergeOf(r, ans, S) ==
  /\ r = Nil <=> \A p \in S : ans[p] = Nil
  /\ r # Nil => \A x \in Fields : IsLastKnown(r[x], ans, S, x)

\* Some service placed the address, and none knew its AS number.
LacksASN(ans, S) ==
  /\ \E p \in S, x \in GeoFields : Knows(ans[p], x)
  /\ \A p \in S : ~Knows(ans[p], "ASN")

\* r is that merge, its AS number and organisation filled in from elsewhere or
\* not, when the AS number is missing and only where the merge left a blank.
IsFilledMergeOf(r, ans, S) ==
  /\ r = Nil <=> \A p \in S : ans[p] = Nil
  /\ r # Nil => \A x \in Fields :
       \/ IsLastKnown(r[x], ans, S, x)
       \/ /\ x \in {"ASN", "Org"}
          /\ LacksASN(ans, S)
          /\ IsLastKnown(Blank, ans, S, x)

=============================================================================
