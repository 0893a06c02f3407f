------------------------------ MODULE LexOrder -------------------------------
(***************************************************************************)
(* The lexicographic order on tuples of naturals of one length. It is       *)
(* well-founded: a system each of whose steps takes such a tuple down takes *)
(* finitely many steps.                                                     *)
(***************************************************************************)
EXTENDS Naturals

LexLess(a, b) == \E i \in DOMAIN b : a[i] < b[i] /\ \A j \in DOMAIN b : j < i => a[j] = b[j]

=============================================================================
