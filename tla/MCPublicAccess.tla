--------------------------- MODULE MCPublicAccess ---------------------------
(* PublicAccess for TLC: two probes of one family and one of the other. *)
EXTENDS PublicAccess

MCTags == <<"IPv4", "IPv4", "IPv6">>

=============================================================================
