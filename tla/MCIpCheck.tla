----------------------------- MODULE MCIpCheck ------------------------------
(* IpCheck for TLC: the fields told apart and what services may know. *)
EXTENDS IpCheck

MCFields == {"ASN", "Org", "City"}
MCGeoFields == {"City"}

\* A service may know nothing, the place, the network, or everything.
MCKnowledge == {{}, {"City"}, {"ASN", "Org"}, {"ASN", "Org", "City"}}

=============================================================================
