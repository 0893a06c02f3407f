--------------------------- MODULE MCAsnFallback ----------------------------
(* AsnFallback for TLC: the fields told apart, the records the function may  *)
(* be given (nil and every combination of known fields) and what the ASN     *)
(* services may know.                                                       *)
EXTENDS AsnFallback

MCFields == {"ASN", "Org", "City"}
MCGeoFields == {"City"}
MCInputs == {Supplied(1, known) : known \in SUBSET MCFields} \cup {Nil}
MCKnowledge == SUBSET {"ASN", "Org"}

=============================================================================
