------------------------- MODULE MC_SignatureEngine -------------------------
(* Two keys and two documents.  The recovery id is 1 for k1 over d1's      *)
(* EIP-712 hash and 0 everywhere else, so both ids occur for one key and   *)
(* for one digest.                                                         *)
EXTENDS SignatureEngine, TLC

CONSTANTS k1, k2, d1, d2

MCKeys == {k1, k2}
MCDocs == {d1, d2}
MCRecId == [p \in MCKeys \X Digests |-> IF p = <<k1, TypedHash(d1)>> THEN 1 ELSE 0]
=============================================================================
