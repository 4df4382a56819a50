------------------------- MODULE MC_MessageBuilders -------------------------
(* Three addresses, so that the source and destination of a send and the   *)
(* delegator and both validators of a redelegation can all differ, one     *)
(* denom and two amounts.                                                  *)
EXTENDS MessageBuilders

CONSTANTS addr1, addr2, addr3, inj, amt1, amt2

MCAddresses == {addr1, addr2, addr3}
MCDenoms == {inj}
MCAmounts == {amt1, amt2}
=============================================================================
