--------------------------- MODULE MC_ApiClients ---------------------------
(* Two gRPC codes besides the unspecified one.                             *)
EXTENDS ApiClients

CONSTANTS cNotFound, cUnavailable, cUnspecified

MCCodes == {cNotFound, cUnavailable}
=============================================================================
