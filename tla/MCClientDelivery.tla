--------------------------- MODULE MCClientDelivery ---------------------------
(***************************************************************************)
(* Two runs of the command, say a request and the retry of it, and a       *)
(* daemon that ends once.                                                  *)
(***************************************************************************)
EXTENDS ClientDelivery

CONSTANTS k1, k2

MCCalls == {k1, k2}
=============================================================================
