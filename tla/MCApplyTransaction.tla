-------------------------- MODULE MCApplyTransaction --------------------------
(***************************************************************************)
(* Three covered files, one of each kind, and an ignored one.              *)
(***************************************************************************)
EXTENDS ApplyTransaction

MCKind == <<"modify", "add", "delete", "modify">>
MCCovered == {1, 2, 3}
=============================================================================
