---------------------------- MODULE MCSecondDaemon ----------------------------
(***************************************************************************)
(* Two files: one added, one modified.                                     *)
(***************************************************************************)
EXTENDS SecondDaemon

MCKind == <<"modify", "add">>
MCCovered == {1, 2}
=============================================================================
