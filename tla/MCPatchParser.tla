---------------------------- MODULE MCPatchParser -----------------------------
(***************************************************************************)
(* Three safe paths, so that a patch of two files can name a third.        *)
(***************************************************************************)
EXTENDS PatchParser, TLC

CONSTANTS p1, p2, p3

MCPaths == {p1, p2, p3}
Symmetry == Permutations(MCPaths)
=============================================================================
