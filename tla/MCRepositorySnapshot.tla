------------------------- MODULE MCRepositorySnapshot -------------------------
(***************************************************************************)
(* A tracked and an untracked file of two blocks, and an inode to spare.   *)
(***************************************************************************)
EXTENDS RepositorySnapshot, TLC

CONSTANTS n1, n2, n3, n4

MCInodes == {n1, n2, n3, n4}
Symmetry == Permutations(MCInodes)
=============================================================================
