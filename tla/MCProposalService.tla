-------------------------- MODULE MCProposalService ---------------------------
(***************************************************************************)
(* Small universes of requests from two connections: two Submits, an Apply *)
(* of each proposal, a Dismiss of the first, and a Cancel that reuses the  *)
(* identifier of a Submit; or one proposal and the requests that read.     *)
(***************************************************************************)
EXTENDS ProposalService, TLC

CONSTANTS c1, c2

MCClients == {c1, c2}
R(id, op, arg) == [id |-> id, op |-> op, arg |-> arg]
Changes ==
    {R(1, "submit", 0), R(2, "submit", 0), R(3, "apply", 1), R(4, "dismiss", 1),
     R(1, "cancel", 0), R(6, "apply", 2)}
\* One proposal, with the requests that only read.
OneProposal ==
    {R(1, "submit", 0), R(3, "apply", 1), R(4, "dismiss", 1), R(5, "cancel", 0),
     R(8, "status", 0), R(9, "show", 1), R(10, "invalid", 0)}
Symmetry == Permutations(MCClients)
=============================================================================
