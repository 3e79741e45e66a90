---------------------------- MODULE MCAgentProcess ----------------------------
(***************************************************************************)
(* Limits small enough for both pipes to overflow.                         *)
(***************************************************************************)
EXTENDS AgentProcess

MCLimit == [s \in Streams |-> IF s = "out" THEN 2 ELSE 1]
=============================================================================
