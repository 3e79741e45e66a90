--------------------------- MODULE MCChildProcesses ----------------------------
(***************************************************************************)
(* Limits small enough for every pipe to overflow.                         *)
(***************************************************************************)
EXTENDS ChildProcesses

MCLimit == [s \in Streams |-> IF s = "out" THEN 2 ELSE 1]
=============================================================================
