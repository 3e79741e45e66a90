---------------------------- MODULE MCPanelReview -----------------------------
(***************************************************************************)
(* Two proposals: the panel can hold the body of the first while the       *)
(* service has the second.                                                 *)
(***************************************************************************)
EXTENDS PanelReview
=============================================================================
