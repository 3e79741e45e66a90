----------------------------- MODULE SecondDaemon -----------------------------
(***************************************************************************)
(* A second premonitiond on the same state directory, started by hand      *)
(* beside the one systemd keeps.  run (premonition-daemon/src/main.rs)     *)
(* creates its Service, and so recovers, before bind_owner_socket can find *)
(* that the socket belongs to somebody: there is no lock on the directory. *)
(*                                                                         *)
(* Both daemons are ApplyTransaction, over the same files and the same     *)
(* journal, each with a program counter of its own.  The second one never  *)
(* gets a connection, so it only recovers.                                 *)
(***************************************************************************)
EXTENDS ApplyTransaction

VARIABLES
    pc2, cur2, mode2, outcome2 \* the second daemon's pc, cur, mode, outcome

control2 == <<pc2, cur2, mode2, outcome2>>
bothVars == <<vars, control2>>

Rival == INSTANCE ApplyTransaction
    WITH pc <- pc2, cur <- cur2, mode <- mode2, outcome <- outcome2

BothInit ==
    /\ Init
    /\ pc2 = "down"
    /\ cur2 = 1
    /\ mode2 = "startup"
    /\ outcome2 = "none"

\* It is started at any time.
SecondStarts ==
    /\ Rival!Restart
    /\ UNCHANGED <<pc, cur, mode, outcome>>

\* Its recover, which knows nothing of the first daemon.
SecondRecovers ==
    /\ Rival!Recover \/ Rival!Cleanup
    /\ UNCHANGED <<pc, cur, mode, outcome>>

\* bind_owner_socket, whatever came of the recovery: the first daemon, once it is
\* through its own, answers on the socket, run returns an error and the process
\* is gone.
SecondFindsSocket ==
    /\ pc2 \in {"ready", "blocked"}
    /\ pc # "down" /\ (mode = "startup" => pc \in Resting)
    /\ pc2' = "done"
    /\ UNCHANGED <<vars, cur2, mode2, outcome2>>

\* The first daemon, its environment and its crashes, as they are alone.
FirstStep == Next /\ UNCHANGED control2

BothNext == FirstStep \/ SecondStarts \/ SecondRecovers \/ SecondFindsSocket

BothSpec == BothInit /\ [][BothNext]_bothVars

\* What the first daemon promises alone: whoever is told of success finds
\* every file published.  Neither an edit, a failure nor a crash is needed to
\* break it, only this second start during an Apply.
SuccessIsWhole == NoMixedSuccess
=============================================================================
