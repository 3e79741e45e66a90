------------------------------ MODULE RemoteCall ------------------------------
(***************************************************************************)
(* What one run of the premonition command is to whoever starts it: its    *)
(* request is served at most once, possibly after the command has given    *)
(* up; an answer is printed only if it was served; and the answer may be   *)
(* lost.  ClientDelivery.tla implements this with a socket, frames and     *)
(* timeouts; the client processes of PanelReview.tla are such calls.       *)
(***************************************************************************)
EXTENDS Naturals

CONSTANT Calls

VARIABLES
    call,   \* what the caller sees of each call
    served  \* how often the service has handled each call

callVars == <<call, served>>

Init ==
    /\ call = [c \in Calls |-> "idle"]
    /\ served = [c \in Calls |-> 0]

Become(c, st) ==
    /\ call' = [call EXCEPT ![c] = st]
    /\ UNCHANGED served

Start(c) == call[c] = "idle" /\ Become(c, "waiting")

Serve(c) ==
    /\ call[c] \in {"waiting", "lost"}
    /\ served[c] = 0
    /\ served' = [served EXCEPT ![c] = 1]
    /\ UNCHANGED call

Return(c) == call[c] = "waiting" /\ served[c] = 1 /\ Become(c, "answered")

Lose(c) == call[c] = "waiting" /\ Become(c, "lost")

Next == \E c \in Calls : Start(c) \/ Serve(c) \/ Return(c) \/ Lose(c)

Spec == Init /\ [][Next]_callVars
=============================================================================
