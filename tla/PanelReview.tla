----------------------------- MODULE PanelReview ------------------------------
(***************************************************************************)
(* The Omarchy panel (omarchy-plugin/PremonitionSurface.qml): a window, a  *)
(* full-screen review of one patch, and three client processes (status,    *)
(* show, action) whose answers arrive while the service goes on changing:  *)
(* other clients use it, its job ends, it restarts.                        *)
(*                                                                         *)
(* A client process is one message: Off, the request it carries, or the    *)
(* answer the panel has not read yet: a RemoteCall.  The service is        *)
(* PanelService.tla, which ProposalService.tla implements.                 *)
(***************************************************************************)
EXTENDS PanelService

VARIABLES
    state,      \* root.state
    proposalId, \* root.proposalId, 0 for ""
    patch,      \* root.patch, as the number of its proposal, 0 for ""
    window,     \* window.visible
    reviewOpen, \* root.reviewOpen, the visibility of the review window
    statusProcess,
    showProcess,
    actionProcess,
    shown       \* history: the proposals whose body has been fetched

view == <<state, proposalId, patch, window, reviewOpen, shown>>
processes == <<statusProcess, showProcess, actionProcess>>
vars == <<daemon, view, processes>>

Messages(kinds, states, ids) == [kind : kinds, state : states, id : ids]
Message(kind, st, id) == [kind |-> kind, state |-> st, id |-> id]
Plain(kind) == Message(kind, "", 0)
Off == Plain("off")
Failure == Plain("failure")
Actions == {"submit", "cancel", "apply", "dismiss", "copy"}
ActionAnswers == {"accepted", "cancelled", "applied", "dismissed", "copied", "failure"}

TypeOK ==
    /\ service \in Services
    /\ made \in Ids \cup {0}
    /\ state \in ServiceStates \cup {"applying", "runtime_missing"}
    /\ proposalId \in Ids \cup {0}
    /\ patch \in Ids \cup {0}
    /\ window \in BOOLEAN
    /\ reviewOpen \in BOOLEAN
    /\ shown \subseteq Ids
    /\ statusProcess \in {Off, Plain("status"), Failure}
                         \cup Messages({"answer"}, ServiceStates, Ids \cup {0})
    /\ showProcess \in {Off, Failure} \cup Messages({"show", "proposal"}, {""}, Ids)
    /\ actionProcess \in
           Messages({"off"} \cup Actions \cup ActionAnswers, {""}, Ids \cup {0})

Init ==
    /\ ServiceInit
    /\ state = "runtime_missing"
    /\ proposalId = 0
    /\ patch = 0
    /\ window = FALSE
    /\ reviewOpen = FALSE
    /\ statusProcess = Off
    /\ showProcess = Off
    /\ actionProcess = Off
    /\ shown = {}

-----------------------------------------------------------------------------
(* The service.                                                            *)

Answer(m, kind) == IF kind = "failure" THEN Failure ELSE Message(kind, "", m.id)

AnswerStatus ==
    /\ statusProcess.kind = "status"
    /\ service.up
    /\ statusProcess' = Message("answer", service.state, service.current)
    /\ UNCHANGED <<daemon, view, showProcess, actionProcess>>

\* The client has not got through, or one of its waits ran out: the service may be
\* up, and the panel is told that it is not.
LoseStatus ==
    /\ statusProcess.kind = "status"
    /\ statusProcess' = Failure
    /\ UNCHANGED <<daemon, view, showProcess, actionProcess>>

ServeStatus == AnswerStatus \/ LoseStatus

\* An answer can be lost after the service has done its part.
ServeShow ==
    /\ showProcess.kind = "show"
    /\ \E kind \in {"proposal", "failure"} :
         /\ Dispatch(showProcess, kind)
         /\ showProcess' \in {Answer(showProcess, kind), Failure}
    /\ UNCHANGED <<made, view, statusProcess, actionProcess>>

ServeAction ==
    /\ actionProcess.kind \in Actions
    /\ \E kind \in ActionAnswers :
         /\ Dispatch(actionProcess, kind)
         /\ actionProcess' \in {Answer(actionProcess, kind), Failure}
    /\ UNCHANGED <<made, view, statusProcess, showProcess>>

\* Any other client, the command line for one, or a call of the panel that is
\* served after it was given up.
OtherClient ==
    /\ \E m \in {Plain("submit"), Plain("cancel")}
               \cup Messages({"apply", "dismiss"}, {""}, 1..made) :
         \E kind \in ActionAnswers : Dispatch(m, kind)
    /\ UNCHANGED <<made, view, processes>>

\* The service goes on without its clients.
ServiceAlone ==
    /\ JobEnds \/ Stop \/ Start
    /\ UNCHANGED <<view, processes>>

Service == ServeStatus \/ ServeShow \/ ServeAction
Environment == OtherClient \/ ServiceAlone

-----------------------------------------------------------------------------
(* Answers.                                                                *)

\* refreshStatus.
Refresh == statusProcess' = IF statusProcess = Off THEN Plain("status") ELSE statusProcess

\* Mutant of StatusUsable: any answer is taken for a status.
AnyAnswer(m) == TRUE

StatusUsable(m) == m.kind = "answer"

\* acceptStatus; the exit code adds nothing to it.
AcceptStatus ==
    /\ statusProcess # Off
    /\ statusProcess.kind # "status"
    /\ IF StatusUsable(statusProcess)
       THEN /\ state' = statusProcess.state
            /\ proposalId' = statusProcess.id
            /\ IF statusProcess.state \in {"ready", "applying"}
               THEN UNCHANGED <<patch, reviewOpen>>
               ELSE patch' = 0 /\ reviewOpen' = FALSE
       ELSE state' = "runtime_missing" /\ UNCHANGED <<proposalId, patch, reviewOpen>>
    /\ statusProcess' = Off
    /\ UNCHANGED <<daemon, window, shown, showProcess, actionProcess>>

\* Mutant of ProposalUsable: a body is taken whichever proposal it is of.
AnyProposal(m) == m.kind = "proposal"

ProposalUsable(m) == m.kind = "proposal" /\ m.id = proposalId

\* acceptProposal.
AcceptProposal ==
    /\ showProcess # Off
    /\ showProcess.kind # "show"
    /\ IF ProposalUsable(showProcess)
       THEN /\ patch' = showProcess.id
            /\ reviewOpen' = TRUE
            /\ shown' = shown \cup {showProcess.id}
            /\ UNCHANGED statusProcess
       ELSE Refresh /\ UNCHANGED <<patch, reviewOpen, shown>>
    /\ showProcess' = Off
    /\ UNCHANGED <<daemon, state, proposalId, window, actionProcess>>

\* acceptAction.
AcceptAction ==
    /\ actionProcess.kind \in ActionAnswers
    /\ reviewOpen' = (reviewOpen /\ actionProcess.kind \notin {"applied", "dismissed"})
    /\ Refresh
    /\ actionProcess' = Off
    /\ UNCHANGED <<daemon, state, proposalId, patch, window, shown, showProcess>>

Accept == AcceptStatus \/ AcceptProposal \/ AcceptAction

-----------------------------------------------------------------------------
(* The user and the timer.                                                 *)

\* Mutant of TimerRuns: the timer stops with the window.
TimerOfWindow == window

TimerRuns == window \/ reviewOpen

Tick ==
    /\ TimerRuns
    /\ statusProcess = Off
    /\ Refresh
    /\ UNCHANGED <<daemon, view, showProcess, actionProcess>>

Open ==
    /\ window' = TRUE
    /\ Refresh
    /\ UNCHANGED <<daemon, state, proposalId, patch, reviewOpen, shown, showProcess,
                   actionProcess>>

Close ==
    /\ window' = FALSE
    /\ reviewOpen' = FALSE
    /\ UNCHANGED <<daemon, state, proposalId, patch, shown, processes>>

CloseReview ==
    /\ reviewOpen' = FALSE
    /\ UNCHANGED <<daemon, state, proposalId, patch, window, shown, processes>>

OpenReview ==
    /\ window
    /\ state = "ready"
    /\ proposalId # 0
    /\ showProcess = Off
    /\ showProcess' = Message("show", "", proposalId)
    /\ UNCHANGED <<daemon, view, statusProcess, actionProcess>>

\* The Apply button of the window, and that of the review.
ApplyEnabled ==
    /\ actionProcess = Off
    /\ proposalId # 0
    /\ state = "ready"
    /\ (window /\ patch # 0) \/ reviewOpen

\* Copy and Dismiss: in the review they do not depend on the state.
HandleEnabled ==
    /\ actionProcess = Off
    /\ proposalId # 0
    /\ (window /\ state = "ready") \/ reviewOpen

ProposalAction ==
    /\ \E k \in {"apply", "copy", "dismiss"} :
         /\ IF k = "apply" THEN ApplyEnabled ELSE HandleEnabled
         /\ actionProcess' = Message(k, "", proposalId)
    /\ UNCHANGED <<daemon, view, statusProcess, showProcess>>

\* The panel can also be opened with a request to submit, in any state.  It is sent
\* when the list of repositories arrives, which may be after the window is closed.
SubmitExplicit ==
    /\ actionProcess = Off
    /\ actionProcess' = Plain("submit")
    /\ UNCHANGED <<daemon, view, statusProcess, showProcess>>

CancelInvestigation ==
    /\ window
    /\ state = "working"
    /\ actionProcess = Off
    /\ actionProcess' = Plain("cancel")
    /\ UNCHANGED <<daemon, view, statusProcess, showProcess>>

User ==
    \/ Open \/ Close \/ CloseReview \/ OpenReview
    \/ ProposalAction \/ SubmitExplicit \/ CancelInvestigation

Next == Service \/ Environment \/ Accept \/ Tick \/ User

Spec == Init /\ [][Next]_vars

\* A client ends, answered or not (each of its waits is bounded, premonition-cli
\* main.rs:213-237), the panel reads what it printed, and the timer ticks.  No
\* answer is owed, and users and other clients owe nothing.
FairSpec ==
    /\ Spec
    /\ WF_vars(ServeStatus)
    /\ WF_vars(AcceptStatus)
    /\ WF_vars(Tick)

-----------------------------------------------------------------------------
\* Once the panel has learned that there is no proposal, no body it asked for
\* earlier comes back on the screen, however late it arrives; only a failed
\* status, which says nothing of the proposal, leaves a body behind.
GoneStaysGone == proposalId = 0 => patch = 0 /\ ~reviewOpen

\* BUILDLOG.md:94-95: "Apply remains disabled in the compact panel until that
\* proposal body has been fetched for review."
ApplyNeedsReview == ApplyEnabled => proposalId \in shown

\* If from some moment on something of the panel is visible, the service stays as it
\* is and, as long as it is up, no status call fails, then the panel comes to show
\* the service's state and proposal for good: what it was told before, a failure
\* or an older answer still under way included, is outlived.
Shows ==
    IF service.up THEN state = service.state /\ proposalId = service.current
    ELSE state = "runtime_missing"
FalseAlarm == LoseStatus /\ service.up
StatusCatchesUp ==
    /\ <>[](window \/ reviewOpen)
    /\ <>[][service' = service /\ ~FalseAlarm]_vars
    => <>[]Shows
=============================================================================
