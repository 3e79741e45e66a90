-------------------------- MODULE PanelReview_proofs ---------------------------
(***************************************************************************)
(* For any number of proposals, whatever answers the panel reads, in       *)
(* whatever order and however late: GoneStaysGone, and how far the button  *)
(* that applies a proposal can be from the body that was fetched.          *)
(***************************************************************************)
EXTENDS PanelReview, TLAPS

USE BoundAssumption

-----------------------------------------------------------------------------
(* The service.                                                            *)

\* It is ready only with a proposal.
ServiceOK ==
    /\ service \in Services
    /\ made \in Ids \cup {0}
    /\ service.state = "ready" => service.current # 0

LEMMA FreshIsOK ==
    ASSUME NEW s \in Fresh
    PROVE  s \in Services /\ s.state # "ready"
<1>1. PICK st \in {"idle", "error", "recovery_required"} : s = At(TRUE, st) BY DEF Fresh
<1> QED BY <1>1 DEF At, Services, ServiceStates

LEMMA StoppedIsOK == At(FALSE, "idle") \in Services /\ At(FALSE, "idle").state # "ready"
BY DEF At, Services, ServiceStates

LEMMA BecomeIsOK ==
    ASSUME service \in Services,
           NEW st \in ServiceStates, NEW job \in BOOLEAN, NEW id \in Ids \cup {0},
           st = "ready" => id # 0, Become(st, job, id)
    PROVE  service' \in Services /\ (service'.state = "ready" => service'.current # 0)
BY DEF Become, Services

LEMMA RestIsOK ==
    ASSUME service \in Services, Rest
    PROVE  service' \in Services /\ (service'.state = "ready" => service'.current # 0)
<1>1. PICK st \in {"idle", "error"} : Become(st, FALSE, 0) BY DEF Rest
<1> QED BY <1>1, BecomeIsOK DEF ServiceStates

LEMMA DispatchIsOK ==
    ASSUME ServiceOK, NEW m, NEW kind, Dispatch(m, kind), UNCHANGED made,
           m.kind \in Actions \cup {"show"}
    PROVE  ServiceOK'
<1> USE DEF ServiceOK
<1>1. CASE UNCHANGED service BY <1>1
<1>2. CASE Rest BY <1>2, RestIsOK
<1>3. CASE Become("working", TRUE, 0) BY <1>3, BecomeIsOK DEF ServiceStates
<1>4. CASE \E st \in {"error", "recovery_required"} : Become(st, FALSE, 0)
  BY <1>4, BecomeIsOK DEF ServiceStates
<1>5. CASE Become(service.state, FALSE, service.current)
  <2>1. service.state \in ServiceStates /\ service.current \in Ids \cup {0}
    BY DEF Services
  <2> QED BY <1>5, <2>1, BecomeIsOK
<1>6. ASSUME Submit(m, kind) PROVE ServiceOK' BY <1>1, <1>3, <1>6 DEF Submit
<1>7. ASSUME Body(m, kind) PROVE ServiceOK' BY <1>1, <1>7 DEF Body
<1>8. ASSUME Apply(m, kind) PROVE ServiceOK' BY <1>1, <1>2, <1>4, <1>8 DEF Apply
<1>9. ASSUME Dismiss(m, kind) PROVE ServiceOK' BY <1>1, <1>2, <1>5, <1>9 DEF Dismiss
<1>10. ASSUME Cancel(kind) PROVE ServiceOK' BY <1>1, <1>10 DEF Cancel
<1>11. CASE ~service.up \/ service.state = "recovery_required"
  BY <1>1, <1>11 DEF Dispatch
<1>12. CASE ~(~service.up \/ service.state = "recovery_required")
  <2>1. CASE m.kind = "submit" BY <1>6, <1>12, <2>1 DEF Dispatch
  <2>2. CASE m.kind \in {"show", "copy"} BY <1>7, <1>12, <2>2 DEF Dispatch
  <2>3. CASE m.kind = "apply" BY <1>8, <1>12, <2>3 DEF Dispatch
  <2>4. CASE m.kind = "dismiss" BY <1>9, <1>12, <2>4 DEF Dispatch
  <2>5. CASE m.kind = "cancel" BY <1>10, <1>12, <2>5 DEF Dispatch
  <2> QED BY <2>1, <2>2, <2>3, <2>4, <2>5 DEF Actions
<1> QED BY <1>11, <1>12

LEMMA JobEndsOK == ASSUME ServiceOK, JobEnds PROVE ServiceOK'
<1>1. CASE Rest /\ UNCHANGED made BY <1>1, RestIsOK DEF ServiceOK
<1>2. CASE made < MaxProposals /\ made' = made + 1 /\ Become("ready", FALSE, made + 1)
  <2>1. made + 1 \in Ids BY <1>2 DEF ServiceOK, Ids
  <2>2. made + 1 # 0 BY <2>1 DEF Ids
  <2> QED BY <1>2, <2>1, <2>2, BecomeIsOK DEF ServiceOK, ServiceStates
<1> QED BY <1>1, <1>2 DEF JobEnds

LEMMA ServiceAloneOK == ASSUME ServiceOK, JobEnds \/ Stop \/ Start PROVE ServiceOK'
<1>1. CASE JobEnds BY <1>1, JobEndsOK
<1>2. CASE Stop BY <1>2, StoppedIsOK DEF Stop, ServiceOK
<1>3. CASE Start BY <1>3, FreshIsOK DEF Start, ServiceOK
<1> QED BY <1>1, <1>2, <1>3

-----------------------------------------------------------------------------
(* The three processes.                                                    *)

Statuses ==
    {Off, Plain("status"), Failure} \cup Messages({"answer"}, ServiceStates, Ids \cup {0})
Bodies == {Off, Failure} \cup Messages({"show", "proposal"}, {""}, Ids)
ActionMessages ==
    Messages({"off"} \cup Actions \cup ActionAnswers, {""}, Ids \cup {0})

PanelOK ==
    /\ state \in ServiceStates \cup {"applying", "runtime_missing"}
    /\ proposalId \in Ids \cup {0}
    /\ patch \in Ids \cup {0}
    /\ window \in BOOLEAN
    /\ reviewOpen \in BOOLEAN
    /\ shown \subseteq Ids
    /\ GoneStaysGone

\* So is what a status says.
StatusOK ==
    /\ statusProcess \in Statuses
    /\ statusProcess.kind = "answer" /\ statusProcess.state = "ready" =>
           statusProcess.id # 0
ShowOK == showProcess \in Bodies
ActionOK == actionProcess \in ActionMessages

IInv == ServiceOK /\ PanelOK /\ StatusOK /\ ShowOK /\ ActionOK

LEMMA IInvSuffices == IInv => TypeOK /\ GoneStaysGone
BY DEF IInv, TypeOK, ServiceOK, PanelOK, StatusOK, ShowOK, ActionOK, Statuses, Bodies,
       ActionMessages

LEMMA Fields ==
    /\ \A k, st, id : Message(k, st, id).kind = k
    /\ \A k, st, id : Message(k, st, id).state = st
    /\ \A k, st, id : Message(k, st, id).id = id
    /\ \A ks, sts, ids : \A k \in ks, st \in sts, id \in ids :
           Message(k, st, id) \in Messages(ks, sts, ids)
    /\ \A ks, sts, ids : \A m \in Messages(ks, sts, ids) :
           m.kind \in ks /\ m.state \in sts /\ m.id \in ids
    /\ \A k : Plain(k) = Message(k, "", 0)
    /\ Off = Message("off", "", 0)
    /\ Failure = Message("failure", "", 0)
BY DEF Message, Messages, Off, Failure, Plain

LEMMA RefreshIsOK == ASSUME StatusOK, Refresh PROVE StatusOK'
BY DEF StatusOK, Refresh, Statuses, Message, Messages, Plain, Off, Failure

LEMMA AnswerFields ==
    ASSUME StatusOK, statusProcess.kind = "answer"
    PROVE  statusProcess.state \in ServiceStates /\ statusProcess.id \in Ids \cup {0}
<1>1. statusProcess \notin {Off, Plain("status"), Failure} BY Fields
<1>2. statusProcess \in Messages({"answer"}, ServiceStates, Ids \cup {0})
  BY <1>1 DEF StatusOK, Statuses
<1> QED BY <1>2, Fields

LEMMA ShowFields ==
    ASSUME ShowOK, showProcess.kind \in {"show", "proposal"}
    PROVE  showProcess.id \in Ids
BY Fields DEF ShowOK, Bodies

LEMMA ActionFields ==
    ASSUME ActionOK
    PROVE  actionProcess.id \in Ids \cup {0}
BY Fields DEF ActionOK, ActionMessages

LEMMA AnswerIsOK ==
    ASSUME NEW m, m.id \in Ids \cup {0}, NEW kind \in ActionAnswers
    PROVE  Answer(m, kind) \in ActionMessages /\ Failure \in ActionMessages
<1>2. Failure \in ActionMessages BY Fields DEF ActionMessages, ActionAnswers
<1>3. Message(kind, "", m.id) \in ActionMessages BY Fields DEF ActionMessages
<1> QED BY <1>2, <1>3 DEF Answer

LEMMA OthersAct ==
    ASSUME NEW m \in {Plain("submit"), Plain("cancel")}
                    \cup Messages({"apply", "dismiss"}, {""}, 1..made)
    PROVE  m.kind \in Actions
<1>1. CASE m \in {Plain("submit"), Plain("cancel")}
  <2>1. Plain("submit").kind = "submit" /\ Plain("cancel").kind = "cancel"
    BY DEF Plain, Message
  <2> QED BY <1>1, <2>1 DEF Actions
<1>2. CASE m \in Messages({"apply", "dismiss"}, {""}, 1..made)
  BY <1>2 DEF Actions, Messages
<1> QED BY <1>1, <1>2

LEMMA OffIsOK ==
    Off \in Statuses /\ Off.kind # "answer" /\ Off \in Bodies /\ Off \in ActionMessages
BY Fields DEF Statuses, Bodies, ActionMessages

-----------------------------------------------------------------------------
LEMMA InitIInv == Init => IInv
<1> SUFFICES ASSUME Init PROVE ServiceOK /\ PanelOK /\ StatusOK /\ ShowOK /\ ActionOK
  BY DEF IInv
<1>1. ServiceOK
  <2>1. PICK st \in {"idle", "error"} : service = At(TRUE, st) BY DEF Init, ServiceInit
  <2> QED BY <2>1 DEF Init, ServiceInit, ServiceOK, At, Services, ServiceStates
<1>2. PanelOK BY DEF Init, PanelOK, GoneStaysGone
<1>3. StatusOK /\ ShowOK /\ ActionOK BY OffIsOK DEF Init, StatusOK, ShowOK, ActionOK
<1> QED BY <1>1, <1>2, <1>3

LEMMA StepIInv == IInv /\ [Next]_vars => IInv'
<1> SUFFICES ASSUME ServiceOK, PanelOK, StatusOK, ShowOK, ActionOK, [Next]_vars
             PROVE  (ServiceOK /\ PanelOK /\ StatusOK /\ ShowOK /\ ActionOK)'
  BY DEF IInv
<1>s. UNCHANGED daemon => ServiceOK' BY DEF ServiceOK, daemon
<1>v. UNCHANGED view /\ UNCHANGED patch => PanelOK'
  BY DEF PanelOK, view, GoneStaysGone
<1>p. /\ UNCHANGED statusProcess => StatusOK'
      /\ UNCHANGED showProcess => ShowOK'
      /\ UNCHANGED actionProcess => ActionOK'
  BY DEF StatusOK, ShowOK, ActionOK
<1>r. Refresh => StatusOK' BY RefreshIsOK
<1>1. CASE ServeStatus
  <2>1. ServiceOK' /\ PanelOK' /\ ShowOK' /\ ActionOK'
    BY <1>1, <1>s, <1>v, <1>p DEF ServeStatus, AnswerStatus, LoseStatus, view
  <2>2. CASE AnswerStatus
    <3>1. statusProcess' = Message("answer", service.state, service.current)
      BY <2>2 DEF AnswerStatus
    <3>2. service.state \in ServiceStates /\ service.current \in Ids \cup {0}
      BY DEF ServiceOK, Services
    <3> QED BY <2>1, <3>1, <3>2 DEF StatusOK, Statuses, ServiceOK, Message, Messages, Plain, Off, Failure
  <2>3. CASE LoseStatus
    BY <2>1, <2>3 DEF LoseStatus, StatusOK, Statuses, Message, Messages, Plain, Off, Failure
  <2> QED BY <1>1, <2>2, <2>3 DEF ServeStatus
<1>2. CASE ServeShow
  <2>1. PICK kind \in {"proposal", "failure"} :
            /\ Dispatch(showProcess, kind)
            /\ showProcess' \in {Answer(showProcess, kind), Failure}
    BY <1>2 DEF ServeShow
  <2>2. ServiceOK' BY <1>2, <2>1, DispatchIsOK DEF ServeShow
  <2>3. showProcess.id \in Ids BY <1>2, ShowFields DEF ServeShow
  <2>4. showProcess' = Failure => ShowOK' BY DEF ShowOK, Bodies
  <2>5. ASSUME showProcess' = Message("proposal", "", showProcess.id) PROVE ShowOK'
    <3>1. showProcess' \in Messages({"show", "proposal"}, {""}, Ids)
      BY <2>3, <2>5, Fields
    <3> QED BY <3>1 DEF ShowOK, Bodies
  <2>6. ShowOK' BY <2>1, <2>4, <2>5 DEF Answer
  <2> QED BY <1>2, <1>v, <1>p, <2>2, <2>6 DEF ServeShow, view
<1>3. CASE ServeAction
  <2>1. PICK kind \in ActionAnswers :
            /\ Dispatch(actionProcess, kind)
            /\ actionProcess' \in {Answer(actionProcess, kind), Failure}
    BY <1>3 DEF ServeAction
  <2>2. ServiceOK' BY <1>3, <2>1, DispatchIsOK DEF ServeAction
  <2>3. ActionOK' BY <2>1, ActionFields, AnswerIsOK DEF ActionOK
  <2> QED BY <1>3, <1>v, <1>p, <2>2, <2>3 DEF ServeAction, view
<1>4. CASE OtherClient
  <2>1. PICK m \in {Plain("submit"), Plain("cancel")}
               \cup Messages({"apply", "dismiss"}, {""}, 1..made) :
            \E kind \in ActionAnswers : Dispatch(m, kind)
    BY <1>4 DEF OtherClient
  <2>2. m.kind \in Actions BY <2>1, OthersAct
  <2>3. ServiceOK' BY <1>4, <2>1, <2>2, DispatchIsOK DEF OtherClient
  <2> QED BY <1>4, <1>v, <1>p, <2>3 DEF OtherClient, processes, view
<1>5. CASE ServiceAlone
  BY <1>5, <1>v, <1>p, ServiceAloneOK DEF ServiceAlone, processes, view
<1>6. CASE AcceptStatus
  <2>1. StatusOK' BY <1>6, OffIsOK DEF AcceptStatus, StatusOK
  <2>2. CASE StatusUsable(statusProcess)
    <3>1. statusProcess.state \in ServiceStates /\ statusProcess.id \in Ids \cup {0}
      BY <2>2, AnswerFields DEF StatusUsable
    <3>2. statusProcess.state = "ready" => statusProcess.id # 0
      BY <2>2 DEF StatusUsable, StatusOK
    <3>3. statusProcess.state # "applying" BY <3>1 DEF ServiceStates
    <3>4. PanelOK'
      BY <1>6, <2>2, <3>1, <3>2, <3>3 DEF AcceptStatus, PanelOK, GoneStaysGone
    <3> QED BY <1>6, <1>s, <1>p, <2>1, <3>4 DEF AcceptStatus
  <2>3. CASE ~StatusUsable(statusProcess)
    BY <1>6, <1>s, <1>p, <2>1, <2>3 DEF AcceptStatus, PanelOK, GoneStaysGone
  <2> QED BY <2>2, <2>3
<1>7. CASE AcceptProposal
  <2>1. ShowOK' BY <1>7, OffIsOK DEF AcceptProposal, ShowOK
  <2>2. CASE ProposalUsable(showProcess)
    <3>1. showProcess.id \in Ids /\ showProcess.id = proposalId
      BY <2>2, ShowFields DEF ProposalUsable
    <3>2. showProcess.id # 0 BY <3>1 DEF Ids
    <3>3. PanelOK' BY <1>7, <2>2, <3>1, <3>2 DEF AcceptProposal, PanelOK, GoneStaysGone
    <3> QED BY <1>7, <1>s, <1>p, <2>1, <2>2, <3>3 DEF AcceptProposal
  <2>3. CASE ~ProposalUsable(showProcess)
    BY <1>7, <1>s, <1>p, <1>r, <2>1, <2>3 DEF AcceptProposal, PanelOK, GoneStaysGone
  <2> QED BY <2>2, <2>3
<1>8. CASE AcceptAction
  BY <1>8, <1>s, <1>p, <1>r, OffIsOK
     DEF AcceptAction, ActionOK, PanelOK, GoneStaysGone
<1>9. CASE Tick BY <1>9, <1>s, <1>v, <1>p, <1>r DEF Tick, view
<1>10. CASE Open
  BY <1>10, <1>s, <1>p, <1>r DEF Open, PanelOK, GoneStaysGone
<1>11. CASE Close \/ CloseReview
  BY <1>11, <1>s, <1>p DEF Close, CloseReview, processes, PanelOK, GoneStaysGone
<1>12. CASE OpenReview
  <2>1. ShowOK' BY <1>12, Fields DEF OpenReview, ShowOK, Bodies, PanelOK
  <2> QED BY <1>12, <1>s, <1>v, <1>p, <2>1 DEF OpenReview, view
<1>13. CASE ProposalAction \/ SubmitExplicit \/ CancelInvestigation
  <2>1. PICK k \in Actions, id \in Ids \cup {0} : actionProcess' = Message(k, "", id)
    <3>1. CASE ProposalAction BY <1>13, <3>1 DEF ProposalAction, Actions, PanelOK
    <3>2. CASE SubmitExplicit BY <1>13, <3>2, Fields DEF SubmitExplicit, Actions
    <3>3. CASE CancelInvestigation BY <1>13, <3>3, Fields DEF CancelInvestigation, Actions
    <3> QED BY <1>13, <3>1, <3>2, <3>3
  <2>2. ActionOK' BY <2>1, Fields DEF ActionOK, ActionMessages
  <2> QED
    BY <1>13, <1>s, <1>v, <1>p, <2>2
    DEF ProposalAction, SubmitExplicit, CancelInvestigation, view
<1>14. CASE UNCHANGED vars
  BY <1>14, <1>s, <1>v, <1>p DEF vars, view, processes
<1> QED
  BY <1>1, <1>2, <1>3, <1>4, <1>5, <1>6, <1>7, <1>8, <1>9, <1>10, <1>11, <1>12, <1>13, <1>14
  DEF Next, Service, Environment, Accept, User

\* Every variable of the panel and its processes keeps its type.
THEOREM TypeCorrect == Spec => []TypeOK
BY IInvSuffices, InitIInv, StepIInv, PTL DEF Spec

\* A panel that knows of no proposal shows none, whatever answers come late.
THEOREM NothingComesBack == Spec => []GoneStaysGone
BY IInvSuffices, InitIInv, StepIInv, PTL DEF Spec

-----------------------------------------------------------------------------
(* What is left of ApplyNeedsReview, which the code does not keep.         *)

\* Proposals are numbered upwards and the daemon has the last one or none; the panel
\* learns of them in that order, as it has one status process; and a body on the
\* screen was fetched, and is not of a later proposal than the panel knows.
BodyInv ==
    /\ service.current \in {0, made}
    /\ proposalId <= made
    /\ statusProcess.kind = "answer" => statusProcess.id \in {0} \cup (proposalId..made)
    /\ patch # 0 => patch \in shown /\ patch <= proposalId
    /\ reviewOpen => patch # 0

\* Apply is never enabled without a fetched body, and the body is the proposal's own
\* unless that proposal was replaced by a later one: the way in which the run
\* panel_review breaks ApplyNeedsReview is the only one.
ReviewedUnlessReplaced ==
    ApplyEnabled =>
        /\ patch \in shown
        /\ proposalId = patch \/ proposalId \in (patch + 1)..made

LEMMA BecomeKeepsLatest ==
    ASSUME service \in Services, NEW st, NEW job, NEW id, Become(st, job, id)
    PROVE  service'.current = id
BY DEF Become

LEMMA DispatchKeepsLatest ==
    ASSUME ServiceOK, NEW m, NEW kind, Dispatch(m, kind), m.kind \in Actions \cup {"show"}
    PROVE  service'.current \in {0, service.current}
<1> USE DEF ServiceOK
<1>1. CASE UNCHANGED service BY <1>1
<1>2. CASE Rest BY <1>2, BecomeKeepsLatest DEF Rest
<1>3. CASE \E st, job : Become(st, job, 0) BY <1>3, BecomeKeepsLatest
<1>4. CASE Become(service.state, FALSE, service.current) BY <1>4, BecomeKeepsLatest
<1>5. CASE ~service.up \/ service.state = "recovery_required"
  BY <1>1, <1>5 DEF Dispatch
<1>6. CASE ~(~service.up \/ service.state = "recovery_required")
  <2>1. CASE m.kind = "submit" BY <1>1, <1>3, <1>6, <2>1 DEF Dispatch, Submit
  <2>2. CASE m.kind \in {"show", "copy"} BY <1>1, <1>6, <2>2 DEF Dispatch, Body
  <2>3. CASE m.kind = "apply" BY <1>1, <1>2, <1>3, <1>6, <2>3 DEF Dispatch, Apply
  <2>4. CASE m.kind = "dismiss"
    BY <1>1, <1>2, <1>4, <1>6, <2>4 DEF Dispatch, Dismiss
  <2>5. CASE m.kind = "cancel" BY <1>1, <1>6, <2>5 DEF Dispatch, Cancel
  <2> QED BY <2>1, <2>2, <2>3, <2>4, <2>5 DEF Actions
<1> QED BY <1>5, <1>6

LEMMA AloneKeepsLatest ==
    ASSUME ServiceOK, service.current \in {0, made}, JobEnds \/ Stop \/ Start
    PROVE  made' \in {made, made + 1} /\ service'.current \in {0, made'}
<1> USE DEF ServiceOK
<1>1. CASE Rest /\ UNCHANGED made BY <1>1, BecomeKeepsLatest DEF Rest
<1>2. CASE made' = made + 1 /\ Become("ready", FALSE, made + 1)
  BY <1>2, BecomeKeepsLatest
<1>3. CASE Stop BY <1>3 DEF Stop, At
<1>4. CASE Start
  <2>1. PICK st \in {"idle", "error", "recovery_required"} : service' = At(TRUE, st)
    BY <1>4 DEF Start, Fresh
  <2> QED BY <1>4, <2>1 DEF Start, At
<1> QED BY <1>1, <1>2, <1>3, <1>4 DEF JobEnds

\* The daemon's steps keep what the panel has in order.
LEMMA DaemonKeepsBody ==
    ASSUME IInv, BodyInv, service'.current \in {0, made'}, made' \in {made, made + 1},
           UNCHANGED <<proposalId, patch, shown, reviewOpen>>,
           statusProcess' = statusProcess \/ statusProcess'.kind # "answer"
    PROVE  BodyInv'
<1>1. made \in Nat /\ proposalId \in Nat
  BY BoundAssumption DEF IInv, ServiceOK, PanelOK, Ids
<1> QED BY <1>1 DEF BodyInv

LEMMA RefreshAnswersNothing ==
    ASSUME Refresh
    PROVE  statusProcess' = statusProcess \/ statusProcess'.kind # "answer"
BY Fields DEF Refresh

LEMMA StepBodyInv == IInv /\ BodyInv /\ [Next]_vars => BodyInv'
<1> SUFFICES ASSUME IInv, BodyInv, [Next]_vars PROVE BodyInv'
  OBVIOUS
<1>0. ServiceOK /\ PanelOK /\ StatusOK /\ ShowOK /\ ActionOK BY DEF IInv
<1>t. made \in Nat /\ proposalId \in Nat /\ patch \in Nat
  BY <1>0 DEF ServiceOK, PanelOK, Ids
<1>k. service.current \in {0, made} BY DEF BodyInv
<1>d. ASSUME service'.current \in {0, service.current}, UNCHANGED <<made, view>>,
             statusProcess' = statusProcess \/ statusProcess'.kind # "answer"
      PROVE  BodyInv'
  BY <1>d, <1>k, DaemonKeepsBody DEF view
<1>1. CASE ServeStatus
  <2>1. UNCHANGED <<daemon, view>> BY <1>1 DEF ServeStatus, AnswerStatus, LoseStatus
  <2>2. statusProcess'.kind = "answer" => statusProcess'.id = service.current
    <3>1. CASE AnswerStatus
      <4>1. statusProcess' = Message("answer", service.state, service.current)
        BY <3>1 DEF AnswerStatus
      <4> QED BY <4>1 DEF Message
    <3>2. CASE LoseStatus
      <4>1. statusProcess' = Failure BY <3>2 DEF LoseStatus
      <4> QED BY <4>1 DEF Failure, Plain, Message
    <3> QED BY <1>1, <3>1, <3>2 DEF ServeStatus
  <2> QED BY <1>t, <2>1, <2>2 DEF BodyInv, daemon, view
<1>2. CASE ServeShow
  <2>1. service'.current \in {0, service.current}
    BY <1>0, <1>2, DispatchKeepsLatest DEF ServeShow
  <2> QED BY <1>2, <1>d, <2>1 DEF ServeShow
<1>3. CASE ServeAction
  <2>1. service'.current \in {0, service.current}
    BY <1>0, <1>3, DispatchKeepsLatest DEF ServeAction
  <2> QED BY <1>3, <1>d, <2>1 DEF ServeAction
<1>4. CASE OtherClient
  <2>1. PICK m \in {Plain("submit"), Plain("cancel")}
               \cup Messages({"apply", "dismiss"}, {""}, 1..made) :
            \E kind \in ActionAnswers : Dispatch(m, kind)
    BY <1>4 DEF OtherClient
  <2>2. m.kind \in Actions BY <2>1, OthersAct
  <2>3. service'.current \in {0, service.current}
    BY <1>0, <2>1, <2>2, DispatchKeepsLatest
  <2> QED BY <1>4, <1>d, <2>3 DEF OtherClient, processes
<1>5. CASE ServiceAlone
  <2>1. made' \in {made, made + 1} /\ service'.current \in {0, made'}
    BY <1>0, <1>k, <1>5, AloneKeepsLatest DEF ServiceAlone
  <2> QED BY <1>5, <2>1, DaemonKeepsBody DEF ServiceAlone, view, processes
<1>6. CASE AcceptStatus
  <2>1. statusProcess'.kind # "answer" BY <1>6, OffIsOK DEF AcceptStatus
  <2>2. CASE StatusUsable(statusProcess)
    <3>1. statusProcess.id \in {0} \cup (proposalId..made)
      BY <2>2 DEF StatusUsable, BodyInv
    <3>2. statusProcess.state = "ready" => statusProcess.id # 0
      BY <1>0, <2>2 DEF StatusUsable, StatusOK
    <3>3. statusProcess.state # "applying"
      BY <1>0, <2>2, AnswerFields DEF StatusUsable, ServiceStates
    <3>4. /\ proposalId' = statusProcess.id /\ UNCHANGED <<daemon, shown>>
          /\ IF statusProcess.state = "ready" THEN UNCHANGED <<patch, reviewOpen>>
             ELSE patch' = 0 /\ reviewOpen' = FALSE
      BY <1>6, <2>2, <3>3 DEF AcceptStatus
    <3> QED BY <1>t, <2>1, <3>1, <3>2, <3>4 DEF BodyInv, daemon
  <2>3. CASE ~StatusUsable(statusProcess)
    BY <1>6, <2>1, <2>3 DEF AcceptStatus, BodyInv, daemon
  <2> QED BY <2>2, <2>3
<1>7. CASE AcceptProposal
  <2>1. statusProcess' = statusProcess \/ statusProcess'.kind # "answer"
    BY <1>7, RefreshAnswersNothing DEF AcceptProposal
  <2>2. UNCHANGED <<daemon, proposalId>> BY <1>7 DEF AcceptProposal
  <2>3. CASE ProposalUsable(showProcess)
    <3>1. showProcess.id \in Ids /\ showProcess.id = proposalId
      BY <1>0, <2>3, ShowFields DEF ProposalUsable
    <3>2. patch' = proposalId /\ reviewOpen' = TRUE /\ shown' = shown \cup {proposalId}
      BY <1>7, <2>3, <3>1 DEF AcceptProposal
    <3>3. proposalId # 0 BY <3>1 DEF Ids
    <3> QED BY <1>t, <2>1, <2>2, <3>2, <3>3 DEF BodyInv, daemon
  <2>4. CASE ~ProposalUsable(showProcess)
    BY <1>7, <2>1, <2>2, <2>4 DEF AcceptProposal, BodyInv, daemon
  <2> QED BY <2>3, <2>4
<1>8. CASE AcceptAction
  BY <1>8, RefreshAnswersNothing DEF AcceptAction, BodyInv, daemon
<1>9. CASE Tick BY <1>9, RefreshAnswersNothing DEF Tick, BodyInv, daemon, view
<1>10. CASE Open BY <1>10, RefreshAnswersNothing DEF Open, BodyInv, daemon
<1>11. CASE Close \/ CloseReview
  BY <1>11 DEF Close, CloseReview, BodyInv, daemon, processes
<1>12. CASE OpenReview BY <1>12 DEF OpenReview, BodyInv, daemon, view
<1>13. CASE ProposalAction \/ SubmitExplicit \/ CancelInvestigation
  <2>1. UNCHANGED <<daemon, view, statusProcess>>
    BY <1>13 DEF ProposalAction, SubmitExplicit, CancelInvestigation
  <2> QED BY <2>1 DEF BodyInv, daemon, view
<1>14. CASE UNCHANGED vars BY <1>14 DEF vars, BodyInv, daemon, view, processes
<1> QED
  BY <1>1, <1>2, <1>3, <1>4, <1>5, <1>6, <1>7, <1>8, <1>9, <1>10, <1>11, <1>12, <1>13, <1>14
  DEF Next, Service, Environment, Accept, User

LEMMA InitBodyInv == Init => BodyInv
<1> SUFFICES ASSUME Init PROVE BodyInv
  OBVIOUS
<1>1. service.current = 0 BY DEF Init, ServiceInit, At
<1>2. statusProcess.kind # "answer" BY OffIsOK DEF Init
<1> QED BY <1>1, <1>2 DEF Init, ServiceInit, BodyInv

LEMMA BodyIsReviewed == IInv /\ BodyInv => ReviewedUnlessReplaced
<1> SUFFICES ASSUME IInv, BodyInv, ApplyEnabled
             PROVE  /\ patch \in shown
                    /\ proposalId = patch \/ proposalId \in (patch + 1)..made
  BY DEF ReviewedUnlessReplaced
<1>1. made \in Nat /\ proposalId \in Nat /\ patch \in Nat
  BY DEF IInv, ServiceOK, PanelOK, Ids
<1>2. patch # 0 BY DEF ApplyEnabled, BodyInv
<1> QED BY <1>1, <1>2 DEF BodyInv

\* Whatever answers are late, lost or crossed, and however often the service starts
\* anew: without a replaced proposal nobody applies what was not fetched for review.
THEOREM OnlyReplacedGoUnreviewed == Spec => []ReviewedUnlessReplaced
BY InitIInv, StepIInv, InitBodyInv, StepBodyInv, BodyIsReviewed, PTL DEF Spec
=============================================================================
