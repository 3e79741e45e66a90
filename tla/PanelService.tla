---------------------------- MODULE PanelService -----------------------------
(***************************************************************************)
(* What premonitiond is to its clients: a state, perhaps a job, perhaps    *)
(* one proposal that is ready.  ProposalService.tla implements this; the   *)
(* panel of PanelReview.tla talks to it.                                   *)
(***************************************************************************)
EXTENDS Naturals

CONSTANT MaxProposals \* bound on the proposals the service makes

ASSUME BoundAssumption == MaxProposals \in Nat

VARIABLES
    service, \* the daemon: running, its state, a job, the ready proposal
    made     \* proposals made so far; they are numbered

daemon == <<service, made>>

Ids == 1..MaxProposals
\* "ready" stands for applying too, "error" for invalid, error and
\* runtime_missing.
ServiceStates == {"idle", "working", "ready", "error", "recovery_required"}
Services == [up : BOOLEAN, state : ServiceStates, job : BOOLEAN, current : Ids \cup {0}]

Calls ==
    {[kind |-> k, id |-> 0] : k \in {"submit", "cancel"}}
    \cup {[kind |-> k, id |-> i] : k \in {"show", "copy", "apply", "dismiss"}, i \in Ids}
Replies == {"accepted", "cancelled", "proposal", "copied", "applied", "dismissed",
            "failure"}

At(up, st) == [up |-> up, state |-> st, job |-> FALSE, current |-> 0]
\* A start finds an executor or not, and a transaction it cannot recover or not.
Fresh == {At(TRUE, st) : st \in {"idle", "error", "recovery_required"}}

ServiceInit ==
    /\ service \in {At(TRUE, st) : st \in {"idle", "error"}}
    /\ made = 0

Become(st, job, id) ==
    service' = [up |-> service.up, state |-> st, job |-> job, current |-> id]

\* Once a proposal or a job is gone: idle, or runtime_missing.
Rest == \E st \in {"idle", "error"} : Become(st, FALSE, 0)

\* Requests but status: what the service does with m, and what it answers.
\* Whether a proposal that is gone is still on the list of ended ones is left
\* open: both answers occur.
Submit(m, kind) ==
    \/ kind = "failure" /\ UNCHANGED service
    \/ /\ service.state \notin {"working", "ready"}
       /\ kind = "accepted"
       /\ Become("working", TRUE, 0)

Body(m, kind) ==
    /\ kind = IF service.current = m.id
              THEN (IF m.kind = "show" THEN "proposal" ELSE "copied") ELSE "failure"
    /\ UNCHANGED service

Apply(m, kind) ==
    IF service.current = m.id
    THEN \/ kind = "applied" /\ Rest
         \/ /\ kind = "failure"
            /\ \E st \in {"error", "recovery_required"} : Become(st, FALSE, 0)
    ELSE kind \in {"applied", "failure"} /\ UNCHANGED service

\* A Dismiss for another proposal takes a running job away from the service.
Dismiss(m, kind) ==
    IF service.current = m.id
    THEN kind = "dismissed" /\ Rest
    ELSE \/ kind = "dismissed" /\ UNCHANGED service
         \/ kind = "failure" /\ Become(service.state, FALSE, service.current)

Cancel(kind) == kind = "cancelled" /\ UNCHANGED service

Dispatch(m, kind) ==
    IF ~service.up \/ service.state = "recovery_required"
    THEN kind = "failure" /\ UNCHANGED service
    ELSE CASE m.kind = "submit" -> Submit(m, kind)
           [] m.kind \in {"show", "copy"} -> Body(m, kind)
           [] m.kind = "apply" -> Apply(m, kind)
           [] m.kind = "dismiss" -> Dismiss(m, kind)
           [] m.kind = "cancel" -> Cancel(kind)

JobEnds ==
    /\ service.job
    /\ \/ Rest /\ UNCHANGED made
       \/ /\ made < MaxProposals
          /\ made' = made + 1
          /\ Become("ready", FALSE, made + 1)

Stop ==
    /\ service.up
    /\ service' = At(FALSE, "idle")
    /\ UNCHANGED made

\* Also when it is still up: it was killed and started with nobody asking it
\* anything between.
Start ==
    /\ service' \in Fresh
    /\ UNCHANGED made

Serve ==
    /\ \E m \in Calls, kind \in Replies : Dispatch(m, kind)
    /\ UNCHANGED made

ServiceNext == Serve \/ JobEnds \/ Stop \/ Start

ServiceSpec == ServiceInit /\ [][ServiceNext]_daemon
=============================================================================
