--------------------------- MODULE ProposalService ----------------------------
(***************************************************************************)
(* premonitiond's Service (crates/premonition-daemon/src/lib.rs): clients  *)
(* queue at the gate, one request at a time is looked up in the request    *)
(* cache, dispatched and answered; an investigation runs beside it as a    *)
(* spawned job and ends in finish_job; Apply blocks its handler while the  *)
(* engine publishes (see ApplyTransaction); a restart loses all of this.   *)
(*                                                                         *)
(* `gate` is held across a whole request, `inner` only inside one step of  *)
(* the model: whatever the code does under one lock of `inner` is a step.  *)
(***************************************************************************)
EXTENDS Naturals, Sequences, FiniteSets

CONSTANTS
    Clients,        \* connections
    Requests,       \* requests they may send: [id, op, arg]
    CacheLimit,     \* REQUEST_CACHE_LIMIT
    TerminalLimit,  \* TERMINAL_LIMIT
    MaxRecent,      \* MAX_RECENT
    MaxJobs,        \* bound on investigations, and so on proposals
    MaxRestarts     \* bound on crashes of the daemon

Ops == {"status", "submit", "show", "apply", "dismiss", "cancel", "invalid"}
Proposals == 1..MaxJobs
None == 0

ASSUME LimitAssumption ==
    /\ CacheLimit \in Nat \ {0}
    /\ TerminalLimit \in Nat \ {0}
    /\ MaxRecent \in Nat \ {0}
    /\ MaxJobs \in Nat
    /\ MaxRestarts \in Nat
ASSUME ClientAssumption == "nobody" \notin Clients
ASSUME RequestAssumption ==
    \A r \in Requests : r.op \in Ops /\ r.arg \in Proposals \cup {None}

Idle == [sent |-> FALSE]
Sent(r) == [sent |-> TRUE, req |-> r]

VARIABLES
    client,    \* what each connection waits for an answer to
    gate,      \* connections waiting for the gate, a FIFO mutex
    holder,    \* the connection whose request is being handled, or "nobody"
    step,      \* where its handler is
    executor,  \* the executor was found when the daemon started
    state,     \* Inner.state
    active,    \* Inner.active
    failure,   \* Inner.failure
    recent,    \* Inner.recent: outcomes only
    terminal,  \* Inner.terminal
    requests,  \* Inner.requests, the response cache
    sequence,  \* Inner.proposal_sequence
    jobs,      \* spawned investigations
    cancelled, \* jobs whose Cancellation has been cancelled
    wreck,     \* proposal whose transaction recovery could not resolve
    ran,       \* history: Apply runs of the engine per proposal
    published, \* history: proposals whose post-images are in the tree
    told,      \* history: answers of consequence: <<outcome, proposal>>
    begun,     \* history: jobs begun per request id since it was evicted
    spawned,   \* history: number of jobs ever spawned
    restarts   \* history: restarts so far

connection == <<client, gate, holder, step>>
inner == <<state, active, failure, recent, terminal, requests, sequence>>
work == <<jobs, cancelled, spawned>>
disk == <<wreck, ran, published>>
vars == <<connection, executor, inner, work, disk, told, begun, restarts>>

States == {"idle", "working", "ready", "invalid", "error", "runtime_missing",
           "applying", "recovery_required"}
Codes == {"none", "candidate_invalid", "internal", "runtime_missing", "stale",
          "recovery_required"}
NoActive == [kind |-> "none"]
WorkingOn(j) == [kind |-> "working", job |-> j]
ReadyWith(p, j) == [kind |-> "ready", proposal |-> p, job |-> j]
RequestIds == {r.id : r \in Requests}
JobNumbers == 1..MaxJobs
Efforts == {"low", "medium"}
Stages == {"start", "running", "validating"}
RecentOutcomes == {"applied", "dismissed", "cancelled", "invalid", "error"}

TypeOK ==
    /\ client \in [Clients -> {Idle} \cup {Sent(r) : r \in Requests}]
    /\ gate \in Seq(Clients)
    /\ holder \in Clients \cup {"nobody"}
    /\ step \in {"free", "dispatch", "begin", "publish"}
    /\ executor \in BOOLEAN
    /\ state \in States
    /\ active \in {NoActive} \cup {WorkingOn(j) : j \in JobNumbers}
           \cup {ReadyWith(p, j) : p \in Proposals, j \in JobNumbers}
    /\ failure \in Codes
    /\ recent \in Seq(RecentOutcomes) /\ Len(recent) <= MaxRecent
    /\ Len(terminal) <= TerminalLimit
    /\ Len(requests) <= CacheLimit
    /\ sequence \in 0..MaxJobs
    /\ jobs \subseteq [number : JobNumbers, effort : Efforts, stage : Stages]
    /\ cancelled \subseteq JobNumbers
    /\ wreck \in Proposals \cup {None}
    /\ ran \in [Proposals -> Nat]
    /\ published \subseteq Proposals
    /\ begun \in [RequestIds -> Nat]
    /\ spawned \in 0..MaxJobs
    /\ restarts \in 0..MaxRestarts

-----------------------------------------------------------------------------
IdleState(found) == IF found THEN "idle" ELSE "runtime_missing"

Init ==
    /\ client = [c \in Clients |-> Idle]
    /\ gate = <<>>
    /\ holder = "nobody"
    /\ step = "free"
    /\ executor \in BOOLEAN
    /\ state = IdleState(executor)
    /\ active = NoActive
    /\ failure = "none"
    /\ recent = <<>>
    /\ terminal = <<>>
    /\ requests = <<>>
    /\ sequence = 0
    /\ jobs = {}
    /\ cancelled = {}
    /\ wreck = None
    /\ ran = [p \in Proposals |-> 0]
    /\ published = {}
    /\ told = {}
    /\ begun = [i \in RequestIds |-> 0]
    /\ spawned = 0
    /\ restarts = 0

-----------------------------------------------------------------------------
(* The gate, the request cache and the answer.                             *)

\* Mutant of PushBounded: it makes room one element too late.
PushLoosely(q, n, x) == Append(IF Len(q) > n THEN Tail(q) ELSE q, x)

\* A queue of at most n elements: the oldest is dropped to make room.
PushBounded(q, n, x) == Append(IF Len(q) = n THEN Tail(q) ELSE q, x)

Request == client[holder].req

\* Mutant of Release: the reply is sent and the guard of the gate kept.
ReleaseNot ==
    /\ client' = [client EXCEPT ![holder] = Idle]
    /\ step' = "free"
    /\ UNCHANGED <<gate, holder>>

\* The connection gets its response and the gate passes on.
Release ==
    /\ client' = [client EXCEPT ![holder] = Idle]
    /\ holder' = "nobody"
    /\ step' = "free"
    /\ UNCHANGED gate

\* A response from the cache or a reuse error is not cached again.
Uncached ==
    /\ Release
    /\ UNCHANGED <<requests, begun>>

\* Mutant of Remember: an accepted Submit is not cached.
RememberEnds(response) ==
    requests' = IF response = "accepted" THEN requests
                ELSE PushBounded(requests, CacheLimit,
                         [req |-> Request, response |-> response])

\* Any other response is cached under the request's identifier and digest.
Remember(response) ==
    requests' = PushBounded(requests, CacheLimit,
        [req |-> Request, response |-> response])
Forgotten(i) == Len(requests) = CacheLimit /\ Head(requests).req.id = i
StillBegun(i) == IF Forgotten(i) THEN 0 ELSE begun[i]
Answer(response) ==
    /\ Release
    /\ Remember(response)
    /\ begun' = [i \in RequestIds |-> StillBegun(i)]

\* Answers a caller acts on.
Tell(outcome, p) == told' = told \cup {<<outcome, p>>}

Arrive(c, r) ==
    /\ client[c] = Idle
    /\ client' = [client EXCEPT ![c] = Sent(r)]
    /\ gate' = Append(gate, c)
    /\ UNCHANGED <<holder, step, executor, inner, work, disk, told, begun,
                   restarts>>

Enter ==
    /\ holder = "nobody"
    /\ gate # <<>>
    /\ holder' = Head(gate)
    /\ gate' = Tail(gate)
    /\ step' = "dispatch"
    /\ UNCHANGED <<client, executor, inner, work, disk, told, begun, restarts>>

CachedFor(r) == {k \in 1..Len(requests) : requests[k].req.id = r.id}
Dispatching(op) ==
    /\ step = "dispatch"
    /\ CachedFor(Request) = {}
    /\ Request.op = op
    /\ state = "recovery_required" => op \in {"status", "invalid"}

\* The same identifier again: the first answer if the request is the same.
Replay ==
    /\ step = "dispatch"
    /\ \E k \in CachedFor(Request) :
         LET old == requests[k] IN
         IF old.req = Request /\ old.response \in {"applied", "dismissed"}
         THEN Tell(old.response, Request.arg)
         ELSE UNCHANGED told
    /\ Uncached
    /\ UNCHANGED <<executor, state, active, failure, recent, terminal, sequence,
                   work, disk, restarts>>

\* dispatch while recovery is required.
RefuseUntilRecovered ==
    /\ step = "dispatch"
    /\ CachedFor(Request) = {}
    /\ Request.op \notin {"status", "invalid"}
    /\ state = "recovery_required"
    /\ Answer("recovery_required")
    /\ UNCHANGED <<executor, state, active, failure, recent, terminal, sequence,
                   work, disk, told, restarts>>

\* An envelope that fails Request.validate.
RefuseInvalid ==
    /\ Dispatching("invalid")
    /\ Answer("invalid_request")
    /\ UNCHANGED <<executor, state, active, failure, recent, terminal, sequence,
                   work, disk, told, restarts>>

Status ==
    /\ Dispatching("status")
    /\ Answer("status")
    /\ UNCHANGED <<executor, state, active, failure, recent, terminal, sequence,
                   work, disk, told, restarts>>

\* proposal_body, for ProposalShow and ProposalCopy: a body is never cached.
Show ==
    /\ Dispatching("show")
    /\ IF active.kind = "ready" /\ active.proposal = Request.arg
       THEN Uncached ELSE Answer("unknown_proposal")
    /\ UNCHANGED <<executor, state, active, failure, recent, terminal, sequence,
                   work, disk, told, restarts>>

-----------------------------------------------------------------------------
(* Submit and the investigation it spawns.                                 *)

\* Mutant of Busy: a running job does not keep another Submit out.
BusyReady == state = "ready"

Busy == state \in {"working", "ready"}

\* submit, first lock: refused, or on to begin_investigation.
SubmitCheck ==
    /\ Dispatching("submit")
    /\ \/ ~executor /\ Answer("runtime_missing")
       \/ executor /\ Busy /\ Answer("busy")
       \/ /\ executor
          /\ ~Busy
          /\ step' = "begin"
          /\ UNCHANGED <<client, gate, holder, requests, begun>>
    /\ UNCHANGED <<executor, state, active, failure, recent, terminal, sequence,
                   work, disk, told, restarts>>

\* begin_investigation rejects the repository; the state stays as it was.
SubmitRejected ==
    /\ step = "begin"
    /\ Answer("repository_unsafe")
    /\ UNCHANGED <<executor, state, active, failure, recent, terminal, sequence,
                   work, disk, told, restarts>>

\* One number stands for the job, its correlation id and its Cancellation.
SubmitBegin ==
    /\ step = "begin"
    /\ spawned < MaxJobs
    /\ spawned' = spawned + 1
    /\ jobs' = jobs \cup
           {[number |-> spawned + 1, effort |-> "low", stage |-> "start"]}
    /\ state' = "working"
    /\ active' = WorkingOn(spawned + 1)
    /\ failure' = "none"
    /\ Release
    /\ Remember("accepted")
    /\ begun' = [i \in RequestIds |->
           StillBegun(i) + (IF i = Request.id THEN 1 ELSE 0)]
    /\ UNCHANGED <<executor, recent, terminal, sequence, cancelled, disk, told,
                   restarts>>

\* How an attempt can fail, one name for all errors that are handled alike.
\* Executor: "cancelled"; "malformed" output; "oversize" output; "spawn" for a
\* missing or misconfigured runtime; "failed" for timeout, crash and the rest.
\* validate_candidate: "candidate" for a diff or applicability error; "stale"
\* for an unsafe or changed repository.
ExecutorErrors == {"cancelled", "malformed", "oversize", "spawn", "failed"}
CoreErrors == {"candidate", "stale"}
RetryableLow == {"malformed", "candidate"}

\* map_executor_error, map_core_error and the state finish_job derives.
CodeOf(e) ==
    CASE e = "cancelled" -> "none"
      [] e \in {"malformed", "oversize", "candidate"} -> "candidate_invalid"
      [] e = "spawn" -> "runtime_missing"
      [] e = "failed" -> "internal"
      [] e = "stale" -> "stale"
StateOf(e) ==
    CASE e = "cancelled" -> "idle"
      [] e \in {"malformed", "oversize", "candidate", "stale"} -> "invalid"
      [] e = "spawn" -> "runtime_missing"
      [] e = "failed" -> "error"
OutcomeOf(e) ==
    CASE e = "cancelled" -> "cancelled"
      [] StateOf(e) = "invalid" -> "invalid"
      [] OTHER -> "error"

\* Mutant of Failed: the failed proposal or job stays the active one.
FailedKept(newState, code) ==
    /\ state' = newState
    /\ failure' = code
    /\ UNCHANGED active

\* What a failed job or Apply leaves.
Failed(newState, code) ==
    /\ state' = newState
    /\ failure' = code
    /\ active' = NoActive

\* Mutant of IsActive: a job that is no longer the active one finishes all the
\* same.
IsActiveAnyhow(j) == TRUE

\* finish_job returns early unless its job is still the active one.
IsActive(j) == active = WorkingOn(j.number)

FinishOk(j) ==
    /\ jobs' = jobs \ {j}
    /\ IF IsActive(j)
       THEN /\ sequence' = sequence + 1
            /\ state' = "ready"
            /\ active' = ReadyWith(sequence + 1, j.number)
            /\ failure' = "none"
       ELSE UNCHANGED <<sequence, state, active, failure>>
    /\ UNCHANGED recent

FinishErr(j, e) ==
    /\ jobs' = jobs \ {j}
    /\ IF IsActive(j)
       THEN /\ Failed(StateOf(e), CodeOf(e))
            /\ recent' = PushBounded(recent, MaxRecent, OutcomeOf(e))
       ELSE UNCHANGED <<state, failure, active, recent>>
    /\ UNCHANGED sequence

\* Mutant of FailAttempt: the effort of the failed attempt is not looked at.
FailForever(j, e) ==
    IF e \in RetryableLow
    THEN /\ jobs' = (jobs \ {j}) \cup
                {[j EXCEPT !.effort = "medium", !.stage = "start"]}
         /\ UNCHANGED <<sequence, state, active, failure, recent>>
    ELSE FinishErr(j, e)

\* One Medium attempt follows a Low one whose candidate was bad.
FailAttempt(j, e) ==
    IF j.effort = "low" /\ e \in RetryableLow
    THEN /\ jobs' = (jobs \ {j}) \cup
                {[j EXCEPT !.effort = "medium", !.stage = "start"]}
         /\ UNCHANGED <<sequence, state, active, failure, recent>>
    ELSE FinishErr(j, e)

\* The executor looks at the Cancellation before it starts the agent.
JobStart(j) ==
    /\ j.stage = "start"
    /\ IF j.number \in cancelled THEN FinishErr(j, "cancelled")
       ELSE /\ jobs' = (jobs \ {j}) \cup {[j EXCEPT !.stage = "running"]}
            /\ UNCHANGED <<sequence, state, active, failure, recent>>

\* The agent exits, fails, or is killed.  Its exit may be noticed before a
\* Cancellation that is already set.
JobRun(j) ==
    /\ j.stage = "running"
    /\ \/ /\ jobs' = (jobs \ {j}) \cup {[j EXCEPT !.stage = "validating"]}
          /\ UNCHANGED <<sequence, state, active, failure, recent>>
       \/ \E e \in ExecutorErrors :
             /\ e = "cancelled" => j.number \in cancelled
             /\ FailAttempt(j, e)

\* validate_candidate does not look at the Cancellation.  The identifiers made after it
\* cannot be refused: that of the model passed the same test when the executor was
\* made (valid_model_identifier), that of the proposal is a short p-<time>-<number>.
JobValidate(j) ==
    /\ j.stage = "validating"
    /\ FinishOk(j) \/ \E e \in CoreErrors : FailAttempt(j, e)

JobStep(j) ==
    /\ JobStart(j) \/ JobRun(j) \/ JobValidate(j)
    /\ UNCHANGED <<connection, executor, terminal, requests, cancelled, spawned,
                   disk, told, begun, restarts>>

Cancel ==
    /\ Dispatching("cancel")
    /\ IF active.kind = "working"
       THEN /\ cancelled' = cancelled \cup {active.job}
            /\ Answer("cancelled")
       ELSE /\ Answer(IF state = "applying" THEN "apply_in_progress"
                      ELSE "already_terminal")
            /\ UNCHANGED cancelled
    /\ UNCHANGED <<executor, state, active, failure, recent, terminal, sequence,
                   jobs, spawned, disk, told, restarts>>

-----------------------------------------------------------------------------
(* Apply and Dismiss.                                                      *)

\* Mutant of Ended: any end of the proposal counts as the one asked for.
EndedAnyhow(p, outcome) == \E k \in 1..Len(terminal) : terminal[k].proposal = p

Ended(p, outcome) ==
    \E k \in 1..Len(terminal) : terminal[k] = [proposal |-> p, outcome |-> outcome]

\* The active proposal is gone for good; the service can be used again.
Retire(p, outcome) ==
    /\ state' = IdleState(executor)
    /\ active' = NoActive
    /\ failure' = "none"
    /\ recent' = PushBounded(recent, MaxRecent, outcome)
    /\ terminal' = PushBounded(terminal, TerminalLimit,
           [proposal |-> p, outcome |-> outcome])

\* apply up to spawn_blocking.
ApplyClaim ==
    /\ Dispatching("apply")
    /\ IF Ended(Request.arg, "applied")
       THEN Answer("applied") /\ Tell("applied", Request.arg)
            /\ UNCHANGED <<state, ran>>
       ELSE IF state = "applying"
       THEN Answer("apply_in_progress") /\ UNCHANGED <<state, ran, told>>
       ELSE IF active.kind = "ready" /\ active.proposal = Request.arg
       THEN /\ state' = "applying"
            /\ ran' = [ran EXCEPT ![Request.arg] = @ + 1]
            /\ step' = "publish"
            /\ UNCHANGED <<client, gate, holder, requests, begun, told>>
       ELSE Answer("unknown_proposal") /\ UNCHANGED <<state, ran, told>>
    /\ UNCHANGED <<executor, active, failure, recent, terminal, sequence, work,
                   wreck, published, restarts>>

\* ApplyEngine::apply returned Ok.
ApplyOk ==
    /\ step = "publish"
    /\ published' = published \cup {Request.arg}
    /\ Retire(Request.arg, "applied")
    /\ Answer("applied")
    /\ Tell("applied", Request.arg)
    /\ UNCHANGED <<executor, sequence, work, wreck, ran, restarts>>

\* It refused, a stale tree standing for every refusal (map_apply_error);
\* ApplyTransaction's RefusalChangesNothing says what that means.
ApplyRefused ==
    /\ step = "publish"
    /\ Failed("error", "stale")
    /\ Answer("stale")
    /\ UNCHANGED <<executor, recent, terminal, sequence, work, disk, told,
                   restarts>>

\* State or RecoveryRequired: the transaction may be left behind, or gone with
\* either image in place.
ApplyBroke ==
    /\ step = "publish"
    /\ Failed("recovery_required", "recovery_required")
    /\ \/ wreck' = Request.arg /\ UNCHANGED published
       \/ published' \in {published, published \cup {Request.arg}}
          /\ UNCHANGED wreck
    /\ Answer("recovery_required")
    /\ UNCHANGED <<executor, recent, terminal, sequence, work, ran, told,
                   restarts>>

\* Active::take() has removed whatever was active before the pattern
\* Some(Active::Ready(_)) is tried; only a Ready one is put back.
Take(p) ==
    IF active.kind # "ready"
    THEN /\ active' = NoActive
         /\ Answer("unknown_proposal")
         /\ UNCHANGED <<state, failure, recent, terminal, told>>
    ELSE IF active.proposal # p
    THEN /\ Answer("unknown_proposal")
         /\ UNCHANGED <<active, state, failure, recent, terminal, told>>
    ELSE /\ Retire(p, "dismissed")
         /\ Answer("dismissed")
         /\ Tell("dismissed", p)

Dismiss ==
    /\ Dispatching("dismiss")
    /\ IF Ended(Request.arg, "dismissed")
       THEN /\ Answer("dismissed")
            /\ Tell("dismissed", Request.arg)
            /\ UNCHANGED <<active, state, failure, recent, terminal>>
       ELSE Take(Request.arg)
    /\ UNCHANGED <<executor, sequence, work, disk, restarts>>

-----------------------------------------------------------------------------
(* The daemon is killed and started again.                                 *)

\* The transaction recovery finds: of an interrupted Apply, or an old wreck.
Interrupted == IF step = "publish" THEN Request.arg ELSE wreck

Restart ==
    /\ restarts < MaxRestarts
    /\ restarts' = restarts + 1
    /\ client' = [c \in Clients |-> Idle]
    /\ gate' = <<>>
    /\ holder' = "nobody"
    /\ step' = "free"
    /\ executor' \in BOOLEAN
    /\ \/ /\ state' = IdleState(executor')
          /\ wreck' = None
          /\ published' \in {published, published \cup ({Interrupted} \ {None})}
       \/ /\ Interrupted # None
          /\ state' = "recovery_required"
          /\ wreck' = Interrupted
          /\ UNCHANGED published
    /\ active' = NoActive
    /\ failure' = "none"
    /\ recent' = <<>>
    /\ terminal' = <<>>
    /\ requests' = <<>>
    /\ jobs' = {}
    /\ cancelled' = {}
    /\ begun' = [i \in RequestIds |-> 0]
    \* proposal_sequence restarts too, but the identifier also has the time.
    /\ UNCHANGED <<sequence, spawned, ran, told>>

-----------------------------------------------------------------------------
Handler ==
    \/ Enter \/ Replay \/ RefuseUntilRecovered \/ RefuseInvalid \/ Status
    \/ Show \/ SubmitCheck \/ SubmitRejected \/ SubmitBegin \/ Cancel
    \/ ApplyClaim \/ ApplyOk \/ ApplyRefused \/ ApplyBroke \/ Dismiss
Job == \E j \in jobs : JobStep(j)

Next ==
    \/ \E c \in Clients, r \in Requests : Arrive(c, r)
    \/ Handler
    \/ Job
    \/ Restart

Spec == Init /\ [][Next]_vars

\* The runtime polls a handler that can go on, Apply's blocking task returns
\* (ApplyTransaction's Settles), and the executor ends within its bounds.
FairSpec == Spec /\ WF_vars(Handler) /\ WF_vars(Job)

-----------------------------------------------------------------------------
(* Safety.                                                                 *)

\* ADR 0001: a global single flight.  There is never a second investigation,
\* none runs beside a proposal or an Apply, and a Working record always has
\* its job.
SingleFlight ==
    /\ Cardinality(jobs) <= 1
    /\ jobs # {} => state = "working"
    /\ state \in {"ready", "applying"} <=> active.kind = "ready"
    /\ active.kind = "working" => \E j \in jobs : IsActive(j)

\* No proposal reaches the engine twice, whatever requests are repeated,
\* reordered, evicted from the cache or sent after a restart; and a dismissed
\* one never does.
AppliedAtMostOnce ==
    \A p \in Proposals :
        /\ ran[p] <= 1
        /\ <<"dismissed", p>> \in told => ran[p] = 0

\* Whoever is told that a proposal is applied, at once, from the cache or from
\* the terminal list, finds it in the tree, restarts included.
AppliedIsTrue == \A p \in Proposals : <<"applied", p>> \in told => p \in published

\* Two deliveries of one Submit begin one investigation while the first is in
\* the cache, even when the second arrives before the first is answered.
ResentSubmitBeginsOnce == \A i \in RequestIds : begun[i] <= 1

\* protocol lib.rs, ServiceState::Working: "One executor job is running."
WorkingHasJob == state = "working" => jobs # {}

\* What a client can make of the service.
Visible ==
    [up |-> TRUE,
     state |-> CASE state \in {"invalid", "error", "runtime_missing"} -> "error"
                 [] state = "applying" -> "ready"
                 [] OTHER -> state,
     job |-> active.kind = "working",
     current |-> IF active.kind = "ready" THEN active.proposal ELSE 0]
Seen == INSTANCE PanelService
    WITH service <- Visible, made <- sequence, MaxProposals <- MaxJobs

\* The queue at the gate, the cache, the job and its stages, Apply in two steps
\* and the restart make no service but the one the panel is written for: one
\* job or one proposal at a time, made by a job, and gone for good when it is
\* applied, dismissed, failed or lost.
IsPanelService == Seen!ServiceSpec

-----------------------------------------------------------------------------
(* Liveness.                                                               *)

\* Whoever queues at the gate is answered, or disconnected by a restart.
EveryRequestAnswered == \A c \in Clients : client[c].sent ~> ~client[c].sent

\* An investigation the service knows of ends: in a proposal, in a failure, or
\* forgotten.
InvestigationEnds == active.kind = "working" ~> active.kind # "working"
=============================================================================
