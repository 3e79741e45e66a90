------------------------- MODULE ProposalService_proofs -------------------------
(***************************************************************************)
(* The service's promises for any number of clients, requests, proposals   *)
(* and restarts, and for caches of any size; that it implements            *)
(* PanelService; and that its gate and its jobs only go forward.           *)
(***************************************************************************)
EXTENDS ProposalService, SequenceTheorems, FiniteSetTheorems, TLAPS

USE LimitAssumption, ClientAssumption, RequestAssumption

-----------------------------------------------------------------------------
(* The queues.                                                             *)

\* Queue r is q with x pushed: bounded, holding what q held but for a head that made
\* room, and x.
Pushed(r, S, q, n, x) ==
    /\ r \in Seq(S)
    /\ Len(r) <= n
    /\ \A k \in 1..Len(r) : r[k] = x \/ \E m \in 1..Len(q) : r[k] = q[m]
    /\ \E k \in 1..Len(r) : r[k] = x
    /\ \A m \in 1..Len(q) : (m = 1 /\ Len(q) = n) \/ \E k \in 1..Len(r) : r[k] = q[m]

LEMMA PushIsBounded ==
    ASSUME NEW S, NEW q \in Seq(S), NEW n \in Nat \ {0}, Len(q) <= n, NEW x \in S
    PROVE  Pushed(PushBounded(q, n, x), S, q, n, x)
<1> DEFINE r == PushBounded(q, n, x)
<1>1. CASE Len(q) = n
  <2> DEFINE t == Tail(q)
  <2>1. q # <<>> /\ r = Append(t, x) BY <1>1 DEF PushBounded
  <2>2. t \in Seq(S) /\ Len(t) = n - 1 /\ \A k \in 1..Len(t) : t[k] = q[k + 1]
    BY <1>1, <2>1, HeadTailProperties
  <2> HIDE DEF t
  <2>3. /\ r \in Seq(S) /\ Len(r) = n /\ r[n] = x
        /\ \A k \in 1..(n - 1) : r[k] = q[k + 1]
    BY <2>1, <2>2
  <2>4. \A m \in 1..Len(q) : m # 1 => m - 1 \in 1..Len(r) /\ r[m - 1] = q[m]
    BY <1>1, <2>3
  <2> HIDE DEF r
  <2>5. \A k \in 1..Len(r) : r[k] = x \/ \E m \in 1..Len(q) : r[k] = q[m]
    <3> SUFFICES ASSUME NEW k \in 1..Len(r) PROVE r[k] = x \/ \E m \in 1..Len(q) : r[k] = q[m]
      OBVIOUS
    <3>1. CASE k = n BY <2>3, <3>1
    <3>2. CASE k # n
      <4>1. k + 1 \in 1..Len(q) /\ r[k] = q[k + 1] BY <1>1, <2>3, <3>2
      <4>2. QED BY <4>1
    <3>3. QED BY <3>1, <3>2
  <2>6. \E k \in 1..Len(r) : r[k] = x
    <3>1. n \in 1..Len(r) BY <2>3
    <3>2. QED BY <2>3, <3>1
  <2>7. ASSUME NEW m \in 1..Len(q), m # 1 PROVE \E k \in 1..Len(r) : r[k] = q[m]
    BY <2>4, <2>7
  <2>8. QED BY <1>1, <2>3, <2>5, <2>6, <2>7 DEF r, Pushed
<1>2. CASE Len(q) # n
  <2>1. r = Append(q, x) BY <1>2 DEF PushBounded
  <2>2. /\ r \in Seq(S) /\ Len(r) = Len(q) + 1 /\ r[Len(q) + 1] = x
        /\ \A k \in 1..Len(q) : r[k] = q[k]
    BY <2>1
  <2> HIDE DEF r
  <2>3. QED BY <1>2, <2>2 DEF r, Pushed
<1>3. QED BY <1>1, <1>2

-----------------------------------------------------------------------------
(* The gate.                                                               *)

\* Who holds the gate or waits for it has sent a request, and does so once.
ConnInv ==
    /\ client \in [Clients -> {Idle} \cup {Sent(r) : r \in Requests}]
    /\ gate \in Seq(Clients)
    /\ holder \in Clients \cup {"nobody"}
    /\ step \in {"free", "dispatch", "begin", "publish"}
    /\ holder = "nobody" <=> step = "free"
    /\ \A c \in Clients : client[c] = Idle =>
         holder # c /\ \A k \in 1..Len(gate) : gate[k] # c
    /\ \A k \in 1..Len(gate) : gate[k] # holder
    /\ \A k, m \in 1..Len(gate) : gate[k] = gate[m] => k = m

LEMMA SentIsNotIdle == \A r : Sent(r) # Idle /\ Sent(r).req = r
<1> SUFFICES ASSUME NEW r PROVE Sent(r) # Idle /\ Sent(r).req = r
  OBVIOUS
<1>1. Sent(r).sent # Idle.sent BY DEF Sent, Idle
<1>2. QED BY <1>1 DEF Sent

LEMMA RequestIsSent ==
    ASSUME ConnInv, step # "free"
    PROVE  Request \in Requests /\ holder \in Clients /\ client[holder] # Idle
BY SentIsNotIdle DEF ConnInv, Request

Hold(p) == step = "dispatch" /\ step' = p /\ UNCHANGED <<client, gate, holder>>
Reset ==
    /\ client' = [c \in Clients |-> Idle]
    /\ gate' = <<>>
    /\ holder' = "nobody"
    /\ step' = "free"

ConnectionStep ==
    \/ \E c \in Clients, r \in Requests : Arrive(c, r)
    \/ Enter
    \/ step # "free" /\ Release
    \/ Hold("begin") \/ Hold("publish")
    \/ UNCHANGED connection
    \/ Reset

\* What a step does to the gate.
LEMMA NextIsConnectionStep == [Next]_vars => ConnectionStep
<1> SUFFICES ASSUME [Next]_vars PROVE ConnectionStep
  OBVIOUS
<1> USE DEF ConnectionStep, Dispatching, Answer, Uncached, Hold
<1>1. CASE \E c \in Clients, r \in Requests : Arrive(c, r) BY <1>1
<1>2. CASE Enter BY <1>2
<1>3. CASE Replay BY <1>3 DEF Replay
<1>4. CASE RefuseUntilRecovered \/ RefuseInvalid \/ Status \/ Show
  BY <1>4 DEF RefuseUntilRecovered, RefuseInvalid, Status, Show
<1>5. CASE SubmitCheck BY <1>5 DEF SubmitCheck
<1>6. CASE SubmitRejected \/ SubmitBegin BY <1>6 DEF SubmitRejected, SubmitBegin
<1>7. CASE Cancel BY <1>7 DEF Cancel
<1>8. CASE ApplyClaim BY <1>8 DEF ApplyClaim
<1>9. CASE ApplyOk \/ ApplyRefused \/ ApplyBroke BY <1>9 DEF ApplyOk, ApplyRefused, ApplyBroke
<1>10. CASE Dismiss BY <1>10 DEF Dismiss, Take
<1>11. CASE Job BY <1>11 DEF Job, JobStep
<1>12. CASE Restart BY <1>12 DEF Restart, Reset
<1>13. CASE UNCHANGED vars BY <1>13 DEF vars
<1> QED
  BY <1>1, <1>2, <1>3, <1>4, <1>5, <1>6, <1>7, <1>8, <1>9, <1>10, <1>11, <1>12, <1>13
  DEF Next, Handler

LEMMA StepConnInv == ConnInv /\ [Next]_vars => ConnInv'
<1> SUFFICES ASSUME ConnInv, ConnectionStep PROVE ConnInv'
  BY NextIsConnectionStep
<1>1. ASSUME NEW c \in Clients, NEW r \in Requests, Arrive(c, r) PROVE ConnInv'
  <2>1. client[c] = Idle /\ Sent(r) # Idle BY <1>1, SentIsNotIdle DEF Arrive
  <2>2. /\ gate' \in Seq(Clients) /\ Len(gate') = Len(gate) + 1
        /\ gate'[Len(gate) + 1] = c
        /\ \A k \in 1..Len(gate) : gate'[k] = gate[k]
    BY <1>1 DEF Arrive, ConnInv
  <2>3. QED BY <1>1, <2>1, <2>2 DEF Arrive, ConnInv
<1>2. CASE Enter
  <2>1. /\ gate' \in Seq(Clients) /\ Len(gate') = Len(gate) - 1
        /\ Len(gate) > 0 /\ holder' = gate[1] /\ gate[1] \in Clients
        /\ \A k \in 1..Len(gate') : gate'[k] = gate[k + 1]
    BY <1>2, HeadTailProperties DEF Enter, ConnInv
  <2>2. QED BY <1>2, <2>1 DEF Enter, ConnInv
<1>3. CASE step # "free" /\ Release
  BY <1>3, RequestIsSent DEF Release, ConnInv
<1>4. CASE Hold("begin") \/ Hold("publish") BY <1>4 DEF Hold, ConnInv
<1>5. CASE UNCHANGED connection BY <1>5 DEF connection, ConnInv
<1>6. CASE Reset BY <1>6 DEF Reset, ConnInv
<1> QED
  BY <1>1, <1>2, <1>3, <1>4, <1>5, <1>6 DEF ConnectionStep

\* The handler's request is the same until it answers.
LEMMA RequestStays ==
    ASSUME ConnInv, [Next]_vars, step' \in {"begin", "publish"}
    PROVE  step \in {"dispatch", step'} /\ Request' = Request
<1> USE NextIsConnectionStep DEF ConnectionStep
<1>1. ASSUME NEW c \in Clients, NEW r \in Requests, Arrive(c, r)
      PROVE step \in {"dispatch", step'} /\ Request' = Request
  BY <1>1 DEF Arrive, ConnInv, Request
<1>2. CASE Hold("begin") \/ Hold("publish") BY <1>2 DEF Hold, Request
<1>3. CASE UNCHANGED connection BY <1>3 DEF connection, Request
<1> QED BY <1>1, <1>2, <1>3 DEF Enter, Release, Reset

-----------------------------------------------------------------------------
(* The state machine and the job beside it.                                *)

\* One job at most, and what the state, the active record, the job and the handler
\* say of each other.
FlightInv ==
    /\ executor \in BOOLEAN
    /\ state \in States
    /\ active \in {NoActive} \cup {WorkingOn(j) : j \in JobNumbers}
           \cup {ReadyWith(p, j) : p \in Proposals, j \in JobNumbers}
    /\ sequence \in Nat /\ spawned \in 0..MaxJobs /\ sequence <= spawned
    /\ jobs \subseteq [number : JobNumbers, effort : Efforts, stage : Stages]
    /\ \A j, k \in jobs : j = k
    /\ jobs # {} => state = "working" /\ sequence < spawned
    /\ state \in {"ready", "applying"} <=> active.kind = "ready"
    /\ active.kind = "working" =>
         state = "working" /\ \E j \in jobs : active.job = j.number
    /\ active.kind = "ready" => active.proposal = sequence
    /\ state = "applying" <=> step = "publish"
    /\ step = "begin" => state \notin {"working", "ready", "recovery_required"}
    /\ step = "publish" => active.proposal = Request.arg

\* The three shapes of the active record.
LEMMA ActiveShapes ==
    /\ NoActive.kind = "none"
    /\ \A j : WorkingOn(j).kind = "working" /\ WorkingOn(j).job = j
    /\ \A p, j : ReadyWith(p, j).kind = "ready" /\ ReadyWith(p, j).proposal = p
BY DEF NoActive, WorkingOn, ReadyWith

LEMMA ActiveIsWorking ==
    ASSUME FlightInv
    PROVE  /\ active.kind = "working" => active.job \in JobNumbers /\ active = WorkingOn(active.job)
           /\ active.kind = "none" => active = NoActive
           /\ active.kind = "ready" => active.proposal \in Proposals
           /\ active.kind \in {"none", "working", "ready"}
BY ActiveShapes DEF FlightInv

\* finish_job and the retry: either the record is the job's and goes with it, or
\* nothing but the job changes.
LEMMA JobKeepsFlight ==
    ASSUME FlightInv, NEW j \in jobs, JobStep(j), Request' = Request
    PROVE  FlightInv'
<1>0. /\ jobs = {j} /\ j.number \in JobNumbers /\ j.effort \in Efforts /\ j.stage \in Stages
      /\ state = "working" /\ sequence < spawned /\ active.kind # "ready"
      /\ step' = step /\ UNCHANGED <<executor, spawned>> /\ step \notin {"begin", "publish"}
  BY DEF FlightInv, JobStep, connection
<1>1. ASSUME jobs' = {}, UNCHANGED <<sequence, state, active>>, ~IsActive(j) PROVE FlightInv'
  <2>1. active.kind # "working"
    BY <1>0, <1>1, ActiveIsWorking DEF FlightInv, IsActive
  <2>2. QED BY <1>0, <1>1, <2>1 DEF FlightInv
<1>2. ASSUME NEW stage \in Stages, NEW effort \in Efforts,
             jobs' = {[j EXCEPT !.effort = effort, !.stage = stage]},
             UNCHANGED <<sequence, state, active>>
      PROVE  FlightInv'
  <2>1. [j EXCEPT !.effort = effort, !.stage = stage]
            \in [number : JobNumbers, effort : Efforts, stage : Stages]
    <3>1. j \in [number : JobNumbers, effort : Efforts, stage : Stages] BY DEF FlightInv
    <3>2. QED BY <3>1
  <2>2. [j EXCEPT !.effort = effort, !.stage = stage].number = j.number
    BY <1>0 DEF FlightInv
  <2>3. QED BY <1>0, <1>2, <2>1, <2>2 DEF FlightInv
<1>3. ASSUME FinishOk(j) PROVE FlightInv'
  <2>1. jobs' = {} BY <1>0, <1>3 DEF FinishOk
  <2>2. CASE IsActive(j)
    <3>1. /\ sequence' = sequence + 1 /\ sequence + 1 \in Proposals /\ sequence + 1 <= spawned
          /\ state' = "ready" /\ active' = ReadyWith(sequence + 1, j.number)
      BY <1>0, <1>3, <2>2 DEF FinishOk, FlightInv, Proposals
    <3>2. active'.kind = "ready" /\ active'.proposal = sequence'
      BY <3>1, ActiveShapes
    <3>3. QED BY <1>0, <2>1, <3>1, <3>2 DEF FlightInv, States
  <2>3. CASE ~IsActive(j) BY <1>1, <1>3, <2>1, <2>3 DEF FinishOk
  <2>4. QED BY <2>2, <2>3
<1>4. ASSUME NEW e \in ExecutorErrors \cup CoreErrors, FinishErr(j, e) PROVE FlightInv'
  <2>1. jobs' = {} /\ sequence' = sequence BY <1>0, <1>4 DEF FinishErr
  <2>2. CASE IsActive(j)
    <3>1. /\ state' \in {"idle", "invalid", "runtime_missing", "error"}
          /\ active' = NoActive
      BY <1>4, <2>2 DEF FinishErr, Failed, StateOf, ExecutorErrors, CoreErrors
    <3>2. QED BY <1>0, <2>1, <3>1, ActiveShapes DEF FlightInv, States
  <2>3. CASE ~IsActive(j) BY <1>1, <1>4, <2>1, <2>3 DEF FinishErr
  <2>4. QED BY <2>2, <2>3
<1>5. ASSUME NEW e \in ExecutorErrors \cup CoreErrors, FailAttempt(j, e) PROVE FlightInv'
  <2>1. CASE j.effort = "low" /\ e \in RetryableLow
    BY <1>0, <1>2, <1>5, <2>1 DEF FailAttempt, Stages, Efforts
  <2>2. QED BY <1>4, <1>5, <2>1 DEF FailAttempt
<1>6. ASSUME NEW stage \in Stages, jobs' = {[j EXCEPT !.stage = stage]},
             UNCHANGED <<sequence, state, active>>
      PROVE  FlightInv'
  <2>1. [j EXCEPT !.stage = stage] = [j EXCEPT !.effort = j.effort, !.stage = stage]
    BY <1>0 DEF FlightInv
  <2>2. QED BY <1>0, <1>2, <1>6, <2>1
<1>7. CASE JobStart(j)
  <2>1. CASE j.number \in cancelled
    BY <1>4, <1>7, <2>1 DEF JobStart, ExecutorErrors
  <2>2. CASE j.number \notin cancelled
    BY <1>0, <1>6, <1>7, <2>2 DEF JobStart, Stages
  <2>3. QED BY <2>1, <2>2
<1>8. CASE JobRun(j)
  BY <1>0, <1>5, <1>6, <1>8 DEF JobRun, Stages
<1>9. CASE JobValidate(j)
  BY <1>3, <1>5, <1>9 DEF JobValidate
<1> QED BY <1>7, <1>8, <1>9 DEF JobStep

LEMMA StepFlightInv == ConnInv /\ FlightInv /\ [Next]_vars => FlightInv'
<1> SUFFICES ASSUME ConnInv, FlightInv, [Next]_vars PROVE FlightInv'
  OBVIOUS
<1>a. step' \in {"begin", "publish"} => Request' = Request
  BY RequestStays
<1>b. ASSUME UNCHANGED <<executor, state, active, sequence, spawned, jobs>>,
             step' = step \/ (step # "publish" /\ step' \in {"free", "dispatch"})
      PROVE  FlightInv'
  BY <1>a, <1>b DEF FlightInv
<1> USE DEF Dispatching, Answer, Uncached, Release, inner, work
<1>1. ASSUME NEW c \in Clients, NEW r \in Requests, Arrive(c, r) PROVE FlightInv'
  BY <1>b, <1>1 DEF Arrive
<1>2. CASE Enter BY <1>b, <1>2 DEF Enter, ConnInv
<1>3. CASE Replay BY <1>b, <1>3 DEF Replay
<1>4. CASE RefuseUntilRecovered \/ RefuseInvalid \/ Status \/ Show
  BY <1>b, <1>4 DEF RefuseUntilRecovered, RefuseInvalid, Status, Show
<1>5. CASE SubmitCheck BY <1>5, <1>b DEF SubmitCheck, Busy, FlightInv
<1>6. CASE SubmitRejected BY <1>b, <1>6 DEF SubmitRejected
<1>7. CASE SubmitBegin
  <2>1. jobs = {} /\ step' = "free" /\ spawned + 1 \in JobNumbers
    BY <1>7 DEF SubmitBegin, FlightInv, JobNumbers
  <2> DEFINE j == [number |-> spawned + 1, effort |-> "low", stage |-> "start"]
  <2>2. jobs' = {j} /\ j \in [number : JobNumbers, effort : Efforts, stage : Stages]
        /\ j.number = spawned + 1
    BY <1>7, <2>1 DEF SubmitBegin, Efforts, Stages
  <2> HIDE DEF j
  <2>3. active'.kind = "working" /\ active'.job = spawned + 1
    BY <1>7, ActiveShapes DEF SubmitBegin
  <2>4. QED BY <1>7, <2>1, <2>2, <2>3 DEF SubmitBegin, FlightInv, States
<1>8. CASE Cancel BY <1>b, <1>8 DEF Cancel
<1>9. CASE ApplyClaim
  <2>1. CASE /\ active.kind = "ready" /\ active.proposal = Request.arg
             /\ state' = "applying" /\ step' = "publish"
    <3>1. Request' = Request BY <1>a, <2>1
    <3>2. UNCHANGED <<executor, active, sequence, spawned, jobs>> BY <1>9 DEF ApplyClaim
    <3>3. QED BY <2>1, <3>1, <3>2 DEF FlightInv, States
  <2>2. QED BY <1>9, <1>b, <2>1 DEF ApplyClaim
<1>10. CASE ApplyOk
  BY <1>10, ActiveShapes DEF ApplyOk, Retire, IdleState, FlightInv, States
<1>11. CASE ApplyRefused
  BY <1>11, ActiveShapes DEF ApplyRefused, Failed, FlightInv, States
<1>12. CASE ApplyBroke
  BY <1>12, ActiveShapes DEF ApplyBroke, Failed, FlightInv, States
<1>13. CASE Dismiss
  <2>1. CASE /\ active.kind # "ready" /\ active' = NoActive /\ step' = "free"
             /\ UNCHANGED state
    BY <1>13, <2>1, ActiveShapes DEF Dismiss, FlightInv
  <2>2. CASE Retire(Request.arg, "dismissed") /\ step' = "free" /\ active.kind = "ready"
    BY <1>13, <2>2, ActiveShapes DEF Dismiss, Retire, IdleState, FlightInv, States
  <2>3. QED BY <1>13, <1>b, <2>1, <2>2 DEF Dismiss, Take
<1>14. ASSUME NEW j \in jobs, JobStep(j) PROVE FlightInv'
  <2>1. Request' = Request BY <1>14 DEF JobStep, connection, Request
  <2>2. QED BY <1>14, <2>1, JobKeepsFlight
<1>15. CASE Restart
  BY <1>15, ActiveShapes DEF Restart, IdleState, FlightInv, States
<1>16. CASE UNCHANGED vars BY <1>b, <1>16 DEF vars, connection
<1> QED
  BY <1>1, <1>2, <1>3, <1>4, <1>5, <1>6, <1>7, <1>8, <1>9, <1>10, <1>11, <1>12, <1>13,
     <1>14, <1>15, <1>16
  DEF Next, Handler, Job

-----------------------------------------------------------------------------
(* The response cache.                                                     *)

Responses == {"accepted", "applied", "apply_in_progress", "already_terminal", "busy",
              "cancelled", "dismissed", "invalid_request", "recovery_required",
              "repository_unsafe", "runtime_missing", "stale", "status",
              "unknown_proposal"}
Cached == [req : Requests, response : Responses]

\* A job that was begun for an identifier is remembered as long as it is counted, and
\* a Submit goes on to begin one only when its identifier is not in the cache.
CacheInv ==
    /\ requests \in Seq(Cached)
    /\ Len(requests) <= CacheLimit
    /\ begun \in [RequestIds -> Nat]
    /\ \A i \in RequestIds : begun[i] # 0 =>
         begun[i] = 1 /\ \E k \in 1..Len(requests) : requests[k].req.id = i
    /\ step = "begin" => CachedFor(Request) = {}

\* What a step does to the cache.
Remembers(response) == step # "free" /\ step' = "free" /\ Remember(response)
CacheStep ==
    \/ UNCHANGED <<requests, begun>> /\ (step' = "begin" =>
           step = "begin" \/ CachedFor(Request) = {})
    \/ /\ \E response \in Responses : Remembers(response)
       /\ begun' = [i \in RequestIds |-> StillBegun(i)]
    \/ /\ step = "begin"
       /\ Remembers("accepted")
       /\ begun' = [i \in RequestIds |->
              StillBegun(i) + (IF i = Request.id THEN 1 ELSE 0)]
    \/ Reset /\ requests' = <<>> /\ begun' = [i \in RequestIds |-> 0]

LEMMA NextIsCacheStep == ConnInv /\ [Next]_vars => CacheStep
<1> SUFFICES ASSUME ConnInv, [Next]_vars PROVE CacheStep
  OBVIOUS
<1>a. ASSUME step # "free", NEW response \in Responses, Answer(response) PROVE CacheStep
  BY <1>a DEF CacheStep, Remembers, Answer, Release
<1>b. ASSUME UNCHANGED <<requests, begun>>, step' # "begin" \/ step' = step PROVE CacheStep
  BY <1>b DEF CacheStep
<1> USE DEF Dispatching, Responses
<1>1. ASSUME NEW c \in Clients, NEW r \in Requests, Arrive(c, r) PROVE CacheStep
  BY <1>b, <1>1 DEF Arrive, inner
<1>2. CASE Enter BY <1>b, <1>2 DEF Enter, inner
<1>3. CASE Replay BY <1>b, <1>3 DEF Replay, Uncached, Release
<1>4. CASE RefuseUntilRecovered BY <1>a, <1>4 DEF RefuseUntilRecovered
<1>5. CASE RefuseInvalid BY <1>a, <1>5 DEF RefuseInvalid
<1>6. CASE Status BY <1>a, <1>6 DEF Status
<1>7. CASE Show BY <1>a, <1>b, <1>7 DEF Show, Uncached, Release
<1>8. CASE SubmitCheck BY <1>a, <1>8 DEF SubmitCheck, CacheStep
<1>9. CASE SubmitRejected BY <1>a, <1>9 DEF SubmitRejected
<1>10. CASE SubmitBegin BY <1>10 DEF SubmitBegin, CacheStep, Remembers, Release
<1>11. CASE Cancel BY <1>a, <1>11 DEF Cancel
<1>12. CASE ApplyClaim BY <1>a, <1>b, <1>12 DEF ApplyClaim
<1>13. CASE ApplyOk BY <1>a, <1>13 DEF ApplyOk
<1>14. CASE ApplyRefused BY <1>a, <1>14 DEF ApplyRefused
<1>15. CASE ApplyBroke BY <1>a, <1>15 DEF ApplyBroke
<1>16. CASE Dismiss BY <1>a, <1>16 DEF Dismiss, Take
<1>17. CASE Job BY <1>b, <1>17 DEF Job, JobStep, connection
<1>18. CASE Restart BY <1>18 DEF Restart, Reset, CacheStep
<1>19. CASE UNCHANGED vars BY <1>b, <1>19 DEF vars, inner, connection
<1> QED
  BY <1>1, <1>2, <1>3, <1>4, <1>5, <1>6, <1>7, <1>8, <1>9, <1>10, <1>11, <1>12, <1>13,
     <1>14, <1>15, <1>16, <1>17, <1>18, <1>19
  DEF Next, Handler

\* Remembering keeps what is cached, but for the head it may evict.
LEMMA RememberKeeps ==
    ASSUME ConnInv, CacheInv, NEW response \in Responses, Remembers(response)
    PROVE  /\ requests' \in Seq(Cached)
           /\ Len(requests') <= CacheLimit
           /\ \A k \in 1..Len(requests') :
                \/ requests'[k] = [req |-> Request, response |-> response]
                \/ \E m \in 1..Len(requests) : requests'[k] = requests[m]
           /\ \E k \in 1..Len(requests') : requests'[k].req = Request
           /\ \A m \in 1..Len(requests) :
                \/ Forgotten(requests[m].req.id)
                \/ \E k \in 1..Len(requests') : requests'[k] = requests[m]
<1> DEFINE x == [req |-> Request, response |-> response]
<1>1. x \in Cached /\ x.req = Request
  BY RequestIsSent DEF Cached, Remembers
<1>2. requests' = PushBounded(requests, CacheLimit, x)
  BY DEF Remembers, Remember
<1> HIDE DEF x
<1>3. Pushed(requests', Cached, requests, CacheLimit, x)
  <2>1. requests \in Seq(Cached) /\ CacheLimit \in Nat \ {0} /\ Len(requests) <= CacheLimit
    BY DEF CacheInv
  <2>2. Pushed(PushBounded(requests, CacheLimit, x), Cached, requests, CacheLimit, x)
    BY <1>1, <2>1, PushIsBounded
  <2>3. QED BY <1>2, <2>2
<1>4. requests # <<>> => Head(requests) = requests[1]
  BY DEF CacheInv
<1>5. ASSUME NEW m \in 1..Len(requests)
      PROVE  Forgotten(requests[m].req.id) \/ \E k \in 1..Len(requests') : requests'[k] = requests[m]
  BY <1>3, <1>4 DEF Forgotten, Pushed
<1>6. QED BY <1>1, <1>3, <1>5 DEF x, Pushed

LEMMA StepCacheInv == ConnInv /\ CacheInv /\ [Next]_vars => CacheInv'
<1> SUFFICES ASSUME ConnInv, CacheInv, [Next]_vars, CacheStep PROVE CacheInv'
  BY NextIsCacheStep
<1>1. CASE UNCHANGED <<requests, begun>> /\ (step' = "begin" =>
               step = "begin" \/ CachedFor(Request) = {})
  <2>1. step' = "begin" => CachedFor(Request)' = {}
    BY <1>1, RequestStays DEF CachedFor, CacheInv
  <2>2. QED BY <1>1, <2>1 DEF CacheInv
<1>2. ASSUME NEW response \in Responses, Remembers(response),
             begun' = [i \in RequestIds |-> StillBegun(i)]
      PROVE  CacheInv'
  <2>1. ASSUME NEW i \in RequestIds, begun'[i] # 0
        PROVE  begun'[i] = 1 /\ \E k \in 1..Len(requests') : requests'[k].req.id = i
    <3>1. ~Forgotten(i) /\ begun[i] # 0 /\ begun'[i] = begun[i]
      BY <1>2, <2>1 DEF StillBegun, CacheInv
    <3>2. PICK m \in 1..Len(requests) : requests[m].req.id = i
      BY <3>1 DEF CacheInv
    <3>3. PICK k \in 1..Len(requests') : requests'[k] = requests[m]
      BY <1>2, <3>1, <3>2, RememberKeeps
    <3>4. QED BY <3>1, <3>2, <3>3 DEF CacheInv
  <2>2. begun' \in [RequestIds -> Nat]
    BY <1>2 DEF StillBegun, CacheInv
  <2>3. step' # "begin" BY <1>2 DEF Remembers
  <2>4. QED BY <1>2, <2>1, <2>2, <2>3, RememberKeeps DEF CacheInv
<1>3. ASSUME step = "begin", Remembers("accepted"),
             begun' = [i \in RequestIds |->
                 StillBegun(i) + (IF i = Request.id THEN 1 ELSE 0)]
      PROVE  CacheInv'
  <2>0. "accepted" \in Responses BY DEF Responses
  <2>1. Request \in Requests /\ Request.id \in RequestIds
    BY <1>3, RequestIsSent DEF RequestIds
  <2>2. begun[Request.id] = 0
    BY <1>3, <2>1 DEF CacheInv, CachedFor
  <2>3. ASSUME NEW i \in RequestIds, begun'[i] # 0
        PROVE  begun'[i] = 1 /\ \E k \in 1..Len(requests') : requests'[k].req.id = i
    <3>1. CASE i = Request.id
      <4>1. begun'[i] = 1 BY <1>3, <2>1, <2>2, <3>1 DEF StillBegun
      <4>2. QED BY <1>3, <2>0, <3>1, <4>1, RememberKeeps
    <3>2. CASE i # Request.id
      <4>1. ~Forgotten(i) /\ begun[i] # 0 /\ begun'[i] = begun[i]
        BY <1>3, <2>3, <3>2 DEF StillBegun, CacheInv
      <4>2. PICK m \in 1..Len(requests) : requests[m].req.id = i
        BY <4>1 DEF CacheInv
      <4>3. PICK k \in 1..Len(requests') : requests'[k] = requests[m]
        BY <1>3, <2>0, <4>1, <4>2, RememberKeeps
      <4>4. QED BY <4>1, <4>2, <4>3 DEF CacheInv
    <3>3. QED BY <3>1, <3>2
  <2>4. begun' \in [RequestIds -> Nat]
    BY <1>3 DEF StillBegun, CacheInv
  <2>5. step' # "begin" BY <1>3 DEF Remembers
  <2>6. QED BY <1>3, <2>0, <2>3, <2>4, <2>5, RememberKeeps DEF CacheInv
<1>4. CASE Reset /\ requests' = <<>> /\ begun' = [i \in RequestIds |-> 0]
  BY <1>4 DEF Reset, CacheInv
<1> QED BY <1>1, <1>2, <1>3, <1>4 DEF CacheStep

-----------------------------------------------------------------------------
(* The ends of proposals, and what clients were told of them.              *)

Ends == {"applied", "dismissed"}

\* The caches only repeat what was told.
ToldInv ==
    /\ terminal \in Seq([proposal : Proposals, outcome : Ends])
    /\ Len(terminal) <= TerminalLimit
    /\ told \subseteq Ends \X Proposals
    /\ \A k \in 1..Len(terminal) : <<terminal[k].outcome, terminal[k].proposal>> \in told
    /\ \A k \in 1..Len(requests) :
         requests[k].response \in Ends =>
             <<requests[k].response, requests[k].req.arg>> \in told

\* What was told of a proposal is true, and of no proposal that can still be applied.
RanInv ==
    /\ ran \in [Proposals -> Nat]
    /\ published \subseteq Proposals
    /\ wreck \in Proposals \cup {None}
    /\ \A p \in Proposals :
         /\ ran[p] <= 1
         /\ p > sequence => ran[p] = 0
         /\ active.kind = "ready" /\ active.proposal = p /\ step # "publish" => ran[p] = 0
         /\ <<"applied", p>> \in told => p \in published
         /\ <<"dismissed", p>> \in told => ran[p] = 0
         /\ \A o \in Ends : <<o, p>> \in told =>
              p <= sequence /\ (active.kind = "ready" => active.proposal # p)

\* An end on the list, or an answer in the cache, is told again, not anew.
LEMMA EndedIsTold ==
    ASSUME ToldInv, NEW p, NEW o \in Ends, Ended(p, o)
    PROVE  <<o, p>> \in told
<1>1. PICK k \in 1..Len(terminal) : terminal[k] = [proposal |-> p, outcome |-> o]
  BY DEF Ended
<1>2. terminal[k].proposal = p /\ terminal[k].outcome = o BY <1>1
<1>3. QED BY <1>2 DEF ToldInv

LEMMA ReplayTellsNothingNew == ToldInv /\ CacheInv /\ Replay => told' = told
<1> SUFFICES ASSUME ToldInv, CacheInv, Replay PROVE told' = told
  OBVIOUS
<1>1. PICK k \in CachedFor(Request) :
        IF requests[k].req = Request /\ requests[k].response \in Ends
        THEN Tell(requests[k].response, Request.arg) ELSE UNCHANGED told
  BY DEF Replay, Ends
<1>2. k \in 1..Len(requests) BY DEF CachedFor
<1>3. CASE requests[k].req = Request /\ requests[k].response \in Ends
  BY <1>1, <1>2, <1>3 DEF Tell, ToldInv
<1>4. QED BY <1>1, <1>3

\* A step that tells something new retires the active proposal as told.
Retires(o) ==
    /\ o \in Ends
    /\ active.kind = "ready" /\ active.proposal = Request.arg
    /\ Retire(Request.arg, o)
    /\ told' = told \cup {<<o, Request.arg>>}
    /\ step # "free" /\ step' = "free" /\ Remember(o)
    /\ UNCHANGED <<sequence, ran, wreck>>
    /\ IF o = "applied" THEN published' = published \cup {Request.arg}
       ELSE step = "dispatch" /\ UNCHANGED published

\* Any other step tells nothing new.
Answers ==
    /\ UNCHANGED <<terminal, told>>
    /\ \/ UNCHANGED requests
       \/ \E o \in Responses :
            /\ Remembers(o)
            /\ o \in Ends => <<o, Request.arg>> \in told
Forgets == Reset /\ terminal' = <<>> /\ requests' = <<>> /\ UNCHANGED told
ToldStep == Answers \/ Forgets \/ Retires("applied") \/ Retires("dismissed")

LEMMA NextIsToldStep ==
    ConnInv /\ FlightInv /\ CacheInv /\ ToldInv /\ [Next]_vars => ToldStep
<1> SUFFICES ASSUME ConnInv, FlightInv, CacheInv, ToldInv, [Next]_vars PROVE ToldStep
  OBVIOUS
<1>a. ASSUME step # "free", UNCHANGED <<terminal, told>>,
             NEW o \in Responses \ Ends, Answer(o)
      PROVE  ToldStep
  BY <1>a DEF ToldStep, Answers, Remembers, Answer, Release
<1>b. ASSUME UNCHANGED <<terminal, told, requests>> PROVE ToldStep
  BY <1>b DEF ToldStep, Answers
<1>c. ASSUME step # "free", UNCHANGED <<terminal>>, NEW o \in Ends,
             Ended(Request.arg, o), Tell(o, Request.arg), Answer(o)
      PROVE  ToldStep
  <2>1. <<o, Request.arg>> \in told BY <1>c, EndedIsTold
  <2>2. told' = told BY <1>c, <2>1 DEF Tell
  <2>3. QED BY <1>c, <2>1, <2>2 DEF ToldStep, Answers, Remembers, Answer, Release, Responses, Ends
<1> USE DEF Dispatching, Responses, Ends
<1>1. ASSUME NEW c \in Clients, NEW r \in Requests, Arrive(c, r) PROVE ToldStep
  BY <1>b, <1>1 DEF Arrive, inner
<1>2. CASE Enter BY <1>b, <1>2 DEF Enter, inner
<1>3. CASE Replay BY <1>b, <1>3, ReplayTellsNothingNew DEF Replay, Uncached
<1>4. CASE RefuseUntilRecovered BY <1>a, <1>4 DEF RefuseUntilRecovered
<1>5. CASE RefuseInvalid BY <1>a, <1>5 DEF RefuseInvalid
<1>6. CASE Status BY <1>a, <1>6 DEF Status
<1>7. CASE Show BY <1>a, <1>b, <1>7 DEF Show, Uncached
<1>8. CASE SubmitCheck BY <1>a, <1>b, <1>8 DEF SubmitCheck
<1>9. CASE SubmitRejected BY <1>a, <1>9 DEF SubmitRejected
<1>10. CASE SubmitBegin
  BY <1>10 DEF SubmitBegin, ToldStep, Answers, Remembers, Release
<1>11. CASE Cancel BY <1>a, <1>11 DEF Cancel
<1>12. CASE ApplyClaim
  <2>1. CASE Ended(Request.arg, "applied") BY <1>12, <1>c, <2>1 DEF ApplyClaim
  <2>2. CASE ~Ended(Request.arg, "applied") BY <1>12, <1>a, <1>b, <2>2 DEF ApplyClaim
  <2>3. QED BY <2>1, <2>2
<1>13. CASE ApplyOk
  BY <1>13 DEF ApplyOk, Answer, Release, Tell, Retires, ToldStep, FlightInv
<1>14. CASE ApplyRefused BY <1>a, <1>14 DEF ApplyRefused
<1>15. CASE ApplyBroke BY <1>a, <1>15 DEF ApplyBroke
<1>16. CASE Dismiss
  <2>1. CASE Ended(Request.arg, "dismissed") BY <1>16, <1>c, <2>1 DEF Dismiss
  <2>2. CASE Answer("unknown_proposal") /\ UNCHANGED <<terminal, told>>
    BY <1>16, <1>a, <2>2 DEF Dismiss
  <2>3. CASE /\ active.kind = "ready" /\ active.proposal = Request.arg
             /\ Retire(Request.arg, "dismissed") /\ Answer("dismissed")
             /\ Tell("dismissed", Request.arg)
    BY <1>16, <2>3 DEF Dismiss, disk, Answer, Release, Tell, Retires, ToldStep
  <2>4. QED BY <1>16, <2>1, <2>2, <2>3 DEF Dismiss, Take
<1>17. CASE Job BY <1>b, <1>17 DEF Job, JobStep
<1>18. CASE Restart BY <1>18 DEF Restart, Reset, Forgets, ToldStep
<1>19. CASE UNCHANGED vars BY <1>b, <1>19 DEF vars, inner
<1> QED
  BY <1>1, <1>2, <1>3, <1>4, <1>5, <1>6, <1>7, <1>8, <1>9, <1>10, <1>11, <1>12, <1>13,
     <1>14, <1>15, <1>16, <1>17, <1>18, <1>19
  DEF Next, Handler

LEMMA StepToldInv ==
    ConnInv /\ FlightInv /\ CacheInv /\ ToldInv /\ [Next]_vars => ToldInv'
<1> SUFFICES ASSUME ConnInv, FlightInv, CacheInv, ToldInv, ToldStep PROVE ToldInv'
  BY NextIsToldStep
<1>1. ASSUME told \subseteq told', NEW o \in Responses, Remembers(o),
             o \in Ends => <<o, Request.arg>> \in told'
      PROVE  \A k \in 1..Len(requests') : requests'[k].response \in Ends =>
                 <<requests'[k].response, requests'[k].req.arg>> \in told'
  <2> SUFFICES ASSUME NEW k \in 1..Len(requests'), requests'[k].response \in Ends
               PROVE  <<requests'[k].response, requests'[k].req.arg>> \in told'
    OBVIOUS
  <2>1. \/ requests'[k] = [req |-> Request, response |-> o]
        \/ \E m \in 1..Len(requests) : requests'[k] = requests[m]
    BY <1>1, RememberKeeps
  <2>2. CASE requests'[k] = [req |-> Request, response |-> o] BY <1>1, <2>2
  <2>3. CASE \E m \in 1..Len(requests) : requests'[k] = requests[m]
    BY <1>1, <2>3 DEF ToldInv
  <2>4. QED BY <2>1, <2>2, <2>3
<1>2. CASE Answers
  <2>1. CASE UNCHANGED requests BY <1>2, <2>1 DEF Answers, ToldInv
  <2>2. ASSUME NEW o \in Responses, Remembers(o), o \in Ends => <<o, Request.arg>> \in told
        PROVE  ToldInv'
    BY <1>1, <1>2, <2>2 DEF Answers, ToldInv
  <2>3. QED BY <1>2, <2>1, <2>2 DEF Answers
<1>3. CASE Forgets BY <1>3 DEF Forgets, ToldInv
<1>4. ASSUME NEW o \in Ends, Retires(o) PROVE ToldInv'
  <2>1. o \in Responses /\ Remembers(o) BY <1>4 DEF Responses, Ends, Retires, Remembers
  <2>2. Request.arg \in Proposals
    BY <1>4, ActiveIsWorking DEF Retires
  <2> DEFINE x == [proposal |-> Request.arg, outcome |-> o]
  <2>3. x \in [proposal : Proposals, outcome : Ends] /\ x.proposal = Request.arg /\ x.outcome = o
    BY <2>2
  <2>4. terminal' = PushBounded(terminal, TerminalLimit, x) BY <1>4 DEF Retires, Retire
  <2> HIDE DEF x
  <2>5. terminal \in Seq([proposal : Proposals, outcome : Ends])
        /\ Len(terminal) <= TerminalLimit /\ TerminalLimit \in Nat \ {0}
    BY DEF ToldInv
  <2>6. Pushed(terminal', [proposal : Proposals, outcome : Ends], terminal, TerminalLimit, x)
    BY <2>3, <2>4, <2>5, PushIsBounded
  <2>7. told' = told \cup {<<o, Request.arg>>} BY <1>4 DEF Retires
  <2>8. \A k \in 1..Len(terminal') : <<terminal'[k].outcome, terminal'[k].proposal>> \in told'
    BY <2>3, <2>6, <2>7 DEF Pushed, ToldInv
  <2>9. told' \subseteq Ends \X Proposals BY <2>2, <2>7 DEF ToldInv
  <2>10. \A k \in 1..Len(requests') : requests'[k].response \in Ends =>
             <<requests'[k].response, requests'[k].req.arg>> \in told'
    BY <1>1, <2>1, <2>7
  <2>11. terminal' \in Seq([proposal : Proposals, outcome : Ends]) /\ Len(terminal') <= TerminalLimit
    BY <2>6 DEF Pushed
  <2>12. QED BY <2>8, <2>9, <2>10, <2>11 DEF ToldInv
<1> QED BY <1>2, <1>3, <1>4 DEF ToldStep, Ends

LEMMA StepRanInv ==
    ConnInv /\ FlightInv /\ CacheInv /\ ToldInv /\ RanInv /\ [Next]_vars => RanInv'
<1> SUFFICES ASSUME ConnInv, FlightInv, CacheInv, ToldInv, RanInv, [Next]_vars, ToldStep
             PROVE  RanInv'
  BY NextIsToldStep
<1>a. ASSUME UNCHANGED <<told, ran, sequence>>, published \subseteq published',
             published' \subseteq Proposals, wreck' \in Proposals \cup {None},
             active' = NoActive \/ active'.kind = "working" \/ (active' = active /\ (step # "publish" \/ step' = step))
      PROVE  RanInv'
  BY <1>a, ActiveShapes DEF RanInv
<1>b. ASSUME NEW o \in Ends, Retires(o) PROVE RanInv'
  <2>1. active.proposal \in Proposals /\ active.proposal = sequence /\ sequence \in Nat
    BY <1>b, ActiveIsWorking DEF Retires, FlightInv
  <2>2. active'.kind = "none" BY <1>b, ActiveShapes DEF Retires, Retire
  <2>3. QED BY <1>b, <2>1, <2>2 DEF Retires, RanInv, Ends
<1>c. CASE Retires("applied") \/ Retires("dismissed") BY <1>b, <1>c DEF Ends
<1>d. told' = told \/ Retires("applied") \/ Retires("dismissed")
  BY DEF ToldStep, Answers, Forgets
<1> SUFFICES ASSUME told' = told PROVE RanInv'
  BY <1>c, <1>d
<1>p. published \subseteq Proposals /\ wreck \in Proposals \cup {None} BY DEF RanInv
<1> USE DEF Dispatching, disk
<1>1. ASSUME NEW c \in Clients, NEW r \in Requests, Arrive(c, r) PROVE RanInv'
  BY <1>a, <1>p, <1>1 DEF Arrive, inner
<1>2. CASE Enter BY <1>a, <1>p, <1>2 DEF Enter, inner, ConnInv
<1>3. CASE Replay BY <1>a, <1>p, <1>3 DEF Replay
<1>4. CASE RefuseUntilRecovered \/ RefuseInvalid \/ Status \/ Show
  BY <1>a, <1>p, <1>4 DEF RefuseUntilRecovered, RefuseInvalid, Status, Show
<1>5. CASE SubmitCheck BY <1>a, <1>p, <1>5 DEF SubmitCheck
<1>6. CASE SubmitRejected BY <1>a, <1>p, <1>6 DEF SubmitRejected
<1>7. CASE SubmitBegin BY <1>a, <1>p, <1>7, ActiveShapes DEF SubmitBegin
<1>8. CASE Cancel BY <1>a, <1>p, <1>8 DEF Cancel
<1>9. CASE ApplyClaim
  <2>1. CASE /\ active.kind = "ready" /\ active.proposal = Request.arg
             /\ ran' = [ran EXCEPT ![Request.arg] = @ + 1] /\ step' = "publish"
    <3>1. UNCHANGED <<active, sequence, published, wreck>> /\ step # "publish"
      BY <1>9 DEF ApplyClaim
    <3>2. active.proposal \in Proposals /\ active.proposal = sequence /\ sequence \in Nat
      BY <2>1, ActiveIsWorking DEF FlightInv
    <3>3. QED BY <2>1, <3>1, <3>2 DEF RanInv, Ends
  <2>2. QED BY <1>9, <1>a, <1>p, <2>1 DEF ApplyClaim
<1>10. CASE ApplyOk
  <2>1. Request.arg \in Proposals
    BY <1>10, ActiveIsWorking DEF ApplyOk, FlightInv
  <2>2. QED BY <1>a, <1>p, <1>10, <2>1 DEF ApplyOk, Retire
<1>11. CASE ApplyRefused BY <1>a, <1>p, <1>11 DEF ApplyRefused, Failed
<1>12. CASE ApplyBroke
  <2>1. Request.arg \in Proposals
    BY <1>12, ActiveIsWorking DEF ApplyBroke, FlightInv
  <2>2. QED BY <1>a, <1>p, <1>12, <2>1 DEF ApplyBroke, Failed
<1>13. CASE Dismiss BY <1>a, <1>p, <1>13 DEF Dismiss, Take, Retire
<1>14. ASSUME NEW j \in jobs, JobStep(j) PROVE RanInv'
  <2>1. UNCHANGED <<told, ran, published, wreck, step>> BY <1>14 DEF JobStep, connection
  <2>2. \/ UNCHANGED <<active, sequence>>
        \/ active' = NoActive /\ UNCHANGED sequence
        \/ sequence' = sequence + 1 /\ active' = ReadyWith(sequence + 1, j.number)
    BY <1>14 DEF JobStep, JobStart, JobRun, JobValidate, FinishOk, FinishErr, FailAttempt, Failed
  <2>3. CASE sequence' = sequence + 1 /\ active' = ReadyWith(sequence + 1, j.number)
    BY <2>1, <2>3, ActiveShapes DEF RanInv, FlightInv, Proposals
  <2>4. QED BY <1>a, <1>p, <2>1, <2>2, <2>3
<1>15. CASE Restart
  <2>0. Interrupted \in Proposals \cup {None}
    BY <1>p, ActiveIsWorking DEF Interrupted, FlightInv
  <2>1. published \subseteq published' /\ published' \subseteq Proposals
    BY <1>15, <1>p, <2>0 DEF Restart
  <2>2. wreck' \in Proposals \cup {None} BY <1>15, <2>0 DEF Restart
  <2>3. QED BY <1>a, <1>15, <2>1, <2>2 DEF Restart
<1>16. CASE UNCHANGED vars BY <1>a, <1>p, <1>16 DEF vars, inner, connection
<1> QED
  BY <1>1, <1>2, <1>3, <1>4, <1>5, <1>6, <1>7, <1>8, <1>9, <1>10, <1>11, <1>12, <1>13,
     <1>14, <1>15, <1>16
  DEF Next, Handler, Job

-----------------------------------------------------------------------------
(* The rest of the state.                                                  *)

RecordInv ==
    /\ failure \in Codes
    /\ recent \in Seq(RecentOutcomes) /\ Len(recent) <= MaxRecent
    /\ cancelled \subseteq JobNumbers
    /\ restarts \in 0..MaxRestarts

LEMMA RecentIsBounded ==
    ASSUME RecordInv, NEW o \in RecentOutcomes, recent' = PushBounded(recent, MaxRecent, o)
    PROVE  recent' \in Seq(RecentOutcomes) /\ Len(recent') <= MaxRecent
<1>1. Pushed(PushBounded(recent, MaxRecent, o), RecentOutcomes, recent, MaxRecent, o)
  <2>1. recent \in Seq(RecentOutcomes) /\ Len(recent) <= MaxRecent /\ MaxRecent \in Nat \ {0}
    BY DEF RecordInv
  <2>2. QED BY <2>1, PushIsBounded
<1>2. QED BY <1>1 DEF Pushed

LEMMA StepRecordInv == FlightInv /\ RecordInv /\ [Next]_vars => RecordInv'
<1> SUFFICES ASSUME FlightInv, RecordInv, [Next]_vars PROVE RecordInv'
  OBVIOUS
<1>a. ASSUME UNCHANGED <<failure, recent, cancelled, restarts>> PROVE RecordInv'
  BY <1>a DEF RecordInv
<1>b. ASSUME NEW o \in RecentOutcomes, recent' = PushBounded(recent, MaxRecent, o),
             failure' \in Codes, UNCHANGED <<cancelled, restarts>>
      PROVE  RecordInv'
  BY <1>b, RecentIsBounded DEF RecordInv
<1>c. ASSUME failure' \in Codes, UNCHANGED <<recent, cancelled, restarts>> PROVE RecordInv'
  BY <1>c DEF RecordInv
<1> USE DEF inner, work
<1>1. ASSUME NEW c \in Clients, NEW r \in Requests, Arrive(c, r) PROVE RecordInv'
  BY <1>a, <1>1 DEF Arrive
<1>2. CASE Enter BY <1>a, <1>2 DEF Enter
<1>3. CASE Replay BY <1>a, <1>3 DEF Replay
<1>4. CASE RefuseUntilRecovered \/ RefuseInvalid \/ Status \/ Show
  BY <1>a, <1>4 DEF RefuseUntilRecovered, RefuseInvalid, Status, Show
<1>5. CASE SubmitCheck BY <1>a, <1>5 DEF SubmitCheck
<1>6. CASE SubmitRejected BY <1>a, <1>6 DEF SubmitRejected
<1>7. CASE SubmitBegin BY <1>c, <1>7 DEF SubmitBegin, Codes
<1>8. CASE Cancel
  <2>1. active.kind = "working" => active.job \in JobNumbers BY ActiveIsWorking
  <2>2. QED BY <1>8, <2>1 DEF Cancel, RecordInv
<1>9. CASE ApplyClaim BY <1>a, <1>9 DEF ApplyClaim
<1>10. CASE ApplyOk BY <1>b, <1>10 DEF ApplyOk, Retire, Codes, RecentOutcomes
<1>11. CASE ApplyRefused BY <1>c, <1>11 DEF ApplyRefused, Failed, Codes
<1>12. CASE ApplyBroke BY <1>c, <1>12 DEF ApplyBroke, Failed, Codes
<1>13. CASE Dismiss
  <2>1. CASE UNCHANGED <<failure, recent>> BY <1>a, <1>13, <2>1 DEF Dismiss
  <2>2. CASE Retire(Request.arg, "dismissed")
    BY <1>b, <1>13, <2>2 DEF Dismiss, Retire, Codes, RecentOutcomes
  <2>3. QED BY <1>13, <2>1, <2>2 DEF Dismiss, Take
<1>14. ASSUME NEW j \in jobs, JobStep(j) PROVE RecordInv'
  <2>1. UNCHANGED <<cancelled, restarts>> BY <1>14 DEF JobStep
  <2>2. ASSUME NEW e \in ExecutorErrors \cup CoreErrors, FinishErr(j, e) PROVE RecordInv'
    <3>1. CodeOf(e) \in Codes /\ OutcomeOf(e) \in RecentOutcomes
      BY DEF CodeOf, OutcomeOf, StateOf, ExecutorErrors, CoreErrors, Codes, RecentOutcomes
    <3>2. CASE IsActive(j) BY <1>b, <2>1, <2>2, <3>1, <3>2 DEF FinishErr, Failed
    <3>3. CASE ~IsActive(j) BY <1>a, <2>1, <2>2, <3>3 DEF FinishErr
    <3>4. QED BY <3>2, <3>3
  <2>3. \/ UNCHANGED <<failure, recent>>
        \/ failure' \in Codes /\ UNCHANGED recent
        \/ \E e \in ExecutorErrors \cup CoreErrors : FinishErr(j, e)
    <3>1. CASE JobStart(j) BY <3>1 DEF JobStart, ExecutorErrors
    <3>2. CASE JobRun(j) BY <3>2 DEF JobRun, FailAttempt
    <3>3. CASE JobValidate(j) BY <3>3 DEF JobValidate, FinishOk, FailAttempt, Codes
    <3>4. QED BY <1>14, <3>1, <3>2, <3>3 DEF JobStep
  <2>4. QED BY <1>a, <1>c, <2>1, <2>2, <2>3
<1>15. CASE Restart BY <1>15 DEF Restart, RecordInv, Codes
<1>16. CASE UNCHANGED vars BY <1>a, <1>16 DEF vars
<1> QED
  BY <1>1, <1>2, <1>3, <1>4, <1>5, <1>6, <1>7, <1>8, <1>9, <1>10, <1>11, <1>12, <1>13,
     <1>14, <1>15, <1>16
  DEF Next, Handler, Job

-----------------------------------------------------------------------------
(* The inductive invariant and what follows from it.                       *)

IInv == ConnInv /\ FlightInv /\ CacheInv /\ ToldInv /\ RanInv /\ RecordInv

LEMMA InitIInv == Init => IInv
<1> SUFFICES ASSUME Init PROVE IInv
  OBVIOUS
<1> USE DEF Init
<1>1. ConnInv BY DEF ConnInv
<1>2. FlightInv BY ActiveShapes DEF FlightInv, IdleState, States
<1>3. CacheInv BY DEF CacheInv
<1>4. ToldInv BY DEF ToldInv
<1>5. RanInv BY ActiveShapes DEF RanInv
<1>6. RecordInv BY DEF RecordInv, Codes
<1>7. QED BY <1>1, <1>2, <1>3, <1>4, <1>5, <1>6 DEF IInv

LEMMA StepIInv == IInv /\ [Next]_vars => IInv'
BY StepConnInv, StepFlightInv, StepCacheInv, StepToldInv, StepRanInv, StepRecordInv
DEF IInv

\* The gate, the job, the cache, the ended proposals and what clients were told
\* of them always fit each other.
THEOREM IInvHolds == Spec => []IInv
BY InitIInv, StepIInv, PTL DEF Spec

LEMMA IInvImpliesTypeOK == IInv => TypeOK
<1> SUFFICES ASSUME IInv PROVE TypeOK
  OBVIOUS
<1>1. sequence \in 0..MaxJobs BY DEF IInv, FlightInv
<1>2. QED BY <1>1 DEF IInv, ConnInv, FlightInv, CacheInv, ToldInv, RanInv, RecordInv, TypeOK

\* The service's state has the declared types, and its caches their limits.
THEOREM TypeCorrect == Spec => []TypeOK
BY IInvHolds, IInvImpliesTypeOK, PTL

LEMMA IInvImpliesSingleFlight == IInv => SingleFlight
<1> SUFFICES ASSUME IInv PROVE SingleFlight
  OBVIOUS
<1> USE DEF IInv, FlightInv
<1>1. Cardinality(jobs) <= 1
  <2>1. CASE jobs = {} BY <2>1, FS_EmptySet
  <2>2. CASE jobs # {}
    <3>1. PICK j \in jobs : jobs = {j} BY <2>2
    <3>2. Cardinality({j}) = 1 BY FS_Singleton
    <3>3. QED BY <3>1, <3>2
  <2>3. QED BY <2>1, <2>2
<1>2. active.kind = "working" => \E j \in jobs : IsActive(j)
  BY ActiveIsWorking DEF IsActive
<1>3. QED BY <1>1, <1>2 DEF SingleFlight

\* ADR 0001's single flight: a second investigation never starts, and none runs beside
\* a proposal or an Apply.
THEOREM OneFlight == Spec => []SingleFlight
BY IInvHolds, IInvImpliesSingleFlight, PTL

LEMMA IInvImpliesApplied == IInv => AppliedAtMostOnce /\ AppliedIsTrue
BY DEF IInv, RanInv, AppliedAtMostOnce, AppliedIsTrue

\* However requests are repeated, evicted or sent after a restart, no proposal reaches
\* the engine twice, and a dismissed one never.
THEOREM AppliedOnce == Spec => []AppliedAtMostOnce
BY IInvHolds, IInvImpliesApplied, PTL

\* Who is told that a proposal is applied finds it in the tree.
THEOREM ToldIsTrue == Spec => []AppliedIsTrue
BY IInvHolds, IInvImpliesApplied, PTL

LEMMA IInvImpliesBeginsOnce == IInv => ResentSubmitBeginsOnce
BY DEF IInv, CacheInv, ResentSubmitBeginsOnce

\* A Submit that is sent again while its answer is cached begins no second job.
THEOREM ResentSubmit == Spec => []ResentSubmitBeginsOnce
BY IInvHolds, IInvImpliesBeginsOnce, PTL

-----------------------------------------------------------------------------
(* The service its clients see.                                            *)

Shown(st) == CASE st \in {"invalid", "error", "runtime_missing"} -> "error"
               [] st = "applying" -> "ready"
               [] OTHER -> st
View(st, job, id) == [up |-> TRUE, state |-> st, job |-> job, current |-> id]

\* Visible, for each shape of the active record; stated for this state and the next.
LEMMA VisibleIs ==
    /\ active = NoActive => Visible = View(Shown(state), FALSE, 0)
    /\ \A j : active = WorkingOn(j) => Visible = View(Shown(state), TRUE, 0)
    /\ \A p, j : active = ReadyWith(p, j) => Visible = View(Shown(state), FALSE, p)
    /\ active' = NoActive => Visible' = View(Shown(state'), FALSE, 0)
    /\ \A j : active' = WorkingOn(j) => Visible' = View(Shown(state'), TRUE, 0)
    /\ \A p, j : active' = ReadyWith(p, j) => Visible' = View(Shown(state'), FALSE, p)
<1> USE ActiveShapes DEF Visible, View, Shown
<1>1. active = NoActive => Visible = View(Shown(state), FALSE, 0)
  <2>1. active = NoActive => (active.kind = "working") = FALSE /\ active.kind # "ready" OBVIOUS
  <2>2. QED BY <2>1
<1>2. \A j : active = WorkingOn(j) => Visible = View(Shown(state), TRUE, 0)
  <2>1. active.kind = "working" => Visible = View(Shown(state), TRUE, 0)
    <3>1. active.kind # "ready" => Visible = View(Shown(state), active.kind = "working", 0)
      OBVIOUS
    <3>2. active.kind = "working" => (active.kind = "working") = TRUE OBVIOUS
    <3>3. active.kind = "working" => active.kind # "ready" OBVIOUS
    <3>4. QED BY ONLY <3>1, <3>2, <3>3, Zenon
  <2>2. QED BY <2>1, ActiveShapes, Zenon
<1>3. \A p, j : active = ReadyWith(p, j) => Visible = View(Shown(state), FALSE, p)
  <2>1. active.kind = "ready" => Visible = View(Shown(state), FALSE, active.proposal)
    <3>1. active.kind = "ready" =>
            Visible = View(Shown(state), active.kind = "working", active.proposal)
      OBVIOUS
    <3>2. active.kind = "ready" => (active.kind = "working") = FALSE OBVIOUS
    <3>3. QED BY ONLY <3>1, <3>2, Zenon
  <2>2. \A p, j : active = ReadyWith(p, j) => active.kind = "ready" /\ active.proposal = p
    OBVIOUS
  <2>3. QED BY ONLY <2>1, <2>2, Zenon
<1>4. active' = NoActive => Visible' = View(Shown(state'), FALSE, 0)
  <2>1. active' = NoActive => (active'.kind = "working") = FALSE /\ active'.kind # "ready" OBVIOUS
  <2>2. QED BY <2>1
<1>5. \A j : active' = WorkingOn(j) => Visible' = View(Shown(state'), TRUE, 0)
  <2>1. active'.kind = "working" => Visible' = View(Shown(state'), TRUE, 0)
    <3>1. active'.kind # "ready" => Visible' = View(Shown(state'), active'.kind = "working", 0)
      OBVIOUS
    <3>2. active'.kind = "working" => (active'.kind = "working") = TRUE OBVIOUS
    <3>3. active'.kind = "working" => active'.kind # "ready" OBVIOUS
    <3>4. QED BY ONLY <3>1, <3>2, <3>3, Zenon
  <2>2. QED BY <2>1, ActiveShapes, Zenon
<1>6. \A p, j : active' = ReadyWith(p, j) => Visible' = View(Shown(state'), FALSE, p)
  <2>1. active'.kind = "ready" => Visible' = View(Shown(state'), FALSE, active'.proposal)
    <3>1. active'.kind = "ready" =>
            Visible' = View(Shown(state'), active'.kind = "working", active'.proposal)
      OBVIOUS
    <3>2. active'.kind = "ready" => (active'.kind = "working") = FALSE OBVIOUS
    <3>3. QED BY ONLY <3>1, <3>2, Zenon
  <2>2. \A p, j : active' = ReadyWith(p, j) => active'.kind = "ready" /\ active'.proposal = p
    OBVIOUS
  <2>3. QED BY ONLY <2>1, <2>2, Zenon
<1>7. QED BY <1>1, <1>2, <1>3, <1>4, <1>5, <1>6

LEMMA ActiveIsReady ==
    ASSUME FlightInv, active.kind = "ready"
    PROVE  Visible = View("ready", FALSE, active.proposal)
<1>1. PICK p \in Proposals, j \in JobNumbers : active = ReadyWith(p, j)
  BY ActiveShapes DEF FlightInv
<1>2. Shown(state) = "ready" BY DEF FlightInv, Shown
<1>3. QED BY <1>1, <1>2, VisibleIs, ActiveShapes

\* PanelService's service gets a new state, job and proposal.
LEMMA BecomeIs ==
    ASSUME Visible.up = TRUE,
           NEW st, NEW job, NEW id, Visible' = View(st, job, id)
    PROVE  Seen!Become(st, job, id)
BY DEF Seen!Become, View

LEMMA VisibleIsUp == Visible.up = TRUE
BY DEF Visible

\* A request but status, served.
LEMMA ServedIs ==
    ASSUME NEW m \in Seen!Calls, NEW kind \in Seen!Replies, Seen!Dispatch(m, kind),
           sequence' = sequence
    PROVE  Seen!ServiceNext
BY DEF Seen!ServiceNext, Seen!Serve

\* Every step is one of PanelService's, or one it does not see.
LEMMA StepIsSeen ==
    ASSUME IInv, [Next]_vars, IInv'
    PROVE  [Seen!ServiceNext]_(Seen!daemon)
<1> USE DEF IInv
<1>a. ASSUME UNCHANGED <<state, active, sequence>> PROVE UNCHANGED Seen!daemon
  BY <1>a DEF Visible, Seen!daemon
<1>b. ASSUME NEW p \in Proposals, active.kind = "ready", active.proposal = p, active' = NoActive,
             UNCHANGED sequence,
             NEW kind \in {"apply", "dismiss"},
             \/ state' = IdleState(executor)
             \/ kind = "apply" /\ state' \in {"error", "recovery_required"}
      PROVE  Seen!ServiceNext
  <2> DEFINE m == [kind |-> kind, id |-> p]
  <2>1. m \in Seen!Calls /\ m.kind = kind /\ m.id = p
    BY <1>b DEF Seen!Calls, Seen!Ids, Proposals
  <2>2. Visible = View("ready", FALSE, p) /\ Visible.state = "ready" /\ Visible.current = p
        /\ Visible.up
    BY <1>b, ActiveIsReady DEF View
  <2>3. Visible' = View(Shown(state'), FALSE, 0) BY <1>b, VisibleIs
  <2> HIDE DEF m
  <2>4. CASE state' = IdleState(executor)
    <3>1. Shown(state') \in {"idle", "error"} BY <2>4 DEF IdleState, Shown
    <3>2. Seen!Rest BY <2>2, <2>3, <3>1, BecomeIs, VisibleIsUp DEF Seen!Rest
    <3>3. Seen!Dispatch(m, IF kind = "apply" THEN "applied" ELSE "dismissed")
      BY <1>b, <2>1, <2>2, <3>2 DEF Seen!Dispatch, Seen!Apply, Seen!Dismiss
    <3>4. QED BY <1>b, <2>1, <3>3, ServedIs DEF Seen!Replies
  <2>5. CASE kind = "apply" /\ state' \in {"error", "recovery_required"}
    <3>1. Shown(state') \in {"error", "recovery_required"} BY <2>5 DEF Shown
    <3>2. \E st \in {"error", "recovery_required"} : Seen!Become(st, FALSE, 0)
      BY <2>2, <2>3, <3>1, BecomeIs, VisibleIsUp
    <3>3. Seen!Dispatch(m, "failure")
      BY <2>1, <2>2, <2>5, <3>2 DEF Seen!Dispatch, Seen!Apply
    <3>4. QED BY <1>b, <2>1, <3>3, ServedIs DEF Seen!Replies
  <2>6. QED BY <1>b, <2>4, <2>5
<1> USE DEF inner
<1>1. ASSUME NEW c \in Clients, NEW r \in Requests, Arrive(c, r) PROVE UNCHANGED Seen!daemon
  BY <1>a, <1>1 DEF Arrive
<1>2. CASE Enter BY <1>a, <1>2 DEF Enter
<1>3. CASE Replay BY <1>a, <1>3 DEF Replay
<1>4. CASE RefuseUntilRecovered \/ RefuseInvalid \/ Status \/ Show
  BY <1>a, <1>4 DEF RefuseUntilRecovered, RefuseInvalid, Status, Show
<1>5. CASE SubmitCheck BY <1>a, <1>5 DEF SubmitCheck
<1>6. CASE SubmitRejected BY <1>a, <1>6 DEF SubmitRejected
<1>7. CASE SubmitBegin
  <2> DEFINE m == [kind |-> "submit", id |-> 0]
  <2>1. m \in Seen!Calls /\ m.kind = "submit" BY DEF Seen!Calls
  <2> HIDE DEF m
  <2>2. Shown(state) \notin {"working", "ready", "recovery_required"} /\ active = NoActive
    BY <1>7, ActiveIsWorking DEF SubmitBegin, FlightInv, States, Shown
  <2>3. Visible = View(Shown(state), FALSE, 0) /\ Visible.state = Shown(state) /\ Visible.up
    BY <2>2, VisibleIs DEF View
  <2>4. Visible' = View("working", TRUE, 0)
    BY <1>7, VisibleIs DEF SubmitBegin, Shown
  <2>5. Seen!Become("working", TRUE, 0) BY <2>3, <2>4, BecomeIs, VisibleIsUp
  <2>6. Seen!Dispatch(m, "accepted")
    BY <2>1, <2>2, <2>3, <2>5 DEF Seen!Dispatch, Seen!Submit
  <2>7. QED BY <1>7, <2>1, <2>6, ServedIs DEF SubmitBegin, Seen!Replies
<1>8. CASE Cancel BY <1>a, <1>8 DEF Cancel
<1>9. CASE ApplyClaim
  <2>1. CASE UNCHANGED state BY <1>a, <1>9, <2>1 DEF ApplyClaim
  <2>2. CASE state' = "applying" /\ active.kind = "ready"
    <3>1. PICK p \in Proposals, j \in JobNumbers : active = ReadyWith(p, j)
      BY <2>2, ActiveShapes DEF FlightInv
    <3>2. Shown(state) = "ready" /\ Shown(state') = "ready" BY <2>2 DEF FlightInv, Shown
    <3>3. active' = active /\ sequence' = sequence BY <1>9 DEF ApplyClaim
    <3>4. Visible = View("ready", FALSE, p) BY <3>1, <3>2, VisibleIs
    <3>5. Visible' = View("ready", FALSE, p) BY <3>1, <3>2, <3>3, VisibleIs
    <3>6. QED BY <3>3, <3>4, <3>5 DEF Seen!daemon
  <2>3. QED BY <1>9, <2>1, <2>2 DEF ApplyClaim
<1>10. CASE ApplyOk
  BY <1>10, <1>b, ActiveIsWorking DEF ApplyOk, Retire, FlightInv
<1>11. CASE ApplyRefused
  BY <1>11, <1>b, ActiveIsWorking DEF ApplyRefused, Failed, FlightInv
<1>12. CASE ApplyBroke
  BY <1>12, <1>b, ActiveIsWorking DEF ApplyBroke, Failed, FlightInv
<1>13. CASE Dismiss
  <2>1. CASE UNCHANGED <<state, active>> BY <1>a, <1>13, <2>1 DEF Dismiss
  <2>2. CASE Retire(Request.arg, "dismissed") /\ active.kind = "ready"
             /\ active.proposal = Request.arg
    BY <1>13, <1>b, <2>2, ActiveIsWorking DEF Dismiss, Retire
  <2>3. CASE active.kind = "working" /\ active' = NoActive /\ UNCHANGED state
    <3> DEFINE m == [kind |-> "dismiss", id |-> 1]
    <3>1. MaxJobs >= 1 BY <2>3, ActiveIsWorking DEF JobNumbers
    <3>2. m \in Seen!Calls /\ m.kind = "dismiss" /\ m.id = 1 /\ m.id # 0
      BY <3>1 DEF Seen!Calls, Seen!Ids
    <3> HIDE DEF m
    <3>3. state = "working" /\ Shown("working") = "working" BY <2>3 DEF FlightInv, Shown
    <3>4. Visible = View("working", TRUE, 0) /\ Visible.up /\ Visible.state = "working"
          /\ Visible.current = 0
      BY <2>3, <3>3, ActiveIsWorking, VisibleIs DEF View
    <3>5. Visible' = View("working", FALSE, 0) BY <2>3, <3>3, VisibleIs
    <3>6. Seen!Become(Visible.state, FALSE, Visible.current)
      BY <3>4, <3>5, BecomeIs, VisibleIsUp
    <3>7. Seen!Dismiss(m, "failure")
      <4>1. Visible.current # m.id BY <3>2, <3>4
      <4>2. QED BY <3>6, <4>1, Zenon DEF Seen!Dismiss
    <3>8. Seen!Dispatch(m, "failure") BY <3>2, <3>4, <3>7 DEF Seen!Dispatch
    <3>9. QED BY <1>13, <3>2, <3>8, ServedIs DEF Dismiss, Seen!Replies
  <2>4. active.kind = "none" => active = NoActive BY ActiveIsWorking
  <2>5. QED BY <1>13, <2>1, <2>2, <2>3, <2>4, ActiveIsWorking DEF Dismiss, Take
<1>14. ASSUME NEW j \in jobs, JobStep(j) PROVE [Seen!ServiceNext]_(Seen!daemon)
  <2>1. \/ UNCHANGED <<state, active, sequence>>
        \/ /\ IsActive(j) /\ active' = NoActive /\ UNCHANGED sequence
           /\ state' \in {"idle", "invalid", "runtime_missing", "error"}
        \/ /\ IsActive(j) /\ sequence' = sequence + 1 /\ state' = "ready"
           /\ active' = ReadyWith(sequence + 1, j.number)
    BY <1>14 DEF JobStep, JobStart, JobRun, JobValidate, FinishOk, FinishErr, FailAttempt,
       Failed, StateOf, ExecutorErrors, CoreErrors
  <2>2. IsActive(j) => Visible = View(Shown(state), TRUE, 0) /\ Visible.job
    BY VisibleIs DEF IsActive, View
  <2>3. CASE /\ IsActive(j) /\ active' = NoActive /\ UNCHANGED sequence
             /\ state' \in {"idle", "invalid", "runtime_missing", "error"}
    <3>1. Visible' = View(Shown(state'), FALSE, 0) BY <2>3, VisibleIs
    <3>2. Shown(state') \in {"idle", "error"} BY <2>3 DEF Shown
    <3>3. Seen!JobEnds BY <2>2, <2>3, <3>1, <3>2, BecomeIs, VisibleIsUp DEF Seen!JobEnds, Seen!Rest
    <3>4. QED BY <3>3 DEF Seen!ServiceNext
  <2>4. CASE /\ IsActive(j) /\ sequence' = sequence + 1 /\ state' = "ready"
             /\ active' = ReadyWith(sequence + 1, j.number)
    <3>1. Visible' = View("ready", FALSE, sequence + 1)
      BY <2>4, VisibleIs DEF Shown
    <3>2. sequence < MaxJobs BY <1>14 DEF FlightInv
    <3>3. Seen!JobEnds BY <2>2, <2>4, <3>1, <3>2, BecomeIs, VisibleIsUp DEF Seen!JobEnds
    <3>4. QED BY <3>3 DEF Seen!ServiceNext
  <2>5. QED BY <1>a, <2>1, <2>3, <2>4
<1>15. CASE Restart
  <2>1. Visible' = View(Shown(state'), FALSE, 0)
    BY <1>15, VisibleIs DEF Restart
  <2>2. Shown(state') \in {"idle", "error", "recovery_required"}
    BY <1>15 DEF Restart, IdleState, Shown
  <2>3. QED BY <1>15, <2>1, <2>2 DEF Restart, Seen!ServiceNext, Seen!Start, Seen!Fresh, Seen!At, View
<1>16. CASE UNCHANGED vars BY <1>a, <1>16 DEF vars
<1> QED
  BY <1>1, <1>2, <1>3, <1>4, <1>5, <1>6, <1>7, <1>8, <1>9, <1>10, <1>11, <1>12, <1>13,
     <1>14, <1>15, <1>16
  DEF Next, Handler, Job

LEMMA InitIsSeen == Init => Seen!ServiceInit
<1> SUFFICES ASSUME Init PROVE Seen!ServiceInit
  OBVIOUS
<1>1. Visible = [up |-> TRUE, state |-> IF executor THEN "idle" ELSE "error",
                 job |-> FALSE, current |-> 0]
  BY ActiveShapes DEF Init, IdleState, Visible
<1>2. QED BY <1>1 DEF Init, Seen!ServiceInit, Seen!At

\* The gate, the cache, the job's stages and Apply's two steps make no service but the
\* one PanelService describes.
THEOREM ServesThePanel == Spec => IsPanelService
<1>1. IInv /\ IInv' /\ [Next]_vars => [Seen!ServiceNext]_(Seen!daemon) BY StepIsSeen
<1>2. QED BY InitIsSeen, IInvHolds, <1>1, PTL DEF Spec, IsPanelService, Seen!ServiceSpec
-----------------------------------------------------------------------------
(* Progress: how near the gate and the job have come to their ends.        *)

\* Who waits for an answer holds the gate or queues at it: nobody is forgotten.
Waits(c) == client[c] # Idle
Position(q, x) == CHOOSE k \in 1..Len(q) : q[k] = x
Place(c) == Position(gate, c)
QueueInv ==
    \A c \in Clients : Waits(c) => holder = c \/ \E k \in 1..Len(gate) : gate[k] = c

\* The steps of the handler until c is answered: at most three for each request, to
\* enter, to dispatch and to end what was dispatched.
StepsLeft == [free |-> 0, dispatch |-> 2, begin |-> 1, publish |-> 1]
Turn(c) == StepsLeft[step] + (IF holder = c THEN 0 ELSE 3 * Place(c))

\* Whatever others send, a job does or the engine answers, every step of the handler
\* brings every waiting client nearer to its answer, and no step takes it back.
NobodyIsOvertaken ==
    [][\A c \in Clients : Waits(c) /\ Waits(c)' =>
         IF Handler THEN Turn(c)' \in 0..(Turn(c) - 1) ELSE Turn(c)' = Turn(c)]_vars

\* The steps of an investigation: three for each of its two attempts.
JobWork(j) ==
    (IF j.effort = "low" THEN 3 ELSE 0)
        + [start |-> 3, running |-> 2, validating |-> 1][j.stage]

\* A job is one that was there, or that job a step nearer to its end, or a new one
\* under a number of its own, begun when there was none.
JobsOnlyAdvance ==
    [][\A k \in jobs' :
         \/ k \in jobs
         \/ \E j \in jobs :
              JobStep(j) /\ k.number = j.number /\ JobWork(k) \in 1..(JobWork(j) - 1)
         \/ jobs = {} /\ k.number = spawned' /\ spawned' = spawned + 1]_vars

LEMMA PositionIs ==
    ASSUME NEW q, NEW x, NEW k \in 1..Len(q), q[k] = x,
           \A i, m \in 1..Len(q) : q[i] = q[m] => i = m
    PROVE  Position(q, x) = k
BY DEF Position

LEMMA PlaceIs ==
    ASSUME ConnInv, QueueInv, NEW c \in Clients, Waits(c), holder # c
    PROVE  Place(c) \in 1..Len(gate) /\ gate[Place(c)] = c
<1>1. PICK k \in 1..Len(gate) : gate[k] = c BY DEF QueueInv
<1>2. Place(c) = k BY <1>1, PositionIs DEF Place, ConnInv
<1> QED BY <1>1, <1>2

\* The handler enters, answers, or goes on to the second part of a request.
LEMMA HandlerSteps ==
    ASSUME Handler
    PROVE  Enter \/ (step # "free" /\ Release) \/ Hold("begin") \/ Hold("publish")
<1> USE DEF Dispatching, Answer, Uncached, Hold
<1>1. CASE Enter BY <1>1
<1>2. CASE Replay BY <1>2 DEF Replay
<1>3. CASE RefuseUntilRecovered \/ RefuseInvalid \/ Status \/ Show
  BY <1>3 DEF RefuseUntilRecovered, RefuseInvalid, Status, Show
<1>4. CASE SubmitCheck BY <1>4 DEF SubmitCheck
<1>5. CASE SubmitRejected \/ SubmitBegin BY <1>5 DEF SubmitRejected, SubmitBegin
<1>6. CASE Cancel BY <1>6 DEF Cancel
<1>7. CASE ApplyClaim BY <1>7 DEF ApplyClaim
<1>8. CASE ApplyOk \/ ApplyRefused \/ ApplyBroke BY <1>8 DEF ApplyOk, ApplyRefused, ApplyBroke
<1>9. CASE Dismiss BY <1>9 DEF Dismiss, Take
<1> QED
  BY <1>1, <1>2, <1>3, <1>4, <1>5, <1>6, <1>7, <1>8, <1>9 DEF Handler

LEMMA StepQueueInv == ConnInv /\ QueueInv /\ [Next]_vars => QueueInv'
<1> SUFFICES ASSUME ConnInv, QueueInv, ConnectionStep, NEW c \in Clients, Waits(c)'
             PROVE  holder' = c \/ \E k \in 1..Len(gate') : gate'[k] = c
  BY NextIsConnectionStep DEF QueueInv
<1> USE DEF Waits
<1>1. ASSUME NEW d \in Clients, NEW r \in Requests, Arrive(d, r)
      PROVE  holder' = c \/ \E k \in 1..Len(gate') : gate'[k] = c
  <2>1. /\ Len(gate') = Len(gate) + 1 /\ gate'[Len(gate) + 1] = d
        /\ \A k \in 1..Len(gate) : gate'[k] = gate[k]
        /\ Len(gate) \in Nat
    BY <1>1 DEF Arrive, ConnInv
  <2>2. CASE c = d
    <3>1. Len(gate) + 1 \in 1..Len(gate') BY <2>1
    <3> QED BY <2>1, <2>2, <3>1
  <2>3. CASE c # d
    <3>1. client[c] # Idle BY <1>1, <2>3 DEF Arrive, ConnInv
    <3>2. CASE holder = c BY <1>1, <3>2 DEF Arrive
    <3>3. CASE \E k \in 1..Len(gate) : gate[k] = c
      <4>1. PICK k \in 1..Len(gate) : gate[k] = c BY <3>3
      <4>2. k \in 1..Len(gate') BY <2>1
      <4> QED BY <2>1, <4>1, <4>2
    <3> QED BY <3>1, <3>2, <3>3 DEF QueueInv
  <2> QED BY <2>2, <2>3
<1>2. CASE Enter
  <2>1. /\ Len(gate') = Len(gate) - 1 /\ Len(gate) \in Nat /\ Len(gate) > 0
        /\ holder' = gate[1] /\ \A k \in 1..Len(gate') : gate'[k] = gate[k + 1]
    BY <1>2, HeadTailProperties DEF Enter, ConnInv
  <2>2. client[c] # Idle /\ holder # c BY <1>2 DEF Enter
  <2>3. PICK k \in 1..Len(gate) : gate[k] = c BY <2>2 DEF QueueInv
  <2>4. CASE k = 1 BY <2>1, <2>3, <2>4
  <2>5. CASE k # 1
    <3>1. k - 1 \in 1..Len(gate') /\ gate'[k - 1] = gate[k] BY <2>1, <2>5
    <3> QED BY <2>3, <3>1
  <2> QED BY <2>4, <2>5
<1>3. CASE step # "free" /\ Release
  <2>1. c # holder /\ client[c] # Idle BY <1>3, RequestIsSent DEF Release, ConnInv
  <2> QED BY <1>3, <2>1 DEF Release, QueueInv
<1>4. CASE Hold("begin") \/ Hold("publish") BY <1>4 DEF Hold, QueueInv
<1>5. CASE UNCHANGED connection BY <1>5 DEF connection, QueueInv
<1>6. CASE Reset BY <1>6 DEF Reset
<1> QED BY <1>1, <1>2, <1>3, <1>4, <1>5, <1>6 DEF ConnectionStep

\* At the gate a waiting client moves up, and at the answer of another one too.
LEMMA HandlerNears ==
    ASSUME ConnInv, QueueInv, Handler, NEW c \in Clients, Waits(c), Waits(c)'
    PROVE  Turn(c)' \in 0..(Turn(c) - 1)
<1> USE DEF Turn, StepsLeft
<1>1. CASE Enter
  <2>1. /\ gate \in Seq(Clients) /\ Len(gate) \in Nat /\ Len(gate) > 0
        /\ Len(gate') = Len(gate) - 1
        /\ holder' = gate[1] /\ \A k \in 1..Len(gate') : gate'[k] = gate[k + 1]
    BY <1>1, HeadTailProperties DEF Enter, ConnInv
  <2>2. holder # c /\ step = "free" /\ step' = "dispatch"
    BY <1>1 DEF Enter, ConnInv
  <2>3. Place(c) \in 1..Len(gate) /\ gate[Place(c)] = c BY <2>2, PlaceIs
  <2>4. Turn(c) = 3 * Place(c) BY <2>2, <2>3
  <2>5. CASE Place(c) = 1
    <3>1. holder' = c BY <2>1, <2>3, <2>5
    <3>2. Turn(c)' = 2 BY <2>2, <3>1
    <3> QED BY <2>4, <2>5, <3>2
  <2>6. CASE Place(c) # 1
    <3> DEFINE k == Place(c) - 1
    <3>1. k \in 1..Len(gate') /\ gate'[k] = c BY <2>1, <2>3, <2>6
    <3>2. \A i, m \in 1..Len(gate') : gate'[i] = gate'[m] => i = m
      BY <2>1 DEF ConnInv
    <3>3. Place(c)' = k BY <3>1, <3>2, PositionIs DEF Place
    <3>4. holder' # c BY <2>1, <2>3, <2>6 DEF ConnInv
    <3>5. Turn(c)' = 2 + 3 * k BY <2>2, <3>1, <3>3, <3>4
    <3> QED BY <2>3, <2>4, <2>6, <3>5
  <2> QED BY <2>5, <2>6
<1>2. CASE step # "free" /\ Release
  <2>1. c # holder BY <1>2, RequestIsSent DEF Release, ConnInv, Waits
  <2>2. holder' # c /\ Place(c)' = Place(c) /\ step' = "free" /\ StepsLeft[step] \in 1..2
    BY <1>2 DEF Release, Place, ConnInv
  <2>3. Place(c) \in Nat BY <2>1, PlaceIs DEF ConnInv
  <2> QED BY <2>1, <2>2, <2>3
<1>3. CASE Hold("begin") \/ Hold("publish")
  <2>1. Place(c)' = Place(c) /\ holder' = holder /\ step = "dispatch"
        /\ step' \in {"begin", "publish"}
    BY <1>3 DEF Hold, Place
  <2>2. holder # c => Place(c) \in Nat BY PlaceIs DEF ConnInv
  <2> QED BY <2>1, <2>2
<1> QED BY <1>1, <1>2, <1>3, HandlerSteps

\* An arrival is behind everybody; a job is at no gate; a restart answers all.
LEMMA OthersKeepTurns ==
    ASSUME ConnInv, QueueInv, [Next]_vars, ~Handler,
           NEW c \in Clients, Waits(c), Waits(c)'
    PROVE  Turn(c)' = Turn(c)
<1>1. ASSUME NEW d \in Clients, NEW r \in Requests, Arrive(d, r)
      PROVE  Turn(c)' = Turn(c)
  <2>1. /\ Len(gate') = Len(gate) + 1 /\ gate'[Len(gate) + 1] = d
        /\ \A k \in 1..Len(gate) : gate'[k] = gate[k]
        /\ Len(gate) \in Nat
    BY <1>1 DEF Arrive, ConnInv
  <2>2. holder' = holder /\ step' = step /\ client[d] = Idle BY <1>1 DEF Arrive
  <2>3. CASE holder = c BY <2>2, <2>3 DEF Turn
  <2>4. CASE holder # c
    <3>1. Place(c) \in 1..Len(gate) /\ gate[Place(c)] = c BY <2>4, PlaceIs
    <3>2. Place(c) \in 1..Len(gate') /\ gate'[Place(c)] = c BY <2>1, <3>1
    <3>3. \A k \in 1..Len(gate) : gate[k] # d BY <2>2 DEF ConnInv
    <3>4. \A i, m \in 1..Len(gate') : gate'[i] = gate'[m] => i = m
      BY <2>1, <3>3 DEF ConnInv
    <3>5. Place(c)' = Place(c) BY <3>2, <3>4, PositionIs DEF Place
    <3> QED BY <2>2, <3>5 DEF Turn
  <2> QED BY <2>3, <2>4
<1>2. CASE UNCHANGED connection BY <1>2 DEF connection, Turn, Place
<1>3. CASE Restart BY <1>3 DEF Restart, Waits
<1>4. CASE Job \/ UNCHANGED vars BY <1>2, <1>4 DEF Job, JobStep, vars, connection
<1> QED BY <1>1, <1>3, <1>4 DEF Next

LEMMA QueueInvHolds == Spec => [](ConnInv /\ QueueInv)
<1>1. Init => QueueInv BY DEF Init, QueueInv, Waits
<1>2. IInv => ConnInv BY DEF IInv
<1> QED BY <1>1, <1>2, IInvHolds, StepQueueInv, PTL DEF Spec

\* The gate is fair for any number of clients and requests: each step of the handler
\* is a step towards the answer of everyone who waits, which is what
\* EveryRequestAnswered needs beside a handler that is scheduled.
THEOREM GateIsFair == Spec => NobodyIsOvertaken
<1>1. ConnInv /\ QueueInv /\ [Next]_vars =>
        [\A c \in Clients : Waits(c) /\ Waits(c)' =>
           IF Handler THEN Turn(c)' \in 0..(Turn(c) - 1) ELSE Turn(c)' = Turn(c)]_vars
  BY HandlerNears, OthersKeepTurns
<1> QED BY <1>1, QueueInvHolds, PTL DEF Spec, NobodyIsOvertaken

\* What one step makes of a job.
LEMMA JobAdvances ==
    ASSUME FlightInv, NEW j \in jobs, JobStep(j), NEW k \in jobs'
    PROVE  k.number = j.number /\ JobWork(k) \in 1..(JobWork(j) - 1)
<1>0. /\ jobs = {j} /\ j \in [number : JobNumbers, effort : Efforts, stage : Stages]
  BY DEF FlightInv
<1> USE DEF JobWork, Efforts, Stages
<1>1. ASSUME NEW st \in Stages, jobs' = {[j EXCEPT !.stage = st]},
             \/ j.stage = "start" /\ st = "running"
             \/ j.stage = "running" /\ st = "validating"
      PROVE  k.number = j.number /\ JobWork(k) \in 1..(JobWork(j) - 1)
  <2>1. k.number = j.number /\ k.effort = j.effort /\ k.stage = st BY <1>0, <1>1
  <2> QED BY <1>0, <1>1, <2>1
<1>2. ASSUME NEW e, FailAttempt(j, e)
      PROVE  k.number = j.number /\ JobWork(k) \in 1..(JobWork(j) - 1)
  <2>1. CASE j.effort = "low" /\ e \in RetryableLow
    <3>1. k = [j EXCEPT !.effort = "medium", !.stage = "start"]
      BY <1>0, <1>2, <2>1 DEF FailAttempt
    <3>2. k.number = j.number /\ k.effort = "medium" /\ k.stage = "start"
      BY <1>0, <3>1
    <3> QED BY <1>0, <2>1, <3>2
  <2>2. CASE ~(j.effort = "low" /\ e \in RetryableLow)
    BY <1>0, <1>2, <2>2 DEF FailAttempt, FinishErr
  <2> QED BY <2>1, <2>2
<1>3. CASE JobStart(j)
  BY <1>0, <1>1, <1>3 DEF JobStart, FinishErr
<1>4. CASE JobRun(j)
  BY <1>0, <1>1, <1>2, <1>4 DEF JobRun
<1>5. CASE JobValidate(j)
  BY <1>0, <1>2, <1>5 DEF JobValidate, FinishOk
<1> QED BY <1>3, <1>4, <1>5 DEF JobStep

LEMMA OnlyJobsAdvance ==
    ASSUME FlightInv, [Next]_vars, NEW k \in jobs'
    PROVE  \/ k \in jobs
           \/ \E j \in jobs :
                JobStep(j) /\ k.number = j.number /\ JobWork(k) \in 1..(JobWork(j) - 1)
           \/ jobs = {} /\ k.number = spawned' /\ spawned' = spawned + 1
<1>1. CASE Job BY <1>1, JobAdvances DEF Job
<1>2. CASE SubmitBegin
  <2>1. jobs = {} BY <1>2 DEF SubmitBegin, FlightInv
  <2>2. k = [number |-> spawned + 1, effort |-> "low", stage |-> "start"]
    BY <1>2, <2>1 DEF SubmitBegin
  <2> QED BY <1>2, <2>1, <2>2 DEF SubmitBegin
<1>3. CASE Restart BY <1>3 DEF Restart
<1>4. CASE ~Job /\ ~SubmitBegin /\ ~Restart
  BY <1>4 DEF Next, Handler, Arrive, Enter, Replay, RefuseUntilRecovered, RefuseInvalid,
     Status, Show, SubmitCheck, SubmitRejected, Cancel, ApplyClaim, ApplyOk, ApplyRefused,
     ApplyBroke, Dismiss, work, vars
<1> QED BY <1>1, <1>2, <1>3, <1>4

\* An investigation is at most six steps long, the one retry included, and no job
\* comes back: what InvestigationEnds needs beside a job that is scheduled.
THEOREM InvestigationIsShort == Spec => JobsOnlyAdvance
<1>1. IInv /\ [Next]_vars =>
        [\A k \in jobs' :
           \/ k \in jobs
           \/ \E j \in jobs :
                JobStep(j) /\ k.number = j.number /\ JobWork(k) \in 1..(JobWork(j) - 1)
           \/ jobs = {} /\ k.number = spawned' /\ spawned' = spawned + 1]_vars
  BY OnlyJobsAdvance DEF IInv
<1> QED BY <1>1, IInvHolds, PTL DEF Spec, JobsOnlyAdvance
=============================================================================
