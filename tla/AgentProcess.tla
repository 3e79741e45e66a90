----------------------------- MODULE AgentProcess -----------------------------
(***************************************************************************)
(* One run of the agent by CodexCliExecutor::run                           *)
(* (crates/premonition-executor/src/lib.rs): the child in a process group  *)
(* of its own, two tasks that drain its pipes up to a limit, a deadline,   *)
(* and a Cancellation another task may set at any time.  probe_version,    *)
(* which asks the agent for its version when the daemon starts, is the     *)
(* same program without a prompt and without a Cancellation.               *)
(*                                                                         *)
(* The agent may start a descendant, which inherits its pipes and stays in *)
(* its process group.  Output is counted in reads.                         *)
(***************************************************************************)
EXTENDS Naturals

CONSTANTS
    Limit,      \* MAX_STDOUT_BYTES and MAX_STDERR_BYTES, in reads
    PipeSize,   \* what a pipe holds before a writer blocks
    MaxWrites,  \* bound on writes to each pipe
    Lingers     \* a descendant may keep the pipes open for ever

Streams == {"out", "err"}
ASSUME LimitAssumption == Limit \in [Streams -> Nat]
ASSUME SizeAssumption ==
    /\ PipeSize \in Nat \ {0}
    /\ MaxWrites \in Nat
    /\ Lingers \in BOOLEAN

VARIABLES
    probing,   \* this is probe_version
    runner,    \* where run() is
    verdict,   \* the error terminate_group runs for
    outcome,   \* what run() returned
    child,     \* the agent process
    status,    \* its exit status
    kin,       \* its descendant
    holding,   \* the descendant has the pipes open
    pipe,      \* what is in each pipe
    wrote,     \* history: what was written to each pipe
    got,       \* what read_bounded has kept of each
    reader,    \* where each read_bounded task is
    limits,    \* messages in the limit channel
    canceller, \* where Cancellation::cancel is
    arm,       \* where Cancellation::cancelled is, the second select arm
    timer      \* the deadline

processes == <<child, status, kin, holding>>
streams == <<pipe, wrote, got, reader, limits>>
cancellation == <<probing, canceller, arm>>
vars == <<runner, verdict, outcome, processes, streams, cancellation, timer>>

Errors == {"configuration", "spawn", "io", "cancelled", "timeout",
           "output_limit", "crash", "malformed"}

TypeOK ==
    /\ probing \in BOOLEAN
    /\ runner \in {"check", "spawn", "feed", "select", "kill", "reap", "joinOut",
                   "joinErr", "parse", "returned"}
    /\ verdict \in Errors \cup {"none"}
    /\ outcome \in Errors \cup {"none", "ok"}
    /\ child \in {"none", "running", "exited", "reaped"}
    /\ status \in {"none", "success", "failure", "killed"}
    /\ kin \in {"none", "running", "dead"}
    /\ holding \in BOOLEAN
    /\ pipe \in [Streams -> 0..PipeSize]
    /\ wrote \in [Streams -> 0..MaxWrites]
    /\ \A s \in Streams : got[s] \in 0..Limit[s]
    /\ reader \in [Streams -> {"none", "reading", "sending", "limit", "eof"}]
    /\ limits \in 0..2
    /\ canceller \in {"ready", "stored", "done"}
    /\ arm \in {"unpolled", "loaded", "registered", "woken"}
    /\ timer \in {"off", "running", "expired"}

Init ==
    /\ probing \in BOOLEAN
    /\ runner = IF probing THEN "spawn" ELSE "check"
    /\ verdict = "none"
    /\ outcome = "none"
    /\ child = "none"
    /\ status = "none"
    /\ kin = "none"
    /\ holding = FALSE
    /\ pipe = [s \in Streams |-> 0]
    /\ wrote = [s \in Streams |-> 0]
    /\ got = [s \in Streams |-> 0]
    /\ reader = [s \in Streams |-> "none"]
    /\ limits = 0
    /\ canceller = "ready"
    /\ arm = "unpolled"
    /\ timer = "off"

-----------------------------------------------------------------------------
(* run().                                                                  *)

Goto(p) == runner' = p /\ UNCHANGED <<verdict, outcome>>
Return(o) == runner' = "returned" /\ outcome' = o /\ UNCHANGED verdict

\* Cancellation::is_cancelled.
Cancelled == canceller # "ready"

\* Input, executable, schema and repository are validated, then the flag read.
Check ==
    /\ runner = "check"
    /\ \/ Return("configuration")
       \/ IF Cancelled THEN Return("cancelled") ELSE Goto("spawn")
    /\ UNCHANGED <<processes, streams, cancellation, timer>>

\* The agent and the tasks that read its pipes; a probe's deadline starts at
\* once.
Spawn ==
    /\ runner = "spawn"
    /\ \/ Return("spawn") /\ UNCHANGED <<child, reader, timer>>
       \/ /\ Goto(IF probing THEN "select" ELSE "feed")
          /\ timer' = IF probing THEN "running" ELSE timer
          /\ child' = "running"
          /\ reader' = [s \in Streams |-> "reading"]
    /\ UNCHANGED <<status, kin, holding, pipe, wrote, got, limits, cancellation>>

\* Mutant of Feed: the Child of a failed write is not killed when it is dropped.
FeedWithoutKill ==
    /\ runner = "feed"
    /\ \/ Goto("select") /\ timer' = "running"
       \/ Return("io") /\ UNCHANGED timer
    /\ UNCHANGED <<processes, streams, cancellation>>

\* The prompt is written to stdin, whose pipe has room for all of it (an input
\* is at most 32 KiB); the deadline starts after it.  If the agent
\* has closed its stdin the Child is dropped: kill_on_drop kills the agent
\* itself, not its group, and leaves the reaping to the runtime.
Feed ==
    /\ runner = "feed"
    /\ \/ Goto("select") /\ timer' = "running" /\ UNCHANGED <<child, status>>
       \/ /\ Return("io")
          /\ child' = "exited"
          /\ status' = IF child = "running" THEN "killed" ELSE status
          /\ UNCHANGED timer
    /\ UNCHANGED <<kin, holding, streams, cancellation>>

\* The select polls its arms in a random order; `cancelled` reads the flag and
\* registers its waiter within one poll, and no other arm is polled between.
Polling == runner = "select" /\ arm # "loaded"

PollCancelled ==
    /\ runner = "select"
    /\ ~probing
    /\ arm = "unpolled"
    /\ arm' = IF Cancelled THEN "woken" ELSE "loaded"
    /\ UNCHANGED <<runner, verdict, outcome, processes, streams, probing, canceller,
                   timer>>

RegisterWaiter ==
    /\ runner = "select"
    /\ arm = "loaded"
    /\ arm' = "registered"
    /\ UNCHANGED <<runner, verdict, outcome, processes, streams, probing, canceller,
                   timer>>

\* Mutant of SelectExit: the status alone decides, the output is taken as it is.
ExitUndrained ==
    /\ Polling
    /\ child = "exited"
    /\ child' = "reaped"
    /\ Goto("parse")
    /\ UNCHANGED <<status, kin, holding, streams, cancellation, timer>>

\* child.wait() reaps the agent.
SelectExit ==
    /\ Polling
    /\ child = "exited"
    /\ child' = "reaped"
    /\ Goto("joinOut")
    /\ UNCHANGED <<status, kin, holding, streams, cancellation, timer>>

\* Mutant of Ready: the select has no arm for the deadline.
ReadyButTimeout(e) ==
    \/ e = "cancelled" /\ arm = "woken"
    \/ e = "output_limit" /\ limits > 0

\* The other arms end in terminate_group and an error.
Ready(e) ==
    \/ e = "cancelled" /\ arm = "woken"
    \/ e = "timeout" /\ timer = "expired"
    \/ e = "output_limit" /\ limits > 0

SelectError ==
    /\ Polling
    /\ \E e \in Errors :
         /\ Ready(e)
         /\ verdict' = e
         /\ limits' = IF e = "output_limit" THEN limits - 1 ELSE limits
    /\ runner' = "kill"
    /\ UNCHANGED <<outcome, processes, pipe, wrote, got, reader, cancellation,
                   timer>>

EndChild == status' = IF child = "running" THEN "killed" ELSE status

\* Mutant of KillGroup: the signal goes to the agent only.
KillChild ==
    /\ runner = "kill"
    /\ Goto("reap")
    /\ child' = "exited"
    /\ EndChild
    /\ UNCHANGED <<kin, holding, streams, cancellation, timer>>

\* killpg(SIGKILL): the agent has not been reaped, so its number is its own.
KillGroup ==
    /\ runner = "kill"
    /\ Goto("reap")
    /\ child' = "exited"
    /\ EndChild
    /\ kin' = IF kin = "running" THEN "dead" ELSE kin
    /\ holding' = FALSE
    /\ UNCHANGED <<streams, cancellation, timer>>

Reap ==
    /\ runner = "reap"
    /\ child = "exited"
    /\ child' = "reaped"
    /\ Return(IF probing THEN "configuration" ELSE verdict)
    /\ UNCHANGED <<status, kin, holding, streams, cancellation, timer>>

\* The task of stream s is awaited after the agent has exited.
Join(s, p, q) ==
    /\ runner = p
    /\ \/ reader[s] = "eof" /\ Goto(q)
       \/ reader[s] = "limit" /\ Return("output_limit")
    /\ UNCHANGED <<processes, streams, cancellation, timer>>

\* The exit status, and parse_jsonl or the version's one line.
Parse ==
    /\ runner = "parse"
    /\ IF status # "success" THEN Return(IF probing THEN "configuration" ELSE "crash")
       ELSE Return("ok") \/ Return(IF probing THEN "configuration" ELSE "malformed")
    /\ UNCHANGED <<processes, streams, cancellation, timer>>

Run ==
    \/ Check \/ Spawn \/ Feed \/ PollCancelled \/ RegisterWaiter
    \/ SelectExit \/ SelectError \/ KillGroup \/ Reap
    \/ Join("out", "joinOut", "joinErr") \/ Join("err", "joinErr", "parse")
    \/ Parse

-----------------------------------------------------------------------------
(* read_bounded, one task for each pipe; it outlives a run() that returned. *)

Writers == child = "running" \/ holding

\* Mutant of Read: the limit is tested after the buffer has grown.
ReadLate(s) ==
    /\ reader[s] = "reading"
    /\ \E n \in 1..pipe[s] :
         /\ pipe' = [pipe EXCEPT ![s] = @ - n]
         /\ got' = [got EXCEPT ![s] = @ + n]
         /\ reader' = [reader EXCEPT ![s] =
                IF got[s] > Limit[s] THEN "sending" ELSE @]
    /\ UNCHANGED <<runner, verdict, outcome, processes, wrote, limits,
                   cancellation, timer>>

\* A read takes some of what is there; what would pass the limit is dropped.
Read(s) ==
    /\ reader[s] = "reading"
    /\ \E n \in 1..pipe[s] :
         /\ pipe' = [pipe EXCEPT ![s] = @ - n]
         /\ IF got[s] + n > Limit[s]
            THEN reader' = [reader EXCEPT ![s] = "sending"] /\ UNCHANGED got
            ELSE got' = [got EXCEPT ![s] = @ + n] /\ UNCHANGED reader
    /\ UNCHANGED <<runner, verdict, outcome, processes, wrote, limits,
                   cancellation, timer>>

EndOfFile(s) ==
    /\ reader[s] = "reading"
    /\ pipe[s] = 0
    /\ ~Writers
    /\ reader' = [reader EXCEPT ![s] = "eof"]
    /\ UNCHANGED <<runner, verdict, outcome, processes, pipe, wrote, got, limits,
                   cancellation, timer>>

\* The channel has room for both tasks.
SendLimit(s) ==
    /\ reader[s] = "sending"
    /\ reader' = [reader EXCEPT ![s] = "limit"]
    /\ limits' = limits + 1
    /\ UNCHANGED <<runner, verdict, outcome, processes, pipe, wrote, got,
                   cancellation, timer>>

Drain(s) == Read(s) \/ EndOfFile(s) \/ SendLimit(s)

-----------------------------------------------------------------------------
(* The agent, its descendant, the deadline and the canceller.              *)

\* Nobody can write to a pipe whose reader has gone.
Write(s) ==
    /\ Writers
    /\ reader[s] = "reading"
    /\ pipe[s] < PipeSize
    /\ wrote[s] < MaxWrites
    /\ pipe' = [pipe EXCEPT ![s] = @ + 1]
    /\ wrote' = [wrote EXCEPT ![s] = @ + 1]
    /\ UNCHANGED <<runner, verdict, outcome, processes, got, reader, limits,
                   cancellation, timer>>

ChildExits ==
    /\ child = "running"
    /\ child' = "exited"
    /\ status' \in {"success", "failure"}
    /\ UNCHANGED <<runner, verdict, outcome, kin, holding, streams, cancellation,
                   timer>>

KinStarts ==
    /\ child = "running"
    /\ kin = "none"
    /\ kin' = "running"
    /\ holding' = TRUE
    /\ UNCHANGED <<runner, verdict, outcome, child, status, streams, cancellation,
                   timer>>

\* It closes its ends of the pipes, by exiting or by redirecting them.
KinLetsGo ==
    /\ holding
    /\ holding' = FALSE
    /\ kin' \in {"running", "dead"}
    /\ UNCHANGED <<runner, verdict, outcome, child, status, streams, cancellation,
                   timer>>

Expire ==
    /\ timer = "running"
    /\ timer' = "expired"
    /\ UNCHANGED <<runner, verdict, outcome, processes, streams, cancellation>>

\* Cancellation::cancel stores the flag, then wakes the waiters there are.
CancelStore ==
    /\ canceller = "ready"
    /\ ~probing
    /\ runner # "returned"
    /\ canceller' = "stored"
    /\ UNCHANGED <<runner, verdict, outcome, processes, streams, probing, arm,
                   timer>>
CancelNotify ==
    /\ canceller = "stored"
    /\ canceller' = "done"
    /\ arm' = IF arm = "registered" THEN "woken" ELSE arm
    /\ UNCHANGED <<runner, verdict, outcome, processes, streams, probing, timer>>

Agent == ChildExits \/ KinStarts \/ \E s \in Streams : Write(s)

Returned == runner = "returned" /\ UNCHANGED vars

Next ==
    \/ Run
    \/ \E s \in Streams : Drain(s)
    \/ Agent
    \/ KinLetsGo
    \/ Expire
    \/ CancelStore
    \/ CancelNotify
    \/ Returned

Spec == Init /\ [][Next]_vars

\* The runtime polls run() and both tasks, time passes, and cancel() finishes.
\* The agent owes nothing; its descendant lets the pipes go unless it lingers.
Fairness ==
    /\ WF_vars(Run)
    /\ \A s \in Streams : WF_vars(Drain(s))
    /\ WF_vars(Expire)
    /\ WF_vars(CancelNotify)
    /\ ~Lingers => WF_vars(KinLetsGo)

FairSpec == Spec /\ Fairness

-----------------------------------------------------------------------------
\* A candidate is parsed only out of everything that was ever written, read to
\* the end of both pipes, of an agent that exited with success; a descendant's
\* late output included.
CompleteOutput ==
    outcome \in {"ok", "malformed"} =>
        /\ status = "success"
        /\ ~Writers
        /\ \A s \in Streams : reader[s] = "eof" /\ got[s] = wrote[s]

\* codex_process.rs, timeout_kills_descendants_before_they_can_write: once an arm
\* of the select has decided for a timeout, a cancellation or an overflow,
\* nothing of the agent's group runs when run() returns.  An overflow that loses
\* to the agent's exit is no such verdict: it is only met when the reader is
\* joined, and the group is not killed.
NothingOutlivesAKill ==
    runner = "returned" /\ verdict # "none" => child = "reaped" /\ kin # "running"

\* Whatever run() returns, and at whatever step it failed, the agent itself no
\* longer runs.
AgentIsGone == runner = "returned" => child # "running"

\* What run() waits for, and whether it is about to happen without the agent or
\* its descendant: the deadline of the select is armed, a killed agent can be
\* reaped, and the task of stream s has something to do or has ended.
Awaits(s) == runner = IF s = "out" THEN "joinOut" ELSE "joinErr"
Arrives(s) ==
    \/ reader[s] \in {"eof", "limit", "sending"}
    \/ reader[s] = "reading" /\ (pipe[s] > 0 \/ ~Writers)
WaitEnds ==
    /\ runner = "select" => timer # "off"
    /\ runner = "reap" => child = "exited"
    /\ \A s \in Streams : Awaits(s) => Arrives(s)

\* There is no circle of waits among run(), its tasks, the agent and the pipes,
\* also when a wake-up of the canceller is lost (lib.rs:83): whatever run() waits
\* for comes by itself, unless the agent has exited by itself and a descendant
\* that outlived it has the pipes.
OnlyKinIsAwaited ==
    WaitEnds \/ (child = "reaped" /\ verdict = "none" /\ holding /\ kin = "running")

\* README.md:26, "hard input/output/time bounds": an investigation ends;
\* and so does the probe, without which the daemon never binds its socket.
Ends == runner # "returned" ~> runner = "returned"
=============================================================================
