-------------------------------- MODULE GitRun --------------------------------
(***************************************************************************)
(* One call of GitBinary::run (crates/premonition-core/src/git.rs): git as *)
(* a child process, a thread that writes the patch to its stdin, a thread  *)
(* for each of its outputs that reads up to a ceiling, and the caller, who *)
(* polls every 5 ms for an overflow, an exit or the deadline and joins all *)
(* three threads before it returns.                                        *)
(*                                                                         *)
(* Git may start a filter of the repository's attributes, which inherits   *)
(* stderr and is not killed with it.  Input and output are counted in      *)
(* reads.                                                                  *)
(***************************************************************************)
EXTENDS Naturals

CONSTANTS
    Limit,      \* MAX_GIT_OUTPUT_BYTES, and the 64 KiB of stderr, in reads
    PipeSize,   \* what a pipe holds before a writer blocks
    MaxWrites,  \* bound on git's writes to each output
    MaxInput,   \* bound on the input
    Lingers     \* a filter may keep stderr open for ever

Outputs == {"out", "err"}

VARIABLES
    caller,  \* where run is
    reason,  \* the error the caller killed git for
    result,  \* what run returned
    git,     \* the child
    code,    \* its exit status
    filter,  \* whether a filter of git's holds stderr
    owed,    \* input the writer still has to write
    stdin,   \* what is in the pipe to git
    writer,  \* the thread that writes
    output,  \* what is in each pipe from git
    sent,    \* history: what was written to each
    kept,    \* what each reader has kept
    drain,   \* the threads that read
    events,  \* messages in the channel
    clock    \* the deadline

program == <<git, code, filter>>
input == <<owed, stdin, writer>>
outputs == <<output, sent, kept, drain, events>>
control == <<caller, reason, result>>
vars == <<control, program, input, outputs, clock>>

Errors == {"binary_changed", "spawn", "io", "timeout", "output_limit", "exit"}
Threads == {"none", "running", "ok", "failed"}

\* The type invariant; a reader never keeps more than its ceiling (git.rs:230).
TypeOK ==
    /\ caller \in {"revalidate", "spawn", "events", "status", "deadline", "kill",
                   "reap", "writer", "out", "err", "exit", "returned"}
    /\ reason \in {"none", "timeout", "output_limit"}
    /\ result \in Errors \cup {"none", "ok"}
    /\ git \in {"none", "running", "exited", "reaped"}
    /\ code \in {"none", "success", "failure", "killed"}
    /\ filter \in {"none", "holds", "gone"}
    /\ owed \in 0..MaxInput
    /\ stdin \in 0..PipeSize
    /\ writer \in Threads
    /\ output \in [Outputs -> 0..PipeSize]
    /\ sent \in [Outputs -> 0..MaxWrites]
    /\ \A s \in Outputs : kept[s] \in 0..Limit[s]
    /\ drain \in [Outputs -> Threads \cup {"over"}]
    /\ events \in 0..2
    /\ clock \in {"off", "running", "expired"}

Init ==
    /\ caller = "revalidate"
    /\ reason = "none"
    /\ result = "none"
    /\ git = "none"
    /\ code = "none"
    /\ filter = "none"
    /\ owed \in 0..MaxInput
    /\ stdin = 0
    /\ writer = "none"
    /\ output = [s \in Outputs |-> 0]
    /\ sent = [s \in Outputs |-> 0]
    /\ kept = [s \in Outputs |-> 0]
    /\ drain = [s \in Outputs |-> "none"]
    /\ events = 0
    /\ clock = "off"

-----------------------------------------------------------------------------
(* The caller.                                                             *)

Goto(p) == caller' = p /\ UNCHANGED <<reason, result>>
Return(r) == caller' = "returned" /\ result' = r /\ UNCHANGED reason

\* The executable is hashed again before every use.
Revalidate ==
    /\ caller = "revalidate"
    /\ Goto("spawn") \/ Return("binary_changed")
    /\ UNCHANGED <<program, input, outputs, clock>>

Spawn ==
    /\ caller = "spawn"
    /\ \/ Return("spawn") /\ UNCHANGED <<git, writer, drain, clock>>
       \/ /\ Goto("events")
          /\ git' = "running"
          /\ writer' = "running"
          /\ drain' = [s \in Outputs |-> "running"]
          /\ clock' = "running"
    /\ UNCHANGED <<code, filter, owed, stdin, output, sent, kept, events>>

\* try_recv: an overflow is looked at before the exit, and the exit before the
\* deadline.
PollEvents ==
    /\ caller = "events"
    /\ IF events > 0
       THEN /\ events' = events - 1
            /\ caller' = "kill"
            /\ reason' = "output_limit"
       ELSE caller' = "status" /\ UNCHANGED <<reason, events>>
    /\ UNCHANGED <<result, program, input, output, sent, kept, drain, clock>>

\* try_wait reaps git if it has exited; a broken wait is not modelled.
PollStatus ==
    /\ caller = "status"
    /\ IF git = "exited" THEN git' = "reaped" /\ Goto("writer")
       ELSE Goto("deadline") /\ UNCHANGED git
    /\ UNCHANGED <<code, filter, input, outputs, clock>>

\* Mutant of PollDeadline: the loop goes round without looking at the time.
PollNever ==
    /\ caller = "deadline"
    /\ Goto("events")
    /\ UNCHANGED <<program, input, outputs, clock>>

\* Mutant of PollDeadline: the threads are joined while Git lives.
PollJoinsAlive ==
    /\ caller = "deadline"
    /\ IF clock = "expired"
       THEN caller' = "writer" /\ reason' = "timeout" /\ UNCHANGED result
       ELSE Goto("events")
    /\ UNCHANGED <<program, input, outputs, clock>>

PollDeadline ==
    /\ caller = "deadline"
    /\ IF clock = "expired"
       THEN caller' = "kill" /\ reason' = "timeout" /\ UNCHANGED result
       ELSE Goto("events")
    /\ UNCHANGED <<program, input, outputs, clock>>

\* Child::kill: git alone, not what it started.
Kill ==
    /\ caller = "kill"
    /\ Goto("reap")
    /\ git' = "exited"
    /\ code' = IF git = "running" THEN "killed" ELSE code
    /\ UNCHANGED <<filter, input, outputs, clock>>

Reap ==
    /\ caller = "reap"
    /\ git' = "reaped"
    /\ Goto("writer")
    /\ UNCHANGED <<code, filter, input, outputs, clock>>

\* Mutant of JoinWriter: how the writer ended is not asked.
JoinWriterAnyhow ==
    /\ caller = "writer"
    /\ writer \in {"ok", "failed"}
    /\ Goto("out")
    /\ UNCHANGED <<program, input, outputs, clock>>

\* join_writer(writer)? in all three places: a git that died before it took the
\* whole input is an I/O error, a deadline or an overflow that killed it included,
\* and the readers are left to themselves.
JoinWriter ==
    /\ caller = "writer"
    /\ \/ writer = "ok" /\ Goto("out")
       \/ writer = "failed" /\ Return("io")
    /\ UNCHANGED <<program, input, outputs, clock>>

\* After a kill what the readers say is ignored, otherwise the first error is
\* returned.
Join(s, next) ==
    /\ caller = s
    /\ \/ drain[s] = "ok" /\ Goto(next)
       \/ drain[s] = "failed" /\ IF reason # "none" THEN Goto(next)
                                 ELSE Return("output_limit")
    /\ UNCHANGED <<program, input, outputs, clock>>

Finish ==
    /\ caller = "exit"
    /\ Return(IF reason # "none" THEN reason
              ELSE IF code = "success" THEN "ok" ELSE "exit")
    /\ UNCHANGED <<program, input, outputs, clock>>

Call ==
    \/ Revalidate \/ Spawn \/ PollEvents \/ PollStatus \/ PollDeadline
    \/ Kill \/ Reap \/ JoinWriter \/ Join("out", "err") \/ Join("err", "exit")
    \/ Finish

-----------------------------------------------------------------------------
(* The three threads.                                                      *)

\* write_all: blocks while the pipe is full, fails once nobody can read it.
WriteInput ==
    /\ writer = "running"
    /\ \/ owed = 0 /\ writer' = "ok" /\ UNCHANGED <<owed, stdin>>
       \/ /\ owed > 0 /\ git = "running" /\ stdin < PipeSize
          /\ owed' = owed - 1
          /\ stdin' = stdin + 1
          /\ UNCHANGED writer
       \/ owed > 0 /\ git # "running" /\ writer' = "failed" /\ UNCHANGED <<owed, stdin>>
    /\ UNCHANGED <<control, program, outputs, clock>>

\* Who can still write to output s.
Open(s) == git = "running" \/ (s = "err" /\ filter = "holds")

\* Mutant of Receive: the ceiling is tested against what was there before.
ReceiveLate(s) ==
    /\ drain[s] = "running"
    /\ \E n \in 1..output[s] :
         /\ output' = [output EXCEPT ![s] = @ - n]
         /\ IF kept[s] > Limit[s]
            THEN drain' = [drain EXCEPT ![s] = "over"] /\ UNCHANGED kept
            ELSE kept' = [kept EXCEPT ![s] = @ + n] /\ UNCHANGED drain
    /\ UNCHANGED <<control, program, input, sent, events, clock>>

\* A read takes some of what is there; what would pass the ceiling is dropped.
Receive(s) ==
    /\ drain[s] = "running"
    /\ \E n \in 1..output[s] :
         /\ output' = [output EXCEPT ![s] = @ - n]
         /\ IF kept[s] + n > Limit[s]
            THEN drain' = [drain EXCEPT ![s] = "over"] /\ UNCHANGED kept
            ELSE kept' = [kept EXCEPT ![s] = @ + n] /\ UNCHANGED drain
    /\ UNCHANGED <<control, program, input, sent, events, clock>>

\* A read of nothing from a pipe nobody holds any more.
ReceiveEnd(s) ==
    /\ drain[s] = "running"
    /\ output[s] = 0
    /\ ~Open(s)
    /\ drain' = [drain EXCEPT ![s] = "ok"]
    /\ UNCHANGED <<control, program, input, output, sent, kept, events, clock>>

ReportOver(s) ==
    /\ drain[s] = "over"
    /\ drain' = [drain EXCEPT ![s] = "failed"]
    /\ events' = events + 1
    /\ UNCHANGED <<control, program, input, output, sent, kept, clock>>

Drain(s) == Receive(s) \/ ReceiveEnd(s) \/ ReportOver(s)

-----------------------------------------------------------------------------
(* Git, its filter and the time.                                           *)

TakeInput ==
    /\ git = "running"
    /\ stdin > 0
    /\ stdin' = stdin - 1
    /\ UNCHANGED <<control, program, owed, writer, outputs, clock>>

\* Nobody can write to a pipe whose reader has gone.
Send(s) ==
    /\ Open(s)
    /\ drain[s] = "running"
    /\ output[s] < PipeSize
    /\ sent[s] < MaxWrites
    /\ output' = [output EXCEPT ![s] = @ + 1]
    /\ sent' = [sent EXCEPT ![s] = @ + 1]
    /\ UNCHANGED <<control, program, input, kept, drain, events, clock>>

GitExits ==
    /\ git = "running"
    /\ git' = "exited"
    /\ code' \in {"success", "failure"}
    /\ UNCHANGED <<control, filter, input, outputs, clock>>

FilterStarts ==
    /\ git = "running"
    /\ filter = "none"
    /\ filter' = "holds"
    /\ UNCHANGED <<control, git, code, input, outputs, clock>>

FilterEnds ==
    /\ filter = "holds"
    /\ filter' = "gone"
    /\ UNCHANGED <<control, git, code, input, outputs, clock>>

Expire ==
    /\ clock = "running"
    /\ clock' = "expired"
    /\ UNCHANGED <<control, program, input, outputs>>

Environment ==
    \/ TakeInput \/ GitExits \/ FilterStarts \/ FilterEnds \/ Expire
    \/ \E s \in Outputs : Send(s)

Next == Call \/ WriteInput \/ (\E s \in Outputs : Drain(s)) \/ Environment

Spec == Init /\ [][Next]_vars

\* The kernel runs the caller and the three threads, and time passes.  Git owes
\* nothing: it may neither read, write nor exit.  A filter ends, unless it lingers.
Fairness ==
    /\ WF_vars(Call)
    /\ WF_vars(WriteInput)
    /\ \A s \in Outputs : WF_vars(Drain(s))
    /\ WF_vars(Expire)
    /\ ~Lingers => WF_vars(FilterEnds)

-----------------------------------------------------------------------------
\* apply.rs:98, apply.rs:147 and lib.rs:203 take an Ok of `git apply --check` for the
\* patch having been accepted: all of it was written to Git's pipe (that Git reads its
\* pipe before it exits with success is Git's own business), Git exited with success,
\* and everything it or a filter ever wrote was read.
Complete ==
    result = "ok" =>
        /\ code = "success"
        /\ writer = "ok" /\ owed = 0
        /\ \A s \in Outputs : ~Open(s) /\ drain[s] = "ok" /\ kept[s] = sent[s]

\* The caller's wait ends without Git or a filter doing anything: its loop has a
\* deadline, and the thread it joins has something to do or has ended.
WriterMoves == owed = 0 \/ git # "running" \/ stdin < PipeSize
ReaderMoves(s) == drain[s] = "over" \/ output[s] > 0 \/ ~Open(s)
WaitEnds ==
    /\ caller \in {"events", "status", "deadline"} => clock # "off"
    /\ caller = "writer" =>
         writer \in {"ok", "failed"} \/ (writer = "running" /\ WriterMoves)
    /\ \A s \in Outputs : caller = s =>
         \/ drain[s] \in {"ok", "failed"}
         \/ drain[s] \in {"running", "over"} /\ ReaderMoves(s)

\* Three full pipes never make a circle of waits: the caller joins no thread that
\* still depends on Git, and only the reader of stderr can depend on anybody, a
\* filter that holds it.
OnlyFilterIsAwaited == WaitEnds \/ (caller = "err" /\ filter = "holds")

\* The caller holds the service's gate across run.  With three pipes between it and
\* git, any of which may be full while the other side waits for another one, every call
\* returns some time, the deadline having seen to it when nothing else did; git is reaped
\* and no thread of the call stays behind, those an early return did not join included.
RunEnds ==
    <>[](/\ caller = "returned"
         /\ git \in {"none", "reaped"}
         /\ writer # "running"
         /\ \A s \in Outputs : drain[s] \notin {"running", "over"})
=============================================================================
