------------------------- MODULE ChildProcesses_proofs -------------------------
(***************************************************************************)
(* What a call of the agent and a call of Git promise, whatever the        *)
(* programs, their descendants, the deadlines and the canceller do, for    *)
(* every limit, pipe size and input; that neither waits in a circle or     *)
(* works without end; and that both keep their promises side by side.      *)
(***************************************************************************)
EXTENDS ChildProcesses, TLAPS

USE LimitAssumption, SizeAssumption, GitSizeAssumption

-----------------------------------------------------------------------------
(* The agent.                                                              *)

Over(s) == IF reader[s] = "limit" THEN 1 ELSE 0

\* TypeOK, with the domain of got, and one message at most of each task.
Typed ==
    /\ TypeOK
    /\ got \in [Streams -> Nat]
    /\ limits <= Over("out") + Over("err")

\* Before the agent is started there is nothing; when run() is past its exit the
\* agent has been reaped.
ChildInv ==
    /\ runner \in {"check", "spawn"} => child = "none"
    /\ runner \in {"feed", "select", "kill"} => child # "none"
    /\ child = "none" => ~holding
    /\ runner \in {"joinOut", "joinErr", "parse"} => child = "reaped"
    /\ runner = "returned" => child # "running"
    /\ holding => kin = "running"
    /\ runner = "select" => timer # "off"

\* Nothing is lost between a write and a task that still reads, and at the end of
\* the file nobody is left who could write.
StreamInv ==
    \A s \in Streams :
        /\ reader[s] = "none" => child = "none"
        /\ child = "none" => reader[s] = "none" /\ pipe[s] = 0 /\ got[s] = 0 /\ wrote[s] = 0
        /\ reader[s] \in {"reading", "eof"} => got[s] + pipe[s] = wrote[s]
        /\ reader[s] = "eof" => pipe[s] = 0 /\ ~Writers

\* run() passes a joined task only when that task came to the end of its file.
JoinInv ==
    /\ runner # "returned" => outcome = "none"
    /\ runner \in {"joinErr", "parse"} => reader["out"] = "eof"
    /\ runner = "parse" => reader["err"] = "eof"
    /\ outcome \in {"ok", "malformed"} =>
         /\ status = "success" /\ child = "reaped"
         /\ \A s \in Streams : reader[s] = "eof"

\* A verdict is followed by the kill of the group, and that by the reaping.
KillInv ==
    /\ verdict \in {"none", "cancelled", "timeout", "output_limit"}
    /\ runner \in {"kill", "reap"} => verdict # "none"
    /\ verdict # "none" =>
         /\ runner \in {"kill", "reap", "returned"}
         /\ runner = "reap" => child = "exited"
         /\ runner = "returned" => child = "reaped"
         /\ runner # "kill" => kin # "running" /\ ~holding

IInv == Typed /\ ChildInv /\ StreamInv /\ JoinInv /\ KillInv

LEMMA InitIInv == Init => IInv
<1>1. Init => holding \in BOOLEAN /\ probing \in BOOLEAN
  BY Zenon DEF Init
<1>2. QED
  BY <1>1 DEF Init, IInv, Typed, TypeOK, ChildInv, StreamInv, JoinInv, KillInv, Over,
       Streams, Writers, Errors

\* The two flags, apart from the rest.
LEMMA StepFlags == TypeOK /\ [Next]_vars => holding' \in BOOLEAN /\ probing' \in BOOLEAN
<1> SUFFICES ASSUME TypeOK, [Next]_vars PROVE holding' \in BOOLEAN /\ probing' \in BOOLEAN
  OBVIOUS
<1>1. CASE KillGroup BY <1>1, Zenon DEF KillGroup, cancellation, TypeOK
<1>2. CASE KinStarts BY <1>2, Zenon DEF KinStarts, cancellation, TypeOK
<1>3. CASE KinLetsGo BY <1>3, Zenon DEF KinLetsGo, cancellation, TypeOK
<1>4. CASE UNCHANGED <<holding, probing>> BY <1>4 DEF TypeOK
<1>5. QED
  BY <1>1, <1>2, <1>3, <1>4
  DEF Next, Run, Drain, Agent, Returned, Check, Spawn, Feed, PollCancelled, RegisterWaiter,
      SelectExit, SelectError, Reap, Join, Parse, Read, EndOfFile, SendLimit, Write,
      ChildExits, Expire, CancelStore, CancelNotify, processes, cancellation, vars

LEMMA StepTyped == IInv /\ [Next]_vars => Typed'
<1> SUFFICES ASSUME Typed, ChildInv, StreamInv, [Next]_vars PROVE Typed'
  BY DEF IInv
<1>0. holding' \in BOOLEAN /\ probing' \in BOOLEAN
  BY StepFlags DEF Typed
<1> USE DEF Typed, TypeOK, Over, Streams, Errors, processes, streams, cancellation,
            Goto, Return, EndChild
<1>1. CASE Check BY <1>1 DEF Check
<1>2. CASE Spawn BY <1>0, <1>2 DEF Spawn, ChildInv, StreamInv
<1>3. CASE Feed BY <1>3 DEF Feed
<1>4. CASE PollCancelled \/ RegisterWaiter BY <1>4 DEF PollCancelled, RegisterWaiter
<1>5. CASE SelectExit BY <1>5 DEF SelectExit
<1>6. CASE SelectError BY <1>6 DEF SelectError, Ready
<1>7. CASE KillGroup BY <1>0, <1>7 DEF KillGroup
<1>8. CASE Reap BY <1>8 DEF Reap
<1>9. CASE Join("out", "joinOut", "joinErr") \/ Join("err", "joinErr", "parse")
  BY <1>9 DEF Join
<1>10. CASE Parse BY <1>10 DEF Parse
<1>11. ASSUME NEW s \in Streams, Read(s) PROVE Typed' BY <1>11 DEF Read
<1>12. ASSUME NEW s \in Streams, EndOfFile(s) PROVE Typed' BY <1>12 DEF EndOfFile
<1>13. ASSUME NEW s \in Streams, SendLimit(s) PROVE Typed' BY <1>13 DEF SendLimit
<1>14. ASSUME NEW s \in Streams, Write(s) PROVE Typed' BY <1>14 DEF Write
<1>15. CASE ChildExits \/ KinStarts \/ KinLetsGo
  BY <1>0, <1>15 DEF ChildExits, KinStarts, KinLetsGo
<1>16. CASE Expire \/ CancelStore \/ CancelNotify BY <1>16 DEF Expire, CancelStore, CancelNotify
<1>17. CASE UNCHANGED vars BY <1>17 DEF vars
<1> QED
  BY <1>1, <1>2, <1>3, <1>4, <1>5, <1>6, <1>7, <1>8, <1>9, <1>10, <1>11, <1>12,
     <1>13, <1>14, <1>15, <1>16, <1>17
  DEF Next, Run, Drain, Agent, Returned

LEMMA StepRest == IInv /\ [Next]_vars => ChildInv' /\ StreamInv' /\ JoinInv' /\ KillInv'
<1> SUFFICES ASSUME IInv, [Next]_vars
             PROVE  ChildInv' /\ StreamInv' /\ JoinInv' /\ KillInv'
  OBVIOUS
<1> USE DEF IInv, Typed, TypeOK, ChildInv, StreamInv, JoinInv, KillInv, Writers, Streams,
            Errors, processes, streams, cancellation, Goto, Return, EndChild
<1>1. CASE Check BY <1>1 DEF Check
<1>2. CASE Spawn BY <1>2 DEF Spawn
<1>3. CASE Feed BY <1>3 DEF Feed
<1>4. CASE PollCancelled \/ RegisterWaiter BY <1>4 DEF PollCancelled, RegisterWaiter
<1>5. CASE SelectExit BY <1>5 DEF SelectExit, Polling
<1>6. CASE SelectError BY <1>6 DEF SelectError, Ready, Polling
<1>7. CASE KillGroup BY <1>7 DEF KillGroup
<1>8. CASE Reap BY <1>8 DEF Reap
<1>9. CASE Join("out", "joinOut", "joinErr") \/ Join("err", "joinErr", "parse")
  BY <1>9 DEF Join
<1>10. CASE Parse BY <1>10 DEF Parse
<1>11. ASSUME NEW s \in Streams, Read(s) PROVE ChildInv' /\ StreamInv' /\ JoinInv' /\ KillInv'
  BY <1>11 DEF Read
<1>12. ASSUME NEW s \in Streams, EndOfFile(s) PROVE ChildInv' /\ StreamInv' /\ JoinInv' /\ KillInv'
  BY <1>12 DEF EndOfFile
<1>13. ASSUME NEW s \in Streams, SendLimit(s) PROVE ChildInv' /\ StreamInv' /\ JoinInv' /\ KillInv'
  BY <1>13 DEF SendLimit
<1>14. ASSUME NEW s \in Streams, Write(s) PROVE ChildInv' /\ StreamInv' /\ JoinInv' /\ KillInv'
  BY <1>14 DEF Write
<1>15. CASE ChildExits \/ KinStarts \/ KinLetsGo BY <1>15 DEF ChildExits, KinStarts, KinLetsGo
<1>16. CASE Expire \/ CancelStore \/ CancelNotify BY <1>16 DEF Expire, CancelStore, CancelNotify
<1>17. CASE UNCHANGED vars BY <1>17 DEF vars
<1> QED
  BY <1>1, <1>2, <1>3, <1>4, <1>5, <1>6, <1>7, <1>8, <1>9, <1>10, <1>11, <1>12,
     <1>13, <1>14, <1>15, <1>16, <1>17
  DEF Next, Run, Drain, Agent, Returned

LEMMA StepIInv == IInv /\ [Next]_vars => IInv'
BY StepTyped, StepRest DEF IInv

\* The four facts the invariant was made for.
LEMMA IInvSuffices ==
    IInv => TypeOK /\ CompleteOutput /\ NothingOutlivesAKill /\ AgentIsGone
BY DEF IInv, Typed, TypeOK, ChildInv, StreamInv, JoinInv, KillInv, Writers, Streams,
       CompleteOutput, NothingOutlivesAKill, AgentIsGone

\* The inductive invariant holds in every reachable state of a run.
THEOREM IInvHolds == Spec => []IInv
BY InitIInv, StepIInv, PTL DEF Spec

\* Every variable keeps its type; no task keeps more than its limit.
THEOREM TypeCorrect == Spec => []TypeOK
BY IInvHolds, IInvSuffices, PTL

\* A candidate comes from all of the output of an agent that succeeded.
THEOREM CandidateIsComplete == Spec => []CompleteOutput
BY IInvHolds, IInvSuffices, PTL

\* After a timeout, a cancellation or an overflow nothing of the group runs.
THEOREM KillsAreComplete == Spec => []NothingOutlivesAKill
BY IInvHolds, IInvSuffices, PTL

\* However run() ends, the agent does not run any more.
THEOREM RunLeavesNoAgent == Spec => []AgentIsGone
BY IInvHolds, IInvSuffices, PTL

\* What run() waits for comes by itself, or a descendant has it.
LEMMA AgentWaitsEnd == IInv => OnlyKinIsAwaited
<1> SUFFICES ASSUME IInv PROVE OnlyKinIsAwaited OBVIOUS
<1> USE DEF IInv, Typed, TypeOK, ChildInv, StreamInv, JoinInv, KillInv, Streams
<1>1. CASE runner = "select" \/ runner = "reap"
  BY <1>1 DEF OnlyKinIsAwaited, WaitEnds, Awaits
<1>2. ASSUME NEW s \in Streams, Awaits(s), ~Arrives(s) PROVE OnlyKinIsAwaited
  <2>1. child = "reaped" /\ verdict = "none" BY <1>2 DEF Awaits
  <2>2. reader[s] = "reading" /\ Writers BY <1>2, <2>1 DEF Arrives
  <2>3. holding /\ kin = "running" BY <2>1, <2>2 DEF Writers
  <2> QED BY <2>1, <2>3 DEF OnlyKinIsAwaited
<1> QED BY <1>1, <1>2 DEF OnlyKinIsAwaited, WaitEnds

-----------------------------------------------------------------------------
(* The steps a run of the agent takes are bounded by its limits.           *)

Stage ==
    [check |-> 9, spawn |-> 8, feed |-> 7, select |-> 6, joinOut |-> 3, joinErr |-> 2,
     parse |-> 1, kill |-> 2, reap |-> 1, returned |-> 0]
Unpolled == [unpolled |-> 2, loaded |-> 1, registered |-> 0, woken |-> 0]
TaskWork(s) ==
    IF reader[s] \in {"none", "reading"} THEN Limit[s] - got[s] + 2
    ELSE IF reader[s] = "sending" THEN 1 ELSE 0

\* What run() and its two tasks have still to do at most.
OwnWork == Stage[runner] + Unpolled[arm]
AgentWork == OwnWork + (TaskWork("out") + TaskWork("err"))

\* A poll of run() or of one of its tasks that does anything lowers AgentWork,
\* and nothing the agent, its descendant, the clock or the canceller does raises it.
RunIsBounded ==
    [][IF Run \/ \E s \in Streams : Drain(s)
       THEN AgentWork' \in 0..(AgentWork - 1)
       ELSE AgentWork' = AgentWork]_vars

LEMMA WorkIsNatural ==
    ASSUME IInv
    PROVE  /\ OwnWork \in Nat
           /\ \A s \in Streams : TaskWork(s) \in Nat
BY DEF IInv, Typed, TypeOK, OwnWork, Stage, Unpolled, TaskWork, Streams

\* run() only goes forward; what it does leaves the tasks their work.
LEMMA RunGoesOn ==
    ASSUME IInv, Run
    PROVE  /\ OwnWork' \in 0..(OwnWork - 1)
           /\ \A s \in Streams : TaskWork(s)' = TaskWork(s)
<1> USE DEF IInv, Typed, TypeOK, processes, streams, cancellation, Goto, Return,
            OwnWork, Stage, Unpolled
<1> DEFINE Same == \A s \in Streams : TaskWork(s)' = TaskWork(s)
<1>1. UNCHANGED <<reader, got>> => Same BY DEF TaskWork
<1>2. CASE Check BY <1>1, <1>2 DEF Check
<1>3. CASE Spawn
  <2>1. Same BY <1>3 DEF Spawn, TaskWork, Streams, ChildInv, StreamInv
  <2>2. OwnWork' \in 0..(OwnWork - 1) BY <1>3 DEF Spawn
  <2> QED BY <2>1, <2>2
<1>4. CASE Feed BY <1>1, <1>4 DEF Feed
<1>5. CASE PollCancelled \/ RegisterWaiter
  BY <1>1, <1>5 DEF PollCancelled, RegisterWaiter
<1>6. CASE SelectExit \/ SelectError
  BY <1>1, <1>6 DEF SelectExit, SelectError, Polling
<1>7. CASE KillGroup \/ Reap BY <1>1, <1>7 DEF KillGroup, Reap
<1>8. CASE Join("out", "joinOut", "joinErr") \/ Join("err", "joinErr", "parse")
  BY <1>1, <1>8 DEF Join
<1>9. CASE Parse BY <1>1, <1>9 DEF Parse
<1> QED BY <1>2, <1>3, <1>4, <1>5, <1>6, <1>7, <1>8, <1>9 DEF Run

\* A read keeps something or ends the reading.
LEMMA TaskGoesOn ==
    ASSUME IInv, NEW s \in Streams, Drain(s)
    PROVE  /\ OwnWork' = OwnWork
           /\ TaskWork(s)' \in 0..(TaskWork(s) - 1)
           /\ \A t \in Streams \ {s} : TaskWork(t)' = TaskWork(t)
<1> USE DEF IInv, Typed, TypeOK, cancellation, OwnWork, TaskWork, Streams
<1>1. CASE Read(s) BY <1>1 DEF Read
<1>2. CASE EndOfFile(s) BY <1>2 DEF EndOfFile
<1>3. CASE SendLimit(s) BY <1>3 DEF SendLimit
<1> QED BY <1>1, <1>2, <1>3 DEF Drain

\* The others have no part in it: a woken waiter was registered.
LEMMA OthersLeaveWork ==
    ASSUME [Next]_vars, ~Run, \A s \in Streams : ~Drain(s)
    PROVE  AgentWork' = AgentWork
<1> USE DEF AgentWork, OwnWork, Unpolled, TaskWork, processes, streams, cancellation
<1>1. ASSUME NEW s \in Streams, Write(s) PROVE AgentWork' = AgentWork BY <1>1 DEF Write
<1>2. CASE ChildExits \/ KinStarts \/ KinLetsGo
  BY <1>2 DEF ChildExits, KinStarts, KinLetsGo
<1>3. CASE Expire \/ CancelStore BY <1>3 DEF Expire, CancelStore
<1>4. CASE CancelNotify BY <1>4 DEF CancelNotify
<1>5. CASE UNCHANGED vars BY <1>5 DEF vars
<1> QED BY <1>1, <1>2, <1>3, <1>4, <1>5 DEF Next, Agent, Returned

\* However much the agent writes and however often it is polled, run() and its
\* tasks take at most as many steps as the limits allow reads, and a few more.
THEOREM RunTakesBoundedSteps == Spec => RunIsBounded
<1>1. ASSUME IInv, Run PROVE AgentWork' \in 0..(AgentWork - 1)
  BY <1>1, RunGoesOn, WorkIsNatural DEF AgentWork, Streams
<1>2. ASSUME IInv, NEW s \in Streams, Drain(s) PROVE AgentWork' \in 0..(AgentWork - 1)
  <2>1. OwnWork \in Nat /\ TaskWork("out") \in Nat /\ TaskWork("err") \in Nat
    BY <1>2, WorkIsNatural DEF Streams
  <2>2. OwnWork' = OwnWork BY <1>2, TaskGoesOn
  <2>3. CASE s = "out"
    <3>1. TaskWork("out")' \in 0..(TaskWork("out") - 1) /\ TaskWork("err")' = TaskWork("err")
      BY <1>2, <2>3, TaskGoesOn DEF Streams
    <3> QED BY <2>1, <2>2, <3>1 DEF AgentWork
  <2>4. CASE s = "err"
    <3>1. TaskWork("err")' \in 0..(TaskWork("err") - 1) /\ TaskWork("out")' = TaskWork("out")
      BY <1>2, <2>4, TaskGoesOn DEF Streams
    <3> QED BY <2>1, <2>2, <3>1 DEF AgentWork
  <2> QED BY <2>3, <2>4 DEF Streams
<1>3. IInv /\ [Next]_vars =>
        [IF Run \/ \E s \in Streams : Drain(s)
         THEN AgentWork' \in 0..(AgentWork - 1)
         ELSE AgentWork' = AgentWork]_vars
  BY <1>1, <1>2, OthersLeaveWork
<1> QED BY <1>3, IInvHolds, PTL DEF Spec, RunIsBounded

-----------------------------------------------------------------------------
(* Git.                                                                    *)

Failed(s) == IF drain[s] = "failed" THEN 1 ELSE 0

\* Git's TypeOK, with the domain of kept, and one message at most of each reader.
GitTyped ==
    /\ Git!TypeOK
    /\ kept \in [Streams -> Nat]
    /\ events <= Failed("out") + Failed("err")

\* Where the caller is and what there is of the child and the threads.
GitChildInv ==
    /\ caller \in {"revalidate", "spawn"} => git = "none" /\ clock = "off"
    /\ caller \in {"events", "status", "deadline", "kill", "reap"} => git # "none"
    /\ git = "none" <=> writer = "none"
    /\ git = "none" => filter = "none"
    /\ caller \in {"events", "status", "deadline"} => clock # "off"
    /\ caller \in {"writer", "out", "err", "exit"} => git = "reaped"
    /\ writer = "ok" => owed = 0

\* Nothing is lost between a write and a reader that still reads, and at the end of
\* the file nobody is left who could write.
GitStreamInv ==
    \A s \in Streams :
        /\ git = "none" => drain[s] = "none" /\ output[s] = 0 /\ kept[s] = 0 /\ sent[s] = 0
        /\ drain[s] = "none" => git = "none"
        /\ drain[s] \in {"running", "ok"} => kept[s] + output[s] = sent[s]
        /\ drain[s] = "ok" => output[s] = 0 /\ ~Git!Open(s)

\* The caller passes a joined thread only when it ended well, or after a kill.
GitJoinInv ==
    /\ caller # "returned" => result = "none"
    /\ caller \in {"out", "err", "exit"} => writer = "ok"
    /\ caller \in {"err", "exit"} /\ reason = "none" => drain["out"] = "ok"
    /\ caller = "exit" /\ reason = "none" => drain["err"] = "ok"
    /\ result = "ok" =>
         /\ code = "success" /\ git = "reaped" /\ writer = "ok"
         /\ \A s \in Streams : drain[s] = "ok"

GitInv == GitTyped /\ GitChildInv /\ GitStreamInv /\ GitJoinInv

LEMMA InitGitInv == Git!Init => GitInv
BY DEF Git!Outputs, Git!Init, GitInv, GitTyped, Git!TypeOK, Git!Errors, Git!Threads, Failed, GitChildInv,
    GitStreamInv, GitJoinInv, Git!Open, Streams

\* A call that is not made satisfies the invariant too.
LEMMA NoGitInv == NoGit => GitInv
BY DEF Git!Outputs, NoGit, GitInv, GitTyped, Git!TypeOK, Git!Errors, Git!Threads, Failed, GitChildInv,
    GitStreamInv, GitJoinInv, Git!Open, Streams

LEMMA StepGitTyped == GitInv /\ [Git!Next]_gitVars => GitTyped'
<1> SUFFICES ASSUME GitTyped, GitChildInv, GitStreamInv, [Git!Next]_gitVars PROVE GitTyped'
  BY DEF GitInv
<1> USE DEF Git!Outputs,
        GitTyped, Git!TypeOK, Git!Errors, Git!Threads, Failed, Streams,
        Git!program, Git!input, Git!outputs, Git!control, Git!Goto, Git!Return
<1>1. CASE Git!Revalidate BY <1>1 DEF Git!Revalidate
<1>2. CASE Git!Spawn BY <1>2 DEF Git!Spawn, GitChildInv, GitStreamInv
<1>3. CASE Git!PollEvents BY <1>3 DEF Git!PollEvents
<1>4. CASE Git!PollStatus BY <1>4 DEF Git!PollStatus
<1>5. CASE Git!PollDeadline BY <1>5 DEF Git!PollDeadline
<1>6. CASE Git!Kill BY <1>6 DEF Git!Kill
<1>7. CASE Git!Reap BY <1>7 DEF Git!Reap
<1>8. CASE Git!JoinWriter BY <1>8 DEF Git!JoinWriter
<1>9. CASE Git!Join("out", "err") \/ Git!Join("err", "exit") BY <1>9 DEF Git!Join
<1>10. CASE Git!Finish BY <1>10 DEF Git!Finish
<1>11. CASE Git!WriteInput BY <1>11 DEF Git!WriteInput
<1>12. ASSUME NEW s \in Streams, Git!Receive(s) PROVE GitTyped' BY <1>12 DEF Git!Receive
<1>13. ASSUME NEW s \in Streams, Git!ReceiveEnd(s) PROVE GitTyped' BY <1>13 DEF Git!ReceiveEnd
<1>14. ASSUME NEW s \in Streams, Git!ReportOver(s) PROVE GitTyped' BY <1>14 DEF Git!ReportOver
<1>15. ASSUME NEW s \in Streams, Git!Send(s) PROVE GitTyped' BY <1>15 DEF Git!Send
<1>16. CASE Git!TakeInput BY <1>16 DEF Git!TakeInput
<1>17. CASE Git!GitExits \/ Git!FilterStarts \/ Git!FilterEnds \/ Git!Expire
  BY <1>17 DEF Git!GitExits, Git!FilterStarts, Git!FilterEnds, Git!Expire
<1>18. CASE UNCHANGED gitVars BY <1>18 DEF gitVars
<1> QED
  BY <1>1, <1>2, <1>3, <1>4, <1>5, <1>6, <1>7, <1>8, <1>9, <1>10, <1>11, <1>12,
     <1>13, <1>14, <1>15, <1>16, <1>17, <1>18
  DEF Git!Next, Git!Call, Git!Drain, Git!Environment

GitRest == GitChildInv /\ GitStreamInv /\ GitJoinInv

LEMMA StepGitRest == GitInv /\ [Git!Next]_gitVars => GitRest'
<1> SUFFICES ASSUME GitInv, [Git!Next]_gitVars PROVE GitRest'
  OBVIOUS
<1> USE DEF Git!Outputs,
        GitInv, GitRest, GitTyped, GitChildInv, GitStreamInv, GitJoinInv, Git!TypeOK,
        Git!Errors, Git!Threads, Git!Open, Streams,
        Git!program, Git!input, Git!outputs, Git!control, Git!Goto, Git!Return
<1>1. CASE Git!Revalidate BY <1>1 DEF Git!Revalidate
<1>2. CASE Git!Spawn BY <1>2 DEF Git!Spawn
<1>3. CASE Git!PollEvents BY <1>3 DEF Git!PollEvents
<1>4. CASE Git!PollStatus BY <1>4 DEF Git!PollStatus
<1>5. CASE Git!PollDeadline BY <1>5 DEF Git!PollDeadline
<1>6. CASE Git!Kill BY <1>6 DEF Git!Kill
<1>7. CASE Git!Reap BY <1>7 DEF Git!Reap
<1>8. CASE Git!JoinWriter BY <1>8 DEF Git!JoinWriter
<1>9. CASE Git!Join("out", "err") \/ Git!Join("err", "exit") BY <1>9 DEF Git!Join
<1>10. CASE Git!Finish BY <1>10 DEF Git!Finish
<1>11. CASE Git!WriteInput BY <1>11 DEF Git!WriteInput
<1>12. ASSUME NEW s \in Streams, Git!Receive(s) PROVE GitRest' BY <1>12 DEF Git!Receive
<1>13. ASSUME NEW s \in Streams, Git!ReceiveEnd(s) PROVE GitRest' BY <1>13 DEF Git!ReceiveEnd
<1>14. ASSUME NEW s \in Streams, Git!ReportOver(s) PROVE GitRest' BY <1>14 DEF Git!ReportOver
<1>15. ASSUME NEW s \in Streams, Git!Send(s) PROVE GitRest' BY <1>15 DEF Git!Send
<1>16. CASE Git!TakeInput BY <1>16 DEF Git!TakeInput
<1>17. CASE Git!GitExits \/ Git!FilterStarts \/ Git!FilterEnds \/ Git!Expire
  BY <1>17 DEF Git!GitExits, Git!FilterStarts, Git!FilterEnds, Git!Expire
<1>18. CASE UNCHANGED gitVars BY <1>18 DEF gitVars
<1> QED
  BY <1>1, <1>2, <1>3, <1>4, <1>5, <1>6, <1>7, <1>8, <1>9, <1>10, <1>11, <1>12,
     <1>13, <1>14, <1>15, <1>16, <1>17, <1>18
  DEF Git!Next, Git!Call, Git!Drain, Git!Environment

LEMMA StepGitInv == GitInv /\ [Git!Next]_gitVars => GitInv'
BY StepGitTyped, StepGitRest DEF GitInv, GitRest

LEMMA GitInvSuffices == GitInv => GitTypeOK /\ GitComplete
BY DEF Git!Outputs, GitInv, GitTyped, GitChildInv, GitStreamInv, GitJoinInv, Git!TypeOK, Streams,
    GitTypeOK, GitComplete, Git!Complete

\* A thread the caller joins has something to do, or a filter holds stderr.
LEMMA GitWaitsEnd == GitInv => Git!OnlyFilterIsAwaited
<1> SUFFICES ASSUME GitInv PROVE Git!OnlyFilterIsAwaited OBVIOUS
<1> USE DEF GitInv, GitTyped, Git!TypeOK, GitChildInv, GitStreamInv, Git!Outputs,
            Git!Threads, Streams
<1>1. CASE caller = "writer"
  BY <1>1 DEF Git!OnlyFilterIsAwaited, Git!WaitEnds, Git!WriterMoves
<1>2. ASSUME caller \in Streams, drain[caller] \notin {"ok", "failed"}
      PROVE  Git!OnlyFilterIsAwaited
  <2>1. git = "reaped" /\ drain[caller] \in {"running", "over"} BY <1>2
  <2>2. CASE Git!ReaderMoves(caller)
    BY <1>2, <2>1, <2>2 DEF Git!OnlyFilterIsAwaited, Git!WaitEnds
  <2>3. CASE ~Git!ReaderMoves(caller)
    BY <1>2, <2>1, <2>3 DEF Git!OnlyFilterIsAwaited, Git!ReaderMoves, Git!Open
  <2> QED BY <2>2, <2>3
<1> QED BY <1>1, <1>2 DEF Git!OnlyFilterIsAwaited, Git!WaitEnds

-----------------------------------------------------------------------------
(* The steps a run of Git takes are bounded once its deadline has passed.   *)

CallerStage ==
    [revalidate |-> 11, spawn |-> 10, events |-> 9, status |-> 8, deadline |-> 7,
     kill |-> 6, reap |-> 5, writer |-> 4, out |-> 3, err |-> 2, exit |-> 1,
     returned |-> 0]
CallerWork == CallerStage[caller]
WriterWork == IF writer \in {"none", "running"} THEN owed + 1 ELSE 0
ReaderWork(s) ==
    IF drain[s] \in {"none", "running"} THEN Limit[s] - kept[s] + 2
    ELSE IF drain[s] = "over" THEN 1 ELSE 0

\* What the three threads have still to do at most.
ThreadWork == WriterWork + (ReaderWork("out") + ReaderWork("err"))
ThreadStep == Git!WriteInput \/ \E s \in Streams : Git!Drain(s)

\* The threads are bounded by the patch and the ceilings; the caller polls as
\* often as the time allows, and when it is over goes straight to its end.
GitRunIsBounded ==
    [][/\ IF ThreadStep THEN ThreadWork' \in 0..(ThreadWork - 1)
          ELSE ThreadWork' = ThreadWork
       /\ clock = "expired" =>
            /\ clock' = clock
            /\ IF Git!Call THEN CallerWork' \in 0..(CallerWork - 1)
               ELSE CallerWork' = CallerWork]_gitVars

LEMMA GitWorkIsNatural ==
    ASSUME GitInv
    PROVE  WriterWork \in Nat /\ \A s \in Streams : ReaderWork(s) \in Nat
BY DEF GitInv, GitTyped, Git!TypeOK, Git!Outputs, WriterWork, ReaderWork, Streams

\* The caller leaves the threads their work, Spawn included, and after the
\* deadline does not poll again.
LEMMA CallerGoesOn ==
    ASSUME GitInv, Git!Call
    PROVE  /\ ThreadWork' = ThreadWork
           /\ clock = "expired" => clock' = clock /\ CallerWork' \in 0..(CallerWork - 1)
<1> USE DEF GitInv, GitTyped, GitChildInv, GitStreamInv, Git!TypeOK, Git!Outputs,
            Git!program, Git!input, Git!outputs, Git!Goto, Git!Return,
            CallerWork, CallerStage
<1>1. UNCHANGED <<owed, writer, drain, kept>> => ThreadWork' = ThreadWork
  BY DEF ThreadWork, WriterWork, ReaderWork
<1>2. CASE Git!Revalidate BY <1>1, <1>2 DEF Git!Revalidate
<1>3. CASE Git!Spawn
  <2>1. ThreadWork' = ThreadWork
    BY <1>3 DEF Git!Spawn, ThreadWork, WriterWork, ReaderWork, Streams
  <2> QED BY <1>3, <2>1 DEF Git!Spawn
<1>4. CASE Git!PollEvents BY <1>1, <1>4 DEF Git!PollEvents
<1>5. CASE Git!PollStatus BY <1>1, <1>5 DEF Git!PollStatus
<1>6. CASE Git!PollDeadline BY <1>1, <1>6 DEF Git!PollDeadline
<1>7. CASE Git!Kill \/ Git!Reap BY <1>1, <1>7 DEF Git!Kill, Git!Reap
<1>8. CASE Git!JoinWriter BY <1>1, <1>8 DEF Git!JoinWriter
<1>9. CASE Git!Join("out", "err") \/ Git!Join("err", "exit") BY <1>1, <1>9 DEF Git!Join
<1>10. CASE Git!Finish BY <1>1, <1>10 DEF Git!Finish
<1> QED
  BY <1>2, <1>3, <1>4, <1>5, <1>6, <1>7, <1>8, <1>9, <1>10 DEF Git!Call

\* A write hands over a piece of the patch or ends the writing.
LEMMA WriterGoesOn ==
    ASSUME GitInv, Git!WriteInput
    PROVE  /\ WriterWork' \in 0..(WriterWork - 1)
           /\ \A s \in Streams : ReaderWork(s)' = ReaderWork(s)
           /\ UNCHANGED <<caller, clock>>
BY DEF GitInv, GitTyped, Git!TypeOK, Git!WriteInput, Git!control, Git!outputs,
       WriterWork, ReaderWork

\* A read keeps something or ends the reading.
LEMMA ReaderGoesOn ==
    ASSUME GitInv, NEW s \in Streams, Git!Drain(s)
    PROVE  /\ WriterWork' = WriterWork
           /\ ReaderWork(s)' \in 0..(ReaderWork(s) - 1)
           /\ \A t \in Streams \ {s} : ReaderWork(t)' = ReaderWork(t)
           /\ UNCHANGED <<caller, clock>>
<1> USE DEF GitInv, GitTyped, Git!TypeOK, Git!Outputs, Git!control, Git!input,
            WriterWork, ReaderWork, Streams
<1>1. CASE Git!Receive(s) BY <1>1 DEF Git!Receive
<1>2. CASE Git!ReceiveEnd(s) BY <1>2 DEF Git!ReceiveEnd
<1>3. CASE Git!ReportOver(s) BY <1>3 DEF Git!ReportOver
<1> QED BY <1>1, <1>2, <1>3 DEF Git!Drain

\* Git, its filter and the clock have no part in it.
LEMMA GitLeavesWork ==
    ASSUME Git!Environment \/ UNCHANGED gitVars
    PROVE  /\ ThreadWork' = ThreadWork /\ CallerWork' = CallerWork
           /\ clock = "expired" => clock' = clock
<1> USE DEF ThreadWork, WriterWork, ReaderWork, CallerWork,
            Git!control, Git!program, Git!input, Git!outputs
<1>1. CASE Git!TakeInput BY <1>1 DEF Git!TakeInput
<1>2. CASE Git!GitExits \/ Git!FilterStarts \/ Git!FilterEnds
  BY <1>2 DEF Git!GitExits, Git!FilterStarts, Git!FilterEnds
<1>3. CASE Git!Expire BY <1>3 DEF Git!Expire
<1>4. ASSUME NEW s \in Git!Outputs, Git!Send(s)
      PROVE  /\ ThreadWork' = ThreadWork /\ CallerWork' = CallerWork
             /\ clock' = clock
  BY <1>4 DEF Git!Send
<1>5. CASE UNCHANGED gitVars BY <1>5 DEF gitVars
<1> QED BY <1>1, <1>2, <1>3, <1>4, <1>5 DEF Git!Environment

\* The steps of the caller move it, those of the others do not.
LEMMA CallersMove ==
    ASSUME GitInv, Git!Call
    PROVE  ~ThreadStep
<1>1. caller' # caller
  BY DEF GitInv, GitTyped, Git!TypeOK, Git!Call, Git!Revalidate, Git!Spawn, Git!PollEvents,
         Git!PollStatus, Git!PollDeadline, Git!Kill, Git!Reap, Git!JoinWriter, Git!Join,
         Git!Finish, Git!Goto, Git!Return
<1> QED BY <1>1, WriterGoesOn, ReaderGoesOn DEF ThreadStep

LEMMA GitStepIsBounded ==
    ASSUME GitInv, Git!Next \/ UNCHANGED gitVars
    PROVE  /\ IF ThreadStep THEN ThreadWork' \in 0..(ThreadWork - 1)
              ELSE ThreadWork' = ThreadWork
           /\ clock = "expired" =>
                /\ clock' = clock
                /\ IF Git!Call THEN CallerWork' \in 0..(CallerWork - 1)
                   ELSE CallerWork' = CallerWork
<1>1. WriterWork \in Nat /\ ReaderWork("out") \in Nat /\ ReaderWork("err") \in Nat
  BY GitWorkIsNatural DEF Streams
<1>2. CASE Git!Call BY <1>2, CallersMove, CallerGoesOn
<1>3. ASSUME ThreadStep
      PROVE  /\ ThreadWork' \in 0..(ThreadWork - 1)
             /\ UNCHANGED <<caller, clock>>
  <2>1. CASE Git!WriteInput
    <3>1. /\ WriterWork' \in 0..(WriterWork - 1)
          /\ ReaderWork("out")' = ReaderWork("out") /\ ReaderWork("err")' = ReaderWork("err")
          /\ UNCHANGED <<caller, clock>>
      BY <2>1, WriterGoesOn DEF Streams
    <3> QED BY <1>1, <3>1 DEF ThreadWork
  <2>2. ASSUME Git!Drain("out")
        PROVE  /\ ThreadWork' \in 0..(ThreadWork - 1) /\ UNCHANGED <<caller, clock>>
    <3>1. /\ WriterWork' = WriterWork
          /\ ReaderWork("out")' \in 0..(ReaderWork("out") - 1)
          /\ ReaderWork("err")' = ReaderWork("err")
          /\ UNCHANGED <<caller, clock>>
      BY <2>2, ReaderGoesOn DEF Streams
    <3> QED BY <1>1, <3>1 DEF ThreadWork
  <2>3. ASSUME Git!Drain("err")
        PROVE  /\ ThreadWork' \in 0..(ThreadWork - 1) /\ UNCHANGED <<caller, clock>>
    <3>1. /\ WriterWork' = WriterWork
          /\ ReaderWork("err")' \in 0..(ReaderWork("err") - 1)
          /\ ReaderWork("out")' = ReaderWork("out")
          /\ UNCHANGED <<caller, clock>>
      BY <2>3, ReaderGoesOn DEF Streams
    <3> QED BY <1>1, <3>1 DEF ThreadWork
  <2> QED BY <1>3, <2>1, <2>2, <2>3 DEF ThreadStep, Streams
<1>4. CASE ThreadStep /\ ~Git!Call BY <1>3, <1>4 DEF CallerWork
<1>5. CASE ~ThreadStep /\ ~Git!Call
  <2>1. Git!Environment \/ UNCHANGED gitVars
    BY <1>5 DEF Git!Next, ThreadStep, Streams, Git!Outputs
  <2> QED BY <1>5, <2>1, GitLeavesWork
<1> QED BY <1>2, <1>4, <1>5

-----------------------------------------------------------------------------
(* Both programs.                                                          *)

LEMMA NoAgentInv == NoAgent => IInv
<1>1. NoAgent => holding \in BOOLEAN /\ probing \in BOOLEAN
  BY Zenon DEF NoAgent
<1>2. QED
  BY <1>1
  DEF NoAgent, IInv, Typed, TypeOK, ChildInv, StreamInv, JoinInv, KillInv, Over, Streams,
      Writers, Errors

LEMMA EitherInits == EitherInit => IInv /\ GitInv
BY InitIInv, NoGitInv, NoAgentInv, InitGitInv DEF EitherInit

LEMMA EitherSteps ==
    IInv /\ GitInv /\ [AgentStep \/ GitStep]_<<vars, gitVars>> => IInv' /\ GitInv'
BY StepIInv, StepGitInv DEF AgentStep, GitStep

\* Both invariants hold in every reachable state, whichever program is called.
THEOREM BothInvHold == EitherSpec => [](IInv /\ GitInv)
BY EitherInits, EitherSteps, PTL DEF EitherSpec

\* Every variable of a call of Git keeps its type; no reader keeps more than its ceiling.
THEOREM GitTypeCorrect == EitherSpec => []GitTypeOK
BY BothInvHold, GitInvSuffices, PTL

\* Git's Ok means that the whole patch was written to its pipe, that it succeeded, and
\* that it was read to the end.
THEOREM GitOkIsComplete == EitherSpec => []GitComplete
BY BothInvHold, GitInvSuffices, PTL

\* For every limit, pipe size and input: no wait of either call depends on the
\* program that was started or on a full pipe, only on a descendant of it.
THEOREM NoCircleOfWaits == EitherSpec => []OnlyDescendantsAreAwaited
BY BothInvHold, AgentWaitsEnd, GitWaitsEnd, PTL DEF OnlyDescendantsAreAwaited

\* However large the patch and whatever Git answers: a run of Git does finitely
\* much after its deadline, and its threads do finitely much in all.
THEOREM GitTakesBoundedSteps == EitherSpec => GitRunIsBounded
<1>1. GitInv /\ [AgentStep \/ GitStep]_<<vars, gitVars>> =>
        [/\ IF ThreadStep THEN ThreadWork' \in 0..(ThreadWork - 1)
            ELSE ThreadWork' = ThreadWork
         /\ clock = "expired" =>
              /\ clock' = clock
              /\ IF Git!Call THEN CallerWork' \in 0..(CallerWork - 1)
                 ELSE CallerWork' = CallerWork]_gitVars
  BY GitStepIsBounded DEF AgentStep, GitStep
<1> QED BY <1>1, BothInvHold, PTL DEF EitherSpec, GitRunIsBounded
=============================================================================
