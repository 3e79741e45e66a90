------------------------ MODULE ClientDelivery_proofs -------------------------
(***************************************************************************)
(* For any number of runs of the command and ends of the daemon: the types *)
(* hold, a service called unavailable has a cause, the protocol implements *)
(* RemoteCall and so keeps its promises, and both sides of a call only     *)
(* advance.                                                                *)
(*                                                                         *)
(* CallInv follows one request through its two processes: it is served     *)
(* only by its task, once the whole of it is in the socket; a response is  *)
(* in the socket only if it was served; and while the command waits, the   *)
(* daemon's end is open unless there is an excuse or the whole response.   *)
(***************************************************************************)
EXTENDS ClientDelivery, TLAPS

USE DeathAssumption

Waiting(c) == pc[c] \in {"write", "prefix", "body"}

CallInv(c) ==
    /\ outcome[c] = "none" <=> pc[c] # "ended"
    /\ pc[c] \in {"idle", "paste", "connect"} =>
           task[c] = "none" /\ served[c] = 0 /\ up[c] = 0 /\ down[c] = 0
    /\ pc[c] = "write" => up[c] < 2
    /\ task[c] \in {"backlog", "prefix", "body", "handle"} => served[c] = 0
    /\ task[c] = "reply" => served[c] = 1 /\ down[c] < 2
    /\ task[c] # "none" => "server" \in ends[c]
    /\ task[c] = "handle" \/ served[c] = 1 => up[c] = 2
    /\ served[c] \in {0, 1}
    /\ down[c] > 0 \/ pc[c] = "copy" => served[c] = 1
    /\ outcome[c] \in {"answered", "copied"} => served[c] = 1
    /\ Waiting(c) => /\ "client" \in ends[c]
                     /\ "server" \in ends[c] \/ excuse[c] \/ down[c] = 2
    /\ outcome[c] = "unavailable" => excuse[c]

IInv == TypeOK /\ \A c \in Calls : CallInv(c)

-----------------------------------------------------------------------------
(* A step of one call or its task leaves every other call alone.           *)

Same(d) ==
    /\ pc'[d] = pc[d] /\ op'[d] = op[d] /\ outcome'[d] = outcome[d]
    /\ up'[d] = up[d] /\ down'[d] = down[d] /\ ends'[d] = ends[d]
    /\ task'[d] = task[d] /\ served'[d] = served[d] /\ excuse'[d] = excuse[d]

LEMMA SameKeeps ==
    ASSUME NEW d \in Calls, Same(d), CallInv(d)
    PROVE  CallInv(d)'
BY DEF Same, CallInv, Waiting

USE DEF process, connection, server, Outcomes, Answers, Ops, Goto, End, Drop, Excused

LEMMA BeginKeeps ==
    ASSUME IInv, NEW c \in Calls, Begin(c)
    PROVE  IInv'
<1> USE DEF IInv
<1>1. CallInv(c) OBVIOUS
<1>2. TypeOK' BY <1>1 DEF Begin, TypeOK, CallInv
<1>3. CallInv(c)' BY <1>1 DEF Begin, TypeOK, CallInv, Waiting
<1>4. ASSUME NEW d \in Calls, d # c PROVE CallInv(d)'
  <2>1. Same(d) BY <1>4 DEF Begin, TypeOK, Same
  <2> QED BY <2>1, SameKeeps
<1> QED BY <1>2, <1>3, <1>4

LEMMA PasteKeeps ==
    ASSUME IInv, NEW c \in Calls, Paste(c)
    PROVE  IInv'
<1> USE DEF IInv
<1>1. CallInv(c) OBVIOUS
<1>2. TypeOK' BY <1>1 DEF Paste, TypeOK, CallInv
<1>3. CallInv(c)' BY <1>1 DEF Paste, TypeOK, CallInv, Waiting
<1>4. ASSUME NEW d \in Calls, d # c PROVE CallInv(d)'
  <2>1. Same(d) BY <1>4 DEF Paste, TypeOK, Same
  <2> QED BY <2>1, SameKeeps
<1> QED BY <1>2, <1>3, <1>4

LEMMA ConnectKeeps ==
    ASSUME IInv, NEW c \in Calls, Connect(c)
    PROVE  IInv'
<1> USE DEF IInv
<1>1. CallInv(c) OBVIOUS
<1>2. CASE End(c, "invalid") /\ UNCHANGED <<task, excuse>>
  <2>1. TypeOK' BY <1>1, <1>2 DEF Connect, TypeOK, CallInv
  <2>2. CallInv(c)' BY <1>1, <1>2 DEF Connect, TypeOK, CallInv, Waiting
  <2>3. ASSUME NEW d \in Calls, d # c PROVE CallInv(d)'
    <3>1. Same(d) BY <1>2, <2>3 DEF Connect, TypeOK, Same
    <3> QED BY <3>1, SameKeeps
  <2> QED BY <2>1, <2>2, <2>3
<1>3. CASE End(c, "unavailable") /\ Excused(c) /\ UNCHANGED task
  <2>1. TypeOK' BY <1>1, <1>3 DEF Connect, TypeOK, CallInv
  <2>2. CallInv(c)' BY <1>1, <1>3 DEF Connect, TypeOK, CallInv, Waiting
  <2>3. ASSUME NEW d \in Calls, d # c PROVE CallInv(d)'
    <3>1. Same(d) BY <1>3, <2>3 DEF Connect, TypeOK, Same
    <3> QED BY <3>1, SameKeeps
  <2> QED BY <2>1, <2>2, <2>3
<1>4. CASE /\ daemon = "up" /\ Goto(c, "write") /\ UNCHANGED excuse
           /\ ends' = [ends EXCEPT ![c] = {"client", "server"}]
           /\ task' = [task EXCEPT ![c] = "backlog"]
  <2>1. TypeOK' BY <1>1, <1>4 DEF Connect, TypeOK, CallInv
  <2>2. CallInv(c)' BY <1>1, <1>4 DEF Connect, TypeOK, CallInv, Waiting
  <2>3. ASSUME NEW d \in Calls, d # c PROVE CallInv(d)'
    <3>1. Same(d) BY <1>4, <2>3 DEF Connect, TypeOK, Same
    <3> QED BY <3>1, SameKeeps
  <2> QED BY <2>1, <2>2, <2>3
<1> QED BY <1>1, <1>2, <1>3, <1>4 DEF Connect, TypeOK, CallInv

LEMMA WriteKeeps ==
    ASSUME IInv, NEW c \in Calls, Write(c)
    PROVE  IInv'
<1> USE DEF IInv
<1>1. CallInv(c) OBVIOUS
<1>2. TypeOK' BY <1>1 DEF Write, TypeOK, CallInv
<1>3. CallInv(c)' BY <1>1 DEF Write, TypeOK, CallInv, Waiting
<1>4. ASSUME NEW d \in Calls, d # c PROVE CallInv(d)'
  <2>1. Same(d) BY <1>4 DEF Write, TypeOK, Same
  <2> QED BY <2>1, SameKeeps
<1> QED BY <1>2, <1>3, <1>4

LEMMA ReadResponseKeeps ==
    ASSUME IInv, NEW c \in Calls, ReadResponse(c)
    PROVE  IInv'
<1> USE DEF IInv
<1>1. CallInv(c) OBVIOUS
<1>2. TypeOK'
  BY <1>1 DEF ReadResponse, Reading, Needed, Received, TypeOK, CallInv
<1>3. CallInv(c)'
  BY <1>1 DEF ReadResponse, Reading, Needed, Received, TypeOK, CallInv, Waiting
<1>4. ASSUME NEW d \in Calls, d # c PROVE CallInv(d)'
  <2>1. Same(d)
    BY <1>4 DEF ReadResponse, Reading, Needed, Received, TypeOK, Same
  <2> QED BY <2>1, SameKeeps
<1> QED BY <1>2, <1>3, <1>4

LEMMA GiveUpKeeps ==
    ASSUME IInv, NEW c \in Calls, GiveUp(c)
    PROVE  IInv'
<1> USE DEF IInv
<1>1. CallInv(c) OBVIOUS
<1>2. TypeOK' BY <1>1 DEF GiveUp, Impatient, TypeOK, CallInv
<1>3. CallInv(c)' BY <1>1 DEF GiveUp, Impatient, TypeOK, CallInv, Waiting
<1>4. ASSUME NEW d \in Calls, d # c PROVE CallInv(d)'
  <2>1. Same(d) BY <1>4 DEF GiveUp, Impatient, TypeOK, Same
  <2> QED BY <2>1, SameKeeps
<1> QED BY <1>2, <1>3, <1>4

LEMMA CopyKeeps ==
    ASSUME IInv, NEW c \in Calls, Copy(c)
    PROVE  IInv'
<1> USE DEF IInv
<1>1. CallInv(c) OBVIOUS
<1>2. TypeOK' BY <1>1 DEF Copy, TypeOK, CallInv
<1>3. CallInv(c)' BY <1>1 DEF Copy, TypeOK, CallInv, Waiting
<1>4. ASSUME NEW d \in Calls, d # c PROVE CallInv(d)'
  <2>1. Same(d) BY <1>4 DEF Copy, TypeOK, Same
  <2> QED BY <2>1, SameKeeps
<1> QED BY <1>2, <1>3, <1>4

LEMMA AcceptKeeps ==
    ASSUME IInv, NEW c \in Calls, Accept(c)
    PROVE  IInv'
<1> USE DEF IInv
<1>1. CallInv(c) OBVIOUS
<1>2. TypeOK' BY <1>1 DEF Accept, TypeOK, CallInv
<1>3. CallInv(c)' BY <1>1 DEF Accept, TypeOK, CallInv, Waiting
<1>4. ASSUME NEW d \in Calls, d # c PROVE CallInv(d)'
  <2>1. Same(d) BY <1>4 DEF Accept, TypeOK, Same
  <2> QED BY <2>1, SameKeeps
<1> QED BY <1>2, <1>3, <1>4

LEMMA ReadRequestKeeps ==
    ASSUME IInv, NEW c \in Calls, ReadRequest(c)
    PROVE  IInv'
<1> USE DEF IInv
<1>1. CallInv(c) OBVIOUS
<1>2. TypeOK' BY <1>1 DEF ReadRequest, Receiving, Expected, TypeOK, CallInv
<1>3. CallInv(c)'
  BY <1>1 DEF ReadRequest, Receiving, Expected, TypeOK, CallInv, Waiting
<1>4. ASSUME NEW d \in Calls, d # c PROVE CallInv(d)'
  <2>1. Same(d) BY <1>4 DEF ReadRequest, Receiving, Expected, TypeOK, Same
  <2> QED BY <2>1, SameKeeps
<1> QED BY <1>2, <1>3, <1>4

LEMMA HandleKeeps ==
    ASSUME IInv, NEW c \in Calls, Handle(c)
    PROVE  IInv'
<1> USE DEF IInv
<1>1. CallInv(c) OBVIOUS
<1>2. TypeOK' BY <1>1 DEF Handle, TypeOK, CallInv
<1>3. CallInv(c)' BY <1>1 DEF Handle, TypeOK, CallInv, Waiting
<1>4. ASSUME NEW d \in Calls, d # c PROVE CallInv(d)'
  <2>1. Same(d) BY <1>4 DEF Handle, TypeOK, Same
  <2> QED BY <2>1, SameKeeps
<1> QED BY <1>2, <1>3, <1>4

LEMMA ReplyKeeps ==
    ASSUME IInv, NEW c \in Calls, Reply(c)
    PROVE  IInv'
<1> USE DEF IInv
<1>1. CallInv(c) OBVIOUS
<1>2. CASE answer[c] = "huge"
  <2>1. TypeOK'
    <3>1. /\ task' = [task EXCEPT ![c] = "none"]
          /\ excuse' = [excuse EXCEPT ![c] = TRUE]
          /\ ends' = [ends EXCEPT ![c] = @ \ {"server"}]
          /\ UNCHANGED <<process, up, down, daemon, answer, served, deaths>>
      BY <1>2 DEF Reply
    <3>2. ends[c] \ {"server"} \in SUBSET {"client", "server"} BY DEF TypeOK
    <3> QED BY <3>1, <3>2 DEF TypeOK
  <2>2. CallInv(c)'
    <3>1. /\ task'[c] = "none" /\ ends'[c] = ends[c] \ {"server"} /\ excuse'[c] = TRUE
          /\ UNCHANGED <<pc, outcome, up, down, served>>
      BY <1>2 DEF Reply, TypeOK
    <3>2. "client" \in ends'[c] <=> "client" \in ends[c] BY <3>1
    <3> QED BY <1>1, <3>1, <3>2 DEF CallInv, Waiting
  <2>3. ASSUME NEW d \in Calls, d # c PROVE CallInv(d)'
    <3>1. Same(d) BY <1>2, <2>3 DEF Reply, Deliver, TypeOK, Same
    <3> QED BY <3>1, SameKeeps
  <2> QED BY <2>1, <2>2, <2>3
<1>3. CASE answer[c] # "huge" /\ "client" \notin ends[c]
  <2>1. TypeOK' BY <1>1, <1>3 DEF Reply, Deliver, TypeOK, CallInv
  <2>2. CallInv(c)' BY <1>1, <1>3 DEF Reply, Deliver, TypeOK, CallInv, Waiting
  <2>3. ASSUME NEW d \in Calls, d # c PROVE CallInv(d)'
    <3>1. Same(d) BY <1>3, <2>3 DEF Reply, Deliver, TypeOK, Same
    <3> QED BY <3>1, SameKeeps
  <2> QED BY <2>1, <2>2, <2>3
<1>4. CASE answer[c] # "huge" /\ "client" \in ends[c] /\ down[c] = 1
  <2>1. TypeOK' BY <1>1, <1>4 DEF Reply, Deliver, TypeOK, CallInv
  <2>2. CallInv(c)' BY <1>1, <1>4 DEF Reply, Deliver, TypeOK, CallInv, Waiting
  <2>3. ASSUME NEW d \in Calls, d # c PROVE CallInv(d)'
    <3>1. Same(d) BY <1>4, <2>3 DEF Reply, Deliver, TypeOK, Same
    <3> QED BY <3>1, SameKeeps
  <2> QED BY <2>1, <2>2, <2>3
<1>5. CASE answer[c] # "huge" /\ "client" \in ends[c] /\ down[c] # 1
  <2>1. TypeOK' BY <1>1, <1>5 DEF Reply, Deliver, TypeOK, CallInv
  <2>2. CallInv(c)' BY <1>1, <1>5 DEF Reply, Deliver, TypeOK, CallInv, Waiting
  <2>3. ASSUME NEW d \in Calls, d # c PROVE CallInv(d)'
    <3>1. Same(d) BY <1>5, <2>3 DEF Reply, Deliver, TypeOK, Same
    <3> QED BY <3>1, SameKeeps
  <2> QED BY <2>1, <2>2, <2>3
<1> QED BY <1>1, <1>2, <1>3, <1>4, <1>5 DEF Reply, Deliver, TypeOK, CallInv

LEMMA ExpireKeeps ==
    ASSUME IInv, NEW c \in Calls, Expire(c)
    PROVE  IInv'
<1> USE DEF IInv
<1>1. CallInv(c) OBVIOUS
<1>2. TypeOK' BY <1>1 DEF Expire, TimesOut, TypeOK, CallInv
<1>3. CallInv(c)' BY <1>1 DEF Expire, TimesOut, TypeOK, CallInv, Waiting
<1>4. ASSUME NEW d \in Calls, d # c PROVE CallInv(d)'
  <2>1. Same(d) BY <1>4 DEF Expire, TimesOut, TypeOK, Same
  <2> QED BY <2>1, SameKeeps
<1> QED BY <1>2, <1>3, <1>4

\* The daemon's end takes every task and every connection with it.
LEMMA DieKeeps ==
    ASSUME IInv, Die
    PROVE  IInv'
<1> USE DEF IInv
<1>1. TypeOK' BY DEF Die, TypeOK
<1>2. ASSUME NEW c \in Calls PROVE CallInv(c)'
  <2>1. CallInv(c) OBVIOUS
  <2> QED BY <2>1 DEF Die, TypeOK, CallInv, Waiting
<1> QED BY <1>1, <1>2

LEMMA ListenKeeps ==
    ASSUME IInv, Listen
    PROVE  IInv'
<1>1. \A c \in Calls : Same(c) BY DEF Listen, Same
<1> QED BY <1>1, SameKeeps DEF Listen, IInv, TypeOK

THEOREM InvHolds == Spec => []IInv
<1>1. Init => IInv BY DEF Init, IInv, TypeOK, CallInv, Waiting
<1>2. IInv /\ [Next]_vars => IInv'
  <2> SUFFICES ASSUME IInv, [Next]_vars PROVE IInv' OBVIOUS
  <2>1. ASSUME NEW c \in Calls, Process(c) PROVE IInv'
    BY <2>1, PasteKeeps, ConnectKeeps, WriteKeeps, ReadResponseKeeps, GiveUpKeeps,
       CopyKeeps DEF Process
  <2>2. ASSUME NEW c \in Calls, Task(c) PROVE IInv'
    BY <2>2, AcceptKeeps, ReadRequestKeeps, HandleKeeps, ReplyKeeps, ExpireKeeps DEF Task
  <2>3. CASE UNCHANGED vars
    <3>1. \A c \in Calls : Same(c) BY <2>3 DEF vars, Same
    <3> QED BY <2>3, <3>1, SameKeeps DEF vars, IInv, TypeOK
  <2> QED BY <2>1, <2>2, <2>3, BeginKeeps, DieKeeps, ListenKeeps DEF Next
<1> QED BY <1>1, <1>2, PTL DEF Spec

\* Every variable of ClientDelivery has its type.
THEOREM TypeCorrect == Spec => []TypeOK
<1>1. IInv => TypeOK BY DEF IInv
<1> QED BY <1>1, InvHolds, PTL

\* The command calls the service unavailable only for a cause.
THEOREM UnavailableHasCause == Spec => []FailureHasCause
<1>1. IInv => FailureHasCause BY DEF IInv, CallInv, FailureHasCause
<1> QED BY <1>1, InvHolds, PTL

-----------------------------------------------------------------------------
(* The refinement.                                                         *)

calls == [c \in Calls |-> CallState(c)]

LEMMA OthersStay ==
    ASSUME NEW c \in Calls,
           \A d \in Calls : d # c => pc'[d] = pc[d] /\ outcome'[d] = outcome[d]
    PROVE  calls' = [calls EXCEPT ![c] = CallState(c)']
<1>1. ASSUME NEW d \in Calls, d # c PROVE CallState(d)' = CallState(d)
  BY <1>1 DEF CallState
<1> QED BY <1>1 DEF calls

\* Of a process its caller sees that it starts, and how it ends.
LEMMA ProcessRefines ==
    ASSUME IInv, NEW c \in Calls, Begin(c) \/ Process(c)
    PROVE  [Remote!Next]_(Remote!callVars)
<1> USE DEF IInv
<1>1. CallInv(c) OBVIOUS
<1>2. /\ \A d \in Calls : d # c => pc'[d] = pc[d] /\ outcome'[d] = outcome[d]
      /\ UNCHANGED served
  BY DEF TypeOK, Begin, Process, Paste, Connect, Write, ReadResponse, Received,
         GiveUp, Copy
<1>3. calls' = [calls EXCEPT ![c] = CallState(c)'] BY <1>2, OthersStay
<1>4. calls[c] = CallState(c) BY DEF calls
<1>5. \/ CallState(c)' = CallState(c)
      \/ CallState(c) = "idle" /\ CallState(c)' = "waiting"
      \/ CallState(c) = "waiting" /\ CallState(c)' = "lost"
      \/ CallState(c) = "waiting" /\ CallState(c)' = "answered" /\ served[c] = 1
  <2>1. CASE Begin(c) BY <1>1, <2>1 DEF Begin, TypeOK, CallInv, CallState
  <2>2. CASE Paste(c) BY <1>1, <2>2 DEF Paste, TypeOK, CallInv, CallState
  <2>3. CASE Connect(c) BY <1>1, <2>3 DEF Connect, TypeOK, CallInv, CallState
  <2>4. CASE Write(c) BY <1>1, <2>4 DEF Write, TypeOK, CallInv, CallState
  <2>5. CASE ReadResponse(c)
    BY <1>1, <2>5 DEF ReadResponse, Reading, Needed, Received, TypeOK, CallInv, CallState
  <2>6. CASE GiveUp(c) BY <1>1, <2>6 DEF GiveUp, Impatient, TypeOK, CallInv, CallState
  <2>7. CASE Copy(c) BY <1>1, <2>7 DEF Copy, TypeOK, CallInv, CallState
  <2> QED BY <2>1, <2>2, <2>3, <2>4, <2>5, <2>6, <2>7 DEF Process
<1>6. CASE CallState(c)' = CallState(c)
  <2>1. calls' = calls BY <1>3, <1>4, <1>6 DEF calls
  <2> QED BY <1>2, <2>1 DEF Remote!callVars, calls
<1>7. CASE CallState(c) = "idle" /\ CallState(c)' = "waiting"
  <2>1. Remote!Start(c) BY <1>2, <1>3, <1>4, <1>7 DEF Remote!Start, Remote!Become, calls
  <2> QED BY <2>1 DEF Remote!Next
<1>8. CASE CallState(c) = "waiting" /\ CallState(c)' = "lost"
  <2>1. Remote!Lose(c) BY <1>2, <1>3, <1>4, <1>8 DEF Remote!Lose, Remote!Become, calls
  <2> QED BY <2>1 DEF Remote!Next
<1>9. CASE CallState(c) = "waiting" /\ CallState(c)' = "answered" /\ served[c] = 1
  <2>1. Remote!Return(c)
    BY <1>2, <1>3, <1>4, <1>9 DEF Remote!Return, Remote!Become, calls
  <2> QED BY <2>1 DEF Remote!Next
<1> QED BY <1>5, <1>6, <1>7, <1>8, <1>9

\* Of the daemon only Handle counts, and it comes once.
LEMMA DaemonRefines ==
    ASSUME IInv, (\E c \in Calls : Task(c)) \/ Die \/ Listen \/ UNCHANGED vars
    PROVE  [Remote!Next]_(Remote!callVars)
<1> USE DEF IInv
<1>1. UNCHANGED <<pc, outcome>>
  BY DEF Task, Accept, ReadRequest, Handle, Reply, Expire, Die, Listen, vars
<1>2. calls' = calls BY <1>1 DEF calls, CallState
<1>3. CASE UNCHANGED served BY <1>2, <1>3 DEF Remote!callVars, calls
<1>4. ASSUME NEW c \in Calls, Handle(c) PROVE Remote!Next
  <2>1. CallInv(c) OBVIOUS
  <2>2. task[c] = "handle" /\ served[c] = 0 BY <1>4, <2>1 DEF Handle, CallInv
  <2>3. calls[c] \in {"waiting", "lost"}
    BY <2>1, <2>2 DEF calls, CallState, CallInv, TypeOK
  <2>4. served' = [served EXCEPT ![c] = 1] BY <1>4, <2>2 DEF Handle, TypeOK
  <2>5. Remote!Serve(c) BY <1>2, <2>2, <2>3, <2>4 DEF Remote!Serve, calls
  <2> QED BY <2>5 DEF Remote!Next
<1> QED
  BY <1>3, <1>4 DEF Task, Accept, ReadRequest, Reply, Expire, Die, Listen, vars

\* A request is served at most once, and what is printed as an answer is one.
THEOREM DeliveryIsRemoteCall == Spec => IsRemoteCall
<1>1. Init => Remote!Init BY DEF Init, Remote!Init, CallState
<1>2. IInv /\ [Next]_vars => [Remote!Next]_(Remote!callVars)
  BY ProcessRefines, DaemonRefines DEF Next
<1> QED BY <1>1, <1>2, InvHolds, PTL DEF Spec, IsRemoteCall, Remote!Spec
-----------------------------------------------------------------------------
(* What RemoteCall's reader may rely on, brought back to the sockets.      *)

\* A request is served at most once; what is printed as an answer was served.
ServedOnce ==
    \A c \in Calls :
        /\ served[c] \in {0, 1}
        /\ CallState(c) = "idle" => served[c] = 0
        /\ CallState(c) = "answered" => served[c] = 1

\* What a command printed stands, and what was served stays served; a call that was
\* given up may still be served.
EndsAreFinal ==
    \A c \in Calls :
        /\ CallState(c) \in {"answered", "lost"} => CallState(c)' = CallState(c)
        /\ served[c] = 1 => served'[c] = 1

\* A step of RemoteCall, call by call.
LEMMA RemoteStep ==
    ASSUME served \in [Calls -> {0, 1}], [Remote!Next]_(Remote!callVars), NEW d \in Calls
    PROVE  \/ CallState(d)' = CallState(d) /\ served'[d] = served[d]
           \/ CallState(d) = "idle" /\ CallState(d)' = "waiting" /\ served'[d] = served[d]
           \/ CallState(d) = "waiting" /\ CallState(d)' = "lost" /\ served'[d] = served[d]
           \/ /\ CallState(d) = "waiting" /\ CallState(d)' = "answered"
              /\ served[d] = 1 /\ served'[d] = 1
           \/ /\ CallState(d) \in {"waiting", "lost"} /\ CallState(d)' = CallState(d)
              /\ served'[d] = 1
<1>1. calls[d] = CallState(d) /\ calls'[d] = CallState(d)' BY DEF calls
<1>2. CASE UNCHANGED Remote!callVars BY <1>1, <1>2 DEF Remote!callVars, calls
<1>3. ASSUME NEW c \in Calls, NEW st, calls' = [calls EXCEPT ![c] = st]
      PROVE  CallState(d)' = IF d = c THEN st ELSE CallState(d)
  BY <1>1, <1>3 DEF calls
<1>4. ASSUME NEW c \in Calls,
             Remote!Start(c) \/ Remote!Serve(c) \/ Remote!Return(c) \/ Remote!Lose(c)
      PROVE  \/ CallState(c) = "idle" /\ calls' = [calls EXCEPT ![c] = "waiting"]
                  /\ UNCHANGED served
             \/ /\ CallState(c) \in {"waiting", "lost"} /\ calls' = calls
                /\ served' = [served EXCEPT ![c] = 1]
             \/ /\ CallState(c) = "waiting" /\ calls' = [calls EXCEPT ![c] = "answered"]
                /\ served[c] = 1 /\ UNCHANGED served
             \/ CallState(c) = "waiting" /\ calls' = [calls EXCEPT ![c] = "lost"]
                  /\ UNCHANGED served
  BY <1>4 DEF calls, Remote!Start, Remote!Serve, Remote!Return, Remote!Lose, Remote!Become
<1>5. ASSUME calls' = calls PROVE CallState(d)' = CallState(d) BY <1>1, <1>5
<1> QED BY <1>2, <1>3, <1>4, <1>5 DEF Remote!Next

LEMMA RemotePromises ==
    Remote!Spec => []ServedOnce /\ [][EndsAreFinal]_(Remote!callVars)
<1> DEFINE Typed == served \in [Calls -> {0, 1}]
<1>1. Remote!Init => Typed /\ ServedOnce
  BY DEF Remote!Init, ServedOnce
<1>2. Typed /\ [Remote!Next]_(Remote!callVars) => Typed'
  BY DEF Remote!Next, Remote!Start, Remote!Serve, Remote!Return, Remote!Lose,
         Remote!Become, Remote!callVars
<1>3. Typed /\ ServedOnce /\ [Remote!Next]_(Remote!callVars) => ServedOnce'
  BY RemoteStep, <1>2 DEF ServedOnce
<1>4. Typed /\ [Remote!Next]_(Remote!callVars) => [EndsAreFinal]_(Remote!callVars)
  BY RemoteStep DEF EndsAreFinal
<1> QED BY <1>1, <1>2, <1>3, <1>4, PTL DEF Remote!Spec

\* Of any number of commands, whose sides give up when they like, beside a daemon that
\* may die: no request is served twice, and no command's outcome is revised.
THEOREM CallsAreFinal == Spec => []ServedOnce /\ [][EndsAreFinal]_(Remote!callVars)
BY DeliveryIsRemoteCall, RemotePromises, PTL DEF IsRemoteCall

-----------------------------------------------------------------------------
(* Both sides of a call only advance.                                      *)

\* The steps a command has still to take at most, and those of its task.
CommandStage ==
    [idle |-> 8, paste |-> 7, connect |-> 6, write |-> 5, prefix |-> 3, body |-> 2,
     copy |-> 1, ended |-> 0]
TaskStage ==
    [none |-> 0, backlog |-> 6, prefix |-> 5, body |-> 4, handle |-> 3, reply |-> 2]
CommandWork(c) == CommandStage[pc[c]] - (IF pc[c] = "write" THEN up[c] ELSE 0)
TaskWork(c) == TaskStage[task[c]] - (IF task[c] = "reply" THEN down[c] ELSE 0)

Command(c) == Begin(c) \/ Process(c)

\* A command and its task each come nearer to their end with every step they take,
\* whatever the other one, other calls and the daemon's ends do meanwhile; a task has
\* work given to it once, by the command's connect.
CallsOnlyAdvance ==
    [][\A c \in Calls :
         /\ IF Command(c) THEN CommandWork(c)' \in 0..(CommandWork(c) - 1)
            ELSE CommandWork(c)' = CommandWork(c)
         /\ \/ TaskWork(c)' \in 0..TaskWork(c)
            \/ pc[c] = "connect" /\ pc'[c] = "write"
         /\ Task(c) => TaskWork(c)' \in 0..(TaskWork(c) - 1)]_vars

LEMMA CommandGoesOn ==
    ASSUME IInv, NEW c \in Calls, Command(c)
    PROVE  /\ CommandWork(c)' \in 0..(CommandWork(c) - 1)
           /\ TaskWork(c)' = TaskWork(c) \/ (pc[c] = "connect" /\ pc'[c] = "write")
<1> USE DEF IInv, TypeOK, CommandWork, CommandStage, TaskWork
<1>1. CallInv(c) OBVIOUS
<1>2. CASE Begin(c) BY <1>1, <1>2 DEF Begin
<1>3. CASE Paste(c) BY <1>1, <1>3 DEF Paste
<1>4. CASE Connect(c) BY <1>1, <1>4 DEF Connect, CallInv
<1>5. CASE Write(c) BY <1>1, <1>5 DEF Write, CallInv
<1>6. CASE ReadResponse(c)
  BY <1>1, <1>6 DEF ReadResponse, Reading, Received
<1>7. CASE GiveUp(c) BY <1>1, <1>7 DEF GiveUp, Impatient, CallInv
<1>8. CASE Copy(c) BY <1>1, <1>8 DEF Copy
<1> QED BY <1>2, <1>3, <1>4, <1>5, <1>6, <1>7, <1>8 DEF Command, Process

LEMMA TaskGoesOn ==
    ASSUME IInv, NEW c \in Calls, Task(c)
    PROVE  /\ CommandWork(c)' = CommandWork(c)
           /\ TaskWork(c)' \in 0..(TaskWork(c) - 1)
<1> USE DEF IInv, TypeOK, CommandWork, TaskWork, TaskStage
<1>1. CallInv(c) OBVIOUS
<1>2. CASE Accept(c) BY <1>1, <1>2 DEF Accept
<1>3. CASE ReadRequest(c) BY <1>1, <1>3 DEF ReadRequest, Receiving
<1>4. CASE Handle(c) BY <1>1, <1>4 DEF Handle, CallInv
<1>5. CASE Reply(c) BY <1>1, <1>5 DEF Reply, Deliver, CallInv
<1>6. CASE Expire(c) BY <1>1, <1>6 DEF Expire, TimesOut, CallInv
<1> QED BY <1>2, <1>3, <1>4, <1>5, <1>6 DEF Task

\* Calls share nothing but the daemon.
LEMMA CallsAreApart ==
    ASSUME IInv, NEW d \in Calls, NEW c \in Calls, c # d, Command(d) \/ Task(d)
    PROVE  CommandWork(c)' = CommandWork(c) /\ TaskWork(c)' = TaskWork(c)
<1> SUFFICES /\ pc'[c] = pc[c] /\ up'[c] = up[c]
             /\ task'[c] = task[c] /\ down'[c] = down[c]
  BY DEF CommandWork, TaskWork
<1> USE DEF IInv, TypeOK
<1>1. CASE Begin(d) BY <1>1 DEF Begin
<1>2. CASE Paste(d) BY <1>2 DEF Paste
<1>3. CASE Connect(d) BY <1>3 DEF Connect
<1>4. CASE Write(d) BY <1>4 DEF Write
<1>5. CASE ReadResponse(d) BY <1>5 DEF ReadResponse, Received
<1>6. CASE GiveUp(d) \/ Copy(d) BY <1>6 DEF GiveUp, Copy
<1>7. CASE Accept(d) \/ Handle(d) \/ Expire(d) BY <1>7 DEF Accept, Handle, Expire
<1>8. CASE ReadRequest(d) BY <1>8 DEF ReadRequest
<1>9. CASE Reply(d) BY <1>9 DEF Reply, Deliver
<1> QED
  BY <1>1, <1>2, <1>3, <1>4, <1>5, <1>6, <1>7, <1>8, <1>9 DEF Command, Process, Task

LEMMA TaskWorkIsNatural ==
    ASSUME IInv, NEW c \in Calls
    PROVE  TaskWork(c) \in Nat
BY DEF IInv, TypeOK, CallInv, TaskWork, TaskStage

LEMMA StepAdvances ==
    ASSUME IInv, [Next]_vars, NEW c \in Calls
    PROVE  /\ IF Command(c) THEN CommandWork(c)' \in 0..(CommandWork(c) - 1)
              ELSE CommandWork(c)' = CommandWork(c)
           /\ \/ TaskWork(c)' \in 0..TaskWork(c)
              \/ pc[c] = "connect" /\ pc'[c] = "write"
           /\ Task(c) => TaskWork(c)' \in 0..(TaskWork(c) - 1)
<1>0. TaskWork(c) \in Nat BY TaskWorkIsNatural
<1>1. CASE Command(c) /\ ~Task(c) BY <1>0, <1>1, CommandGoesOn
<1>2. CASE Task(c)
  <2>1. CommandWork(c)' = CommandWork(c) /\ TaskWork(c)' \in 0..(TaskWork(c) - 1)
    BY <1>2, TaskGoesOn
  <2>2. ~Command(c) BY <2>1, CommandGoesOn
  <2> QED BY <1>0, <2>1, <2>2
<1>3. CASE ~Command(c) /\ ~Task(c)
  <2> SUFFICES CommandWork(c)' = CommandWork(c) /\ TaskWork(c)' \in 0..TaskWork(c)
    BY <1>3
  <2>1. ASSUME NEW d \in Calls, Command(d) \/ Task(d)
        PROVE  CommandWork(c)' = CommandWork(c) /\ TaskWork(c)' \in 0..TaskWork(c)
    BY <1>0, <1>3, <2>1, CallsAreApart
  <2>2. CASE Die BY <1>0, <2>2 DEF Die, CommandWork, TaskWork, TaskStage
  <2>3. CASE Listen \/ UNCHANGED vars
    BY <1>0, <2>3 DEF Listen, vars, CommandWork, TaskWork
  <2> QED BY <2>1, <2>2, <2>3 DEF Next, Command
<1> QED BY <1>1, <1>2, <1>3

\* For any number of calls: what ConnectionsEnd and CallsEnd need beside a scheduler.
THEOREM CallsTakeBoundedSteps == Spec => CallsOnlyAdvance
<1>1. IInv /\ [Next]_vars =>
        [\A c \in Calls :
           /\ IF Command(c) THEN CommandWork(c)' \in 0..(CommandWork(c) - 1)
              ELSE CommandWork(c)' = CommandWork(c)
           /\ \/ TaskWork(c)' \in 0..TaskWork(c)
              \/ pc[c] = "connect" /\ pc'[c] = "write"
           /\ Task(c) => TaskWork(c)' \in 0..(TaskWork(c) - 1)]_vars
  BY StepAdvances
<1> QED BY <1>1, InvHolds, PTL DEF Spec, CallsOnlyAdvance
=============================================================================
