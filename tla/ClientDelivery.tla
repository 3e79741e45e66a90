---------------------------- MODULE ClientDelivery ----------------------------
(***************************************************************************)
(* How a request gets to premonitiond and its answer back: execute and     *)
(* send of the command line (premonition-cli/src/main.rs), the accept loop *)
(* and serve_one of the daemon (premonition-daemon/src/main.rs), and the   *)
(* frames between them (premonition-protocol/src/lib.rs).  Every run of    *)
(* the command is a process, a connection and a task of the daemon, which  *)
(* do not wait for each other: either side may give up, the daemon may be  *)
(* killed, and a request goes on being served when its sender is gone.     *)
(*                                                                         *)
(* A frame is two pieces, its length and its JSON.  What the service does  *)
(* with a request is ProposalService.tla; here it is one step, as late as  *)
(* the gate makes it.                                                      *)
(***************************************************************************)
EXTENDS Naturals

CONSTANTS
    Calls,    \* runs of the command
    MaxDeaths \* bound on ends of the daemon

ASSUME DeathAssumption == MaxDeaths \in Nat

VARIABLES
    daemon,  \* the daemon is "up", with its listener, or "down"
    pc,      \* where execute is
    op,      \* what the command was called for
    up,      \* pieces of the request in the socket
    down,    \* pieces of the response in the socket
    ends,    \* ends of the connection that are open
    task,    \* where serve_one is
    answer,  \* the response of the service
    outcome, \* what the command prints
    served,  \* history: times the service handled the request
    excuse,  \* history: something befell the call that may keep it from its answer
    deaths   \* history: ends of the daemon

process == <<pc, op, outcome>>
connection == <<up, down, ends>>
server == <<daemon, task, answer, served, deaths>>
vars == <<process, connection, server, excuse>>

\* "ask" stands for every operation without a clipboard.
Ops == {"ask", "paste", "copy"}
\* "huge" cannot be delivered.  Its JSON exceeds MAX_FRAME_BYTES: a patch may
\* have MAX_PATCH_BYTES before its tabs and quotes are escaped.  Or it is refused
\* by Response.validate: a rationale may hold direction marks, which the check of
\* the executor (char::is_control) lets pass.
Answers == {"ok", "error", "huge"}
Outcomes == {"answered", "copied", "invalid", "unavailable", "clipboard"}

TypeOK ==
    /\ daemon \in {"up", "down"}
    /\ pc \in [Calls -> {"idle", "paste", "connect", "write", "prefix", "body",
                         "copy", "ended"}]
    /\ op \in [Calls -> Ops]
    /\ up \in [Calls -> 0..2]
    /\ down \in [Calls -> 0..2]
    /\ ends \in [Calls -> SUBSET {"client", "server"}]
    /\ task \in [Calls -> {"none", "backlog", "prefix", "body", "handle", "reply"}]
    /\ answer \in [Calls -> Answers \cup {"none"}]
    /\ outcome \in [Calls -> Outcomes \cup {"none"}]
    /\ served \in [Calls -> Nat]
    /\ excuse \in [Calls -> BOOLEAN]
    /\ deaths \in 0..MaxDeaths

Init ==
    /\ daemon \in {"up", "down"}
    /\ pc = [c \in Calls |-> "idle"]
    /\ op = [c \in Calls |-> "ask"]
    /\ up = [c \in Calls |-> 0]
    /\ down = [c \in Calls |-> 0]
    /\ ends = [c \in Calls |-> {}]
    /\ task = [c \in Calls |-> "none"]
    /\ answer = [c \in Calls |-> "none"]
    /\ outcome = [c \in Calls |-> "none"]
    /\ served = [c \in Calls |-> 0]
    /\ excuse = [c \in Calls |-> FALSE]
    /\ deaths = 0

Excused(c) == excuse' = [excuse EXCEPT ![c] = TRUE]

-----------------------------------------------------------------------------
(* The command.                                                            *)

Goto(c, p) ==
    /\ pc' = [pc EXCEPT ![c] = p]
    /\ UNCHANGED outcome

\* The process prints and exits; the kernel closes its end.
End(c, result) ==
    /\ pc' = [pc EXCEPT ![c] = "ended"]
    /\ outcome' = [outcome EXCEPT ![c] = result]
    /\ ends' = [ends EXCEPT ![c] = @ \ {"client"}]

\* Somebody runs the command.
Begin(c) ==
    /\ pc[c] = "idle"
    /\ \E o \in Ops :
         /\ op' = [op EXCEPT ![c] = o]
         /\ Goto(c, IF o = "paste" THEN "paste" ELSE "connect")
    /\ UNCHANGED <<connection, server, excuse>>

\* read_clipboard.
Paste(c) ==
    /\ pc[c] = "paste"
    /\ \/ Goto(c, "connect") /\ UNCHANGED ends
       \/ End(c, "clipboard")
    /\ UNCHANGED <<op, up, down, server, excuse>>

\* Request.validate refuses it; or connect: nobody listens, the backlog is full
\* for two seconds, or the kernel takes the connection.
Connect(c) ==
    /\ pc[c] = "connect"
    /\ \/ /\ End(c, "invalid")
          /\ UNCHANGED <<task, excuse>>
       \/ /\ End(c, "unavailable")
          /\ Excused(c)
          /\ UNCHANGED task
       \/ /\ daemon = "up"
          /\ Goto(c, "write")
          /\ ends' = [ends EXCEPT ![c] = {"client", "server"}]
          /\ task' = [task EXCEPT ![c] = "backlog"]
          /\ UNCHANGED excuse
    /\ UNCHANGED <<op, up, down, daemon, answer, served, deaths>>

\* write_all: the daemon's end may be gone.
Write(c) ==
    /\ pc[c] = "write"
    /\ IF "server" \in ends[c]
       THEN /\ up' = [up EXCEPT ![c] = @ + 1]
            /\ Goto(c, IF up[c] = 1 THEN "prefix" ELSE "write")
            /\ UNCHANGED ends
       ELSE End(c, "unavailable") /\ UNCHANGED up
    /\ UNCHANGED <<op, down, server, excuse>>

Reading(c) == pc[c] \in {"prefix", "body"}
Needed(c) == IF pc[c] = "prefix" THEN 1 ELSE 2

\* The whole response is there; only a copy has more to do with it.
Received(c) ==
    IF op[c] = "copy" /\ answer[c] = "ok"
    THEN Goto(c, "copy") /\ UNCHANGED ends
    ELSE End(c, "answered")

\* read_exact, of the prefix and of the body: what is in the socket is read
\* before its end is noticed.
ReadResponse(c) ==
    /\ Reading(c)
    /\ IF down[c] >= Needed(c)
       THEN IF pc[c] = "prefix" THEN Goto(c, "body") /\ UNCHANGED ends
            ELSE Received(c)
       ELSE "server" \notin ends[c] /\ End(c, "unavailable")
    /\ UNCHANGED <<op, up, down, server, excuse>>

\* Mutant of Impatient: the response's length is awaited without a timeout.
ImpatientLater(c) == pc[c] \in {"write", "body"}

Impatient(c) == pc[c] \in {"write", "prefix", "body"}

\* Five seconds for the request, 300 for the prefix, five for the body.
GiveUp(c) ==
    /\ Impatient(c)
    /\ End(c, "unavailable")
    /\ Excused(c)
    /\ UNCHANGED <<op, up, down, server>>

\* write_clipboard.
Copy(c) ==
    /\ pc[c] = "copy"
    /\ End(c, "copied") \/ End(c, "clipboard")
    /\ UNCHANGED <<op, up, down, server, excuse>>

Process(c) ==
    \/ Paste(c) \/ Connect(c) \/ Write(c) \/ ReadResponse(c) \/ GiveUp(c) \/ Copy(c)

-----------------------------------------------------------------------------
(* The daemon.                                                             *)

\* serve_one returns, and its stream is dropped.
Drop(c) ==
    /\ task' = [task EXCEPT ![c] = "none"]
    /\ ends' = [ends EXCEPT ![c] = @ \ {"server"}]

Accept(c) ==
    /\ task[c] = "backlog"
    /\ task' = [task EXCEPT ![c] = "prefix"]
    /\ UNCHANGED <<process, connection, daemon, answer, served, deaths, excuse>>

Receiving(c) == task[c] \in {"prefix", "body"}
Expected(c) == IF task[c] = "prefix" THEN 1 ELSE 2

\* read_exact of the request: of a client that is gone what it sent is read.
ReadRequest(c) ==
    /\ Receiving(c)
    /\ IF up[c] >= Expected(c)
       THEN /\ task' = [task EXCEPT ![c] = IF @ = "prefix" THEN "body" ELSE "handle"]
            /\ UNCHANGED ends
       ELSE "client" \notin ends[c] /\ Drop(c)
    /\ UNCHANGED <<process, up, down, daemon, answer, served, deaths, excuse>>

\* Service::handle, whether or not the client still waits.
Handle(c) ==
    /\ task[c] = "handle"
    /\ answer' \in {[answer EXCEPT ![c] = a] : a \in Answers}
    /\ served' = [served EXCEPT ![c] = @ + 1]
    /\ task' = [task EXCEPT ![c] = "reply"]
    /\ UNCHANGED <<process, connection, daemon, deaths, excuse>>

\* Mutant of Deliver: a response that cannot be written is made again.
DeliverAgain(c) ==
    IF "client" \in ends[c]
    THEN /\ down' = [down EXCEPT ![c] = @ + 1]
         /\ IF down[c] = 1 THEN Drop(c) ELSE UNCHANGED <<task, ends>>
    ELSE task' = [task EXCEPT ![c] = "handle"] /\ UNCHANGED <<down, ends>>

\* Mutant of Deliver: the stream is dropped with a piece still to be written.
DeliverHalf(c) ==
    IF "client" \in ends[c]
    THEN down' = [down EXCEPT ![c] = @ + 1] /\ Drop(c)
    ELSE Drop(c) /\ UNCHANGED down

\* Mutant of Deliver: it goes on writing after the last piece.
DeliverMore(c) ==
    IF "client" \in ends[c]
    THEN down' = [down EXCEPT ![c] = @ + 1] /\ UNCHANGED <<task, ends>>
    ELSE Drop(c) /\ UNCHANGED down

\* write_all of the response, and shutdown after its last piece.
Deliver(c) ==
    IF "client" \in ends[c]
    THEN /\ down' = [down EXCEPT ![c] = @ + 1]
         /\ IF down[c] = 1 THEN Drop(c) ELSE UNCHANGED <<task, ends>>
    ELSE Drop(c) /\ UNCHANGED down

\* Response.validate or encode_frame refuses the response: then there is none.
Reply(c) ==
    /\ task[c] = "reply"
    /\ IF answer[c] = "huge" THEN Drop(c) /\ Excused(c) /\ UNCHANGED down
       ELSE Deliver(c) /\ UNCHANGED excuse
    /\ UNCHANGED <<process, up, daemon, answer, served, deaths>>

\* Mutant of TimesOut: the JSON of a request is awaited without a timeout.
TimesOutEarly(c) == task[c] \in {"prefix", "reply"}

TimesOut(c) == task[c] \in {"prefix", "body", "reply"}

\* Five seconds for each piece of the request and for the response.
Expire(c) ==
    /\ TimesOut(c)
    /\ Drop(c)
    /\ Excused(c)
    /\ UNCHANGED <<process, up, down, daemon, answer, served, deaths>>

Task(c) == Accept(c) \/ ReadRequest(c) \/ Handle(c) \/ Reply(c) \/ Expire(c)

\* SIGINT or a crash: the listener, its backlog and every task are gone.  What
\* was sent stays in the sockets.
Die ==
    /\ daemon = "up"
    /\ deaths < MaxDeaths
    /\ deaths' = deaths + 1
    /\ daemon' = "down"
    /\ task' = [c \in Calls |-> "none"]
    /\ ends' = [c \in Calls |-> ends[c] \ {"server"}]
    /\ excuse' = [c \in Calls |-> excuse[c] \/ "server" \in ends[c]]
    /\ UNCHANGED <<process, up, down, answer, served>>

\* bind_owner_socket: a socket nobody listens on is removed and bound anew.
Listen ==
    /\ daemon = "down"
    /\ daemon' = "up"
    /\ UNCHANGED <<process, connection, task, answer, served, deaths, excuse>>

Next ==
    \/ \E c \in Calls : Begin(c) \/ Process(c) \/ Task(c)
    \/ Die
    \/ Listen

Spec == Init /\ [][Next]_vars

\* The runtime polls the tasks, their timers fire, and handle returns (this is
\* EveryRequestAnswered of ProposalService.tla).
TasksRun == \A c \in Calls : WF_vars(Task(c))

\* The command is not stopped, its timers fire, and the clipboard program it
\* starts closes its pipe.
CommandsRun == \A c \in Calls : WF_vars(Process(c))

-----------------------------------------------------------------------------
\* The command says that the service is unavailable only if something happened
\* to the call: nobody listened, one side's time ran out, the daemon died, or
\* the response could not be put into a frame.  Neither the order in which the two
\* sides write, read and close nor a client beside this one can do it.
FailureHasCause == \A c \in Calls : outcome[c] = "unavailable" => excuse[c]

\* The caller's view of the protocol.
CallState(c) ==
    CASE pc[c] = "idle" -> "idle"
      [] outcome[c] \in {"answered", "copied"} -> "answered"
      [] outcome[c] \in {"invalid", "unavailable", "clipboard"} -> "lost"
      [] OTHER -> "waiting"
Remote == INSTANCE RemoteCall WITH call <- [c \in Calls |-> CallState(c)]

\* A request is served at most once, however its connection ends, and only an
\* answer of the service to this request is printed as one.
IsRemoteCall == Remote!Spec

\* No connection keeps a task of the daemon for good, even of a client that
\* stops in the middle of its request or never reads its answer.
ConnectionsEnd ==
    TasksRun => \A c \in Calls : task[c] # "none" ~> task[c] = "none"

\* A command ends, even when the daemon hangs with its connection open.
CallsEnd ==
    CommandsRun => \A c \in Calls : pc[c] # "idle" ~> pc[c] = "ended"
=============================================================================
