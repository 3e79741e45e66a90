---------------------------- MODULE ChildProcesses -----------------------------
(***************************************************************************)
(* The daemon starts two programs, the agent (AgentProcess) and Git        *)
(* (GitRun), never both at once and with nothing shared between the two    *)
(* calls.  One specification holds both, so that one run explores them:    *)
(* a behaviour is a call of the one or of the other.                       *)
(***************************************************************************)
EXTENDS AgentProcess

CONSTANTS
    GitPipeSize, \* what a pipe to or from Git holds
    MaxInput     \* bound on the input of Git

ASSUME GitSizeAssumption == GitPipeSize \in Nat \ {0} /\ MaxInput \in Nat

VARIABLES caller, reason, result, git, code, filter, owed, stdin, writer,
          output, sent, kept, drain, events, clock

gitVars == <<caller, reason, result, git, code, filter, owed, stdin, writer,
             output, sent, kept, drain, events, clock>>

Git == INSTANCE GitRun WITH PipeSize <- GitPipeSize

\* A call that is not made is one that has returned.
NoAgent ==
    /\ probing = FALSE
    /\ runner = "returned"
    /\ verdict = "none"
    /\ outcome = "configuration"
    /\ child = "none" /\ status = "none" /\ kin = "none" /\ holding = FALSE
    /\ pipe = [s \in Streams |-> 0]
    /\ wrote = pipe
    /\ got = pipe
    /\ reader = [s \in Streams |-> "none"]
    /\ limits = 0
    /\ canceller = "ready" /\ arm = "unpolled"
    /\ timer = "off"

NoGit ==
    /\ caller = "returned"
    /\ reason = "none"
    /\ result = "binary_changed"
    /\ git = "none" /\ code = "none" /\ filter = "none"
    /\ owed = 0 /\ stdin = 0 /\ writer = "none"
    /\ output = [s \in Git!Outputs |-> 0]
    /\ sent = output
    /\ kept = output
    /\ drain = [s \in Git!Outputs |-> "none"]
    /\ events = 0
    /\ clock = "off"

EitherInit == (Init /\ NoGit) \/ (NoAgent /\ Git!Init)

AgentStep == Next /\ UNCHANGED gitVars
GitStep == Git!Next /\ UNCHANGED vars

EitherSpec ==
    /\ EitherInit
    /\ [][AgentStep \/ GitStep]_<<vars, gitVars>>
    /\ Fairness
    /\ Git!Fairness

\* GitRun's own properties, which are stated there.
\* The type invariant of GitRun, its readers' ceilings included.
GitTypeOK == Git!TypeOK

\* An Ok of Git means that all of the patch was written to its pipe and that all of its
\* output was read; what Git does with the end of its pipe is its own.
GitComplete == Git!Complete

\* Neither program's call can wait for ever, except for a descendant that holds a
\* pipe: the one way in which agent_hang hangs is the only one.
OnlyDescendantsAreAwaited == OnlyKinIsAwaited /\ Git!OnlyFilterIsAwaited

\* Every call of Git returns, and leaves no process and no thread.
GitEnds == Git!RunEnds
=============================================================================
