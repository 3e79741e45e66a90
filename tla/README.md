# Premonition: models, checks and proofs

TLA+ modules for [Premonition](../src/README.md), a service that turns an observed error into a
reviewed patch: a daemon asks a local agent for a candidate, validates it, shows it, and publishes
it to the working tree only when the user says Apply. The modules translate the code under `src/`;
`PROJECT.json` maps every definition to its lines. Paths below are relative to `src/`, crates to
`src/crates/premonition-*`.

## 1. The system

```
 panel (QML) --starts--> premonition (CLI) --unix socket--> premonitiond
                                                              Service: gate, inner, job
                                                             /            |          \
                                                   agent executor   SafetyCore    ApplyEngine
                                                   (child, pipes)  (parser, git,  (journal, renames)
                                                                    snapshot)
```

| component | state | operations | what is hard |
|---|---|---|---|
| Apply engine, `core/src/apply.rs` | repository files, `.new`/`.bak` beside them, `tx-<id>/` with stage and `journal.json` | `apply`, `recover` | a crash or error between any two file-system calls, in recovery too; editors; a second daemon |
| Proposal service, `daemon/src/lib.rs` | `Inner`: state, active, failure, recent, terminal, request cache; two locks | `handle` and one method per operation; the spawned job, `finish_job` | clients beside a job, repeated and reordered requests, bounded caches, restart |
| Daemon, `daemon/src/main.rs` | socket, connections | start (recover, then bind), accept, `serve_one` | slow or dead peers; a stop with connections open |
| Agent executor, `executor/src/lib.rs` | child, process group, two pipe readers, deadline, Cancellation | `run`, `probe_version` | exit, deadline, cancel, overflow in any order; descendants |
| Git runner, `core/src/git.rs` | child, one writer and two reader threads, deadline | `run` | three pipes that may fill; an exit before the input is written |
| Patch parser, `core/src/diff.rs` | position in the text, counts, files seen | `ParsedPatch::parse` | agreeing with a second reader of the text, Git |
| Snapshot and repository, `core/src/{snapshot,repository}.rs` | the recorded identity of the tree | `capture`, `revalidate`, `validate_change_path` | a walk of many system calls beside writers |
| Panel, `PremonitionSurface.qml` | state, proposal, fetched patch, windows, three processes | poll, review, actions | late, lost and crossing answers; other clients |
| Client, `cli/src/main.rs` | one connection, one answer | `execute`, `send`, clipboard programs | timeouts of two sides that cross |
| Protocol, limits, redaction, bar widget, scripts | none, or constants | | |

What makes each correct: the engine publishes all or nothing and never loses a text of the user's own; the
service runs one investigation and applies a proposal once, truthfully; a run of the agent or of Git
ends with complete output or with nothing left running; the parser names exactly what Git will
change; a snapshot that is still fresh means an unchanged tree; a command gets the answer to its own
request or a failure with a cause; the panel never offers what is gone or unseen. `hazards` in
`PROJECT.json` lists each danger at its line with the properties that guard it.

## 2. Modules

| module | models |
|---|---|
| `ApplyTransaction` | `apply`, `recover` and all they call, one file-system operation per step |
| `AtomicApply` | abstract: the tree changes once, in one step, while the caller waits |
| `SecondDaemon` | two `ApplyTransaction`s on one tree and one journal |
| `ProposalService` | `Service`, one critical section of `inner` per step |
| `PanelService` | abstract: the service as a panel sees it |
| `PanelReview` | the panel and its client processes, composed with `PanelService` |
| `ClientDelivery` | the client, the socket, `serve_one`, the end of the daemon |
| `RemoteCall` | abstract: one command, served at most once |
| `AgentProcess`, `GitRun` | one call of the agent or its version probe; one call of Git |
| `ChildProcesses` | either of the two calls, which share nothing |
| `PatchParser` | `ParsedPatch::parse` and `git apply` on the same lines |
| `RepositorySnapshot` | `capture` and `revalidate`, one system call per step, among writers |
| `*_proofs` | inductive invariants and theorems (section 4) |
| `MC*` | universes of values for TLC |

**How they compose.** Three detailed modules implement an abstract one, checked by TLC and proved:
`ApplyTransaction` implements `AtomicApply`, `ProposalService` implements `PanelService`,
`ClientDelivery` implements `RemoteCall`. What a module takes from another one is what that other
one promises: `PanelReview` runs against `PanelService` and each of its processes is a `RemoteCall`
(off, request, answer); Apply in `ProposalService` is one choice between published, refused and
broken, as in `AtomicApply`; a job of it ends as `AgentProcess` does; *Stale* in `ApplyTransaction`
is what `RepositorySnapshot` answers. `SecondDaemon` is the one composition that breaks a promise.

**ApplyTransaction.** `pc` is the daemon's next operation, `cur` the loop index, `mode` who runs it:
`apply`, the `recover_one` that `apply` calls after an error ("unwind"), or the one of a start. File
contents are the classes the hashes tell apart. `PreImage`/`PostImage` are what a file held and
shall hold; `Covered` are the files the snapshot sees (Git lists them; an ignored file can still be
named by a patch). `Fail` is the code's error path: in `apply` it enters `recover_one`, in that it
returns `RecoveryRequired`, in a start it ends the recovery: `Service::new` keeps the error as its
state and answers RecoveryRequired until the next start (`Restart` of `ProposalService`). `Edit`,
`IoFailure`, `JournalSyncFailure` and `Crash` are the environment. `Edit` leaves one of four things at
a path, with or without a change: a text of the user's own, the pre-image (an edit undone), the
post-image, or nothing. The engine knows a file by its hash, so it takes a saved post-image for its
own publication. `user` is what was saved last, or "raced" if a save ever hit the window between a
check and its rename, where no program can help.
`CopySource` copies first and `HashSource` hashes later, as the code does. The journal's `published`
flags are written and never read, so they are left out. Removing the transaction directory takes
two steps, journal first, since `remove_dir_all` is not atomic.

**AtomicApply.** While the phase is Publishing the tree counts as "pre", since every later reader of
the journal goes back; in any other phase it has to be all pre-images or all post-images, and a
mixed one matches no abstract state.

**SecondDaemon.** A start creates the service, and so recovers, before it probes the socket. The
first daemon's variables are `ApplyTransaction`'s; the second one's own (`pc`, `cur`, `mode`, ...)
are passed to an instance, the tree and the journal are shared.

**ProposalService.** The gate is a FIFO held for a whole request; `Enter`, one dispatch step, and for
Submit and Apply a second step after the lock of `inner` was given up. Jobs run between any of
them. A job's number also stands for its correlation id and its Cancellation. `CodeOf`, `StateOf`
and `OutcomeOf` are the error tables; "invalid" is a request the protocol's checks refuse.
`applying` is never seen by another client, because the gate is held. Client sends are unrestricted:
any request, any order, again and again.

**PanelService, PanelReview.** The abstract service begins an investigation, offers a proposal under
a new number, and ends it: no gate, cache or job. It lets a proposal end in every way the service
can. The panel's `status`, `show` and action processes are messages of their own; "error" stands for
invalid, error and runtime_missing; the output and the exit of a process are one step, which is what
`RemoteCall` gives; whether an ended proposal is still on the service's list is left open. Any of the
three calls can fail while the service is up, as the client's waits are bounded: a lost status
(`LoseStatus`) shows `runtime_missing` until the next one. A pending request to submit is sent when
the list of repositories arrives, whether the window is still open or not.

**ClientDelivery.** A frame is two pieces, so that a peer can stop between them. The client, the
connection's task and the two ends of the stream are separate; each of the client's two bounded
waits and each of `serve_one`'s three may give up whenever its peer has not answered. "huge" is an
answer the frame limit refuses (a Show of a large proposal). `excuse` is history: what befell a call.

**AgentProcess, GitRun, ChildProcesses.** The executor's `select!` is four guarded steps;
`cancelled()` is polled in two, because the flag is read before the waiter registers and `cancel()`
can run in between. `probing` is `probe_version`, which has the same shape with other consequences.
Pipes and limits are counted in reads. The prompt (its input is at most 32 KiB) fits the pipe, so
writing it never waits; the patch given to Git may not, so `GitRun`'s pipe to it has a size and a
writer thread. `Lingers` says whether a descendant (of the agent, or a filter Git starts) may keep the
pipes for ever. `ChildProcesses` chooses one of the two calls at the start: they have no variable in
common.

**PatchParser.** One line per step, in the parser and in a model of Git (external; Git's rules: a
hunk ends when the counts of its header are used up, then any header is looked for). Inside a hunk
only the first byte of a line counts, so `--- a/x` is a deletion there.

**RepositorySnapshot.** An inode is its blocks and a stamp, which stands for all the metadata the walk
hashes: every write sets ctime to the kernel's present tick. The walk reads HEAD, hashes the index
(its data only), lists the files, and then takes `lstat`, an open that follows the path again, a read
per block and `fstat` for each. Others write in place, rename a new file over a path, remove, and
commit. Writes within one tick leave equal stamps; a revalidation is in a later tick than the capture,
as an agent's run is between them. `token` is the proposal's snapshot; `atList` is history, the tree
at the moment Git listed it, which is the moment `FreshMeansUnchanged` speaks of.

## 3. Runs

| run | instance | question | distinct states |
|---|---|---|---|
| `apply` | 4 files (modify, add, delete, ignored modify), 2 edits, 2 failures, 2 crashes | `NoMixedSuccess`, `Converged`, `RefusalChangesNothing`, `CrashesNeverBlock`, `UserWorkSurvives`; `LoopsEnd`, `Settles`; `AppliesAtomically` (refinement with fairness) | 781,279 |
| `service_safety` | 2 clients, 6 requests, 2 investigations, caches of 1, 1 restart | `SingleFlight`, `AppliedAtMostOnce`, `AppliedIsTrue`, `ResentSubmitBeginsOnce`; `IsPanelService` (refinement) | 755,094 |
| `service_progress` | 2 clients, 7 requests, 1 investigation, 1 restart | `EveryRequestAnswered`, `InvestigationEnds` | 0.2 M |
| `child_processes` | 3 writes to each of the agent's pipes of 2, limits 2 and 1; Git's pipes of 1, input of 2 | `CompleteOutput`, `NothingOutlivesAKill`, `AgentIsGone`, `Ends`; `GitComplete`, `GitEnds`; `OnlyDescendantsAreAwaited` | 309,091 |
| `patch_parser` | 3 paths, 2 files, 3 hunks, counts to 2 | `GitAgrees`, `WithinCeilings` | 0.6 M |
| `panel` | 2 proposals | `GoneStaysGone`, `StatusCatchesUp` | 362,472 |
| `snapshot` | 2 files, one tracked, 4 inodes of 2 blocks, 2 values, 2 writes, 2 ticks | `FreshMeansUnchanged`, `NoFalseAlarm` | 706,476 |
| `delivery` | 2 calls, 1 death of the daemon | `FailureHasCause`; `IsRemoteCall` (refinement); `ConnectionsEnd`, `CallsEnd` | 72,147 |

Every run that checks invariants checks the `TypeOK` of its module; each property has a mutant of
the code (a definition named "Mutant of ...") that breaks it.

**Bounds.** Four files give each kind of change a neighbour on both sides of the crash, and one file
the snapshot does not see; two crashes let a recovery be interrupted, two failures let an unwinding
fail, two edits let two files or one file twice change. Caches of one element evict at the second
request, so every eviction happens; two investigations give an old and a new proposal. Limits of one
and two reads are passed by three writes, and are different, so that streams are not alike; a pipe
of one with an input of two fills. Two files and three hunks put a ceiling on both sides of each
other; counts to two include empty, one-sided and mixed hunks. Two proposals are what a stale body
needs. Two files of two blocks let a writer be before and behind the walk, in a file and between
files; four inodes let each file be replaced once. Two calls share the listener, and one death cuts
both at different points. `patch_parser`, `snapshot` and `delivery` turn the deadlock check off:
both readers stop at the end of the text, a revalidation returns, and all calls have been made.

**Fairness.** The daemon's next operation happens and a crashed daemon is started again (the unit
has `Restart=on-failure`); the number of crashes is bounded. Handlers and jobs are polled by the
runtime; a job's steps are bounded by the executor's deadline (this rests on `Ends`, and fails where
`agent_hang` does) and Apply's by `Settles`. The executor's task, Git's caller and threads, and
their deadlines run; the agent and Git owe nothing; a descendant lets go of its pipes only where
`Lingers` is false. The daemon's connection tasks and the client run, and their timeouts fire; a
peer owes nothing. The panel's timer ticks while a window shows and a status call ends, answered
or failed, which is `CallsEnd`; no answer is owed. So `StatusCatchesUp` is conditional: if from some
moment on something of the panel shows, the service does not change, and no status call fails
although the service is up, then the panel comes to show the service for good, whatever failed
before. Without the last condition it would not hold, as any failed call puts `runtime_missing` on
the screen for a while. Users, editors, other clients and writers owe nothing.

### Disagreements between the code and its documentation

| run | the code | says otherwise |
|---|---|---|
| `service_wedge` | `dismiss` takes the active record before it knows that it is a proposal: during an investigation the state stays Working without a job until a restart | `protocol/src/lib.rs:352` "One executor job is running." |
| `agent_hang` | the pipe readers are awaited after the exit without the deadline | `README.md:26` "hard input/output/time bounds" |
| `second_daemon` | a start recovers, and so unwinds what another daemon is publishing, before it finds the socket taken; the other one then reports success | `docs/threat-model.md:52` "No command reports success for a mixed tree." |
| `panel_review` | the fetched patch is kept when one ready proposal replaces another between two polls | `BUILDLOG.md:94` |

Seen while modelling, without a run of their own:

- `executor/src/lib.rs:294`: an overflow that loses the race against the exit kills nothing, while
  `BUILDLOG.md:62` says that an overflow terminates the group. `NothingOutlivesAKill` is stated of the
  calls that return a kill's result.
- `core/src/apply.rs:357` and `364`: the rollback knows its own publication by hash only. It removes a
  file a user created with just the bytes the proposal adds, and puts the pre-image over a
  modification a user saved with just the bytes the proposal makes of it. `UserWorkSurvives` says so
  and bounds it: it happens only while nothing is committed or reported as a success, and what comes
  back is the pre-image. A text of the user's own is never touched.
- `daemon/src/lib.rs:38`: the comment says that `Service::new` returns an Apply error if recovery fails;
  it never does (the state is RecoveryRequired), and the message of `daemon/src/main.rs:68` is never
  printed.
- `core/src/apply.rs:108`: an error after Committed was written is returned although recovery then
  finishes the publication; `apply.rs:85` says "A failed publication is rolled back". `AtomicApply`
  allows it: the caller's error is not a promise about the tree.
- `core/src/git.rs:140` and `151`: when Git is killed, the writer's broken pipe is returned before the
  timeout or the output limit is, as an I/O error, and the readers are not joined. A filter that keeps
  Git's standard error open holds `run` past its deadline, as in `agent_hang`.
- `daemon/src/lib.rs:386`: Cancel answers Cancelled when the flag is set; the job may still reach a
  proposal. `protocol/src/lib.rs:318` says "Cancellation won".
- `daemon/src/lib.rs:736`: a State error of Apply is reported as RecoveryRequired although nothing
  was left behind.
- `cli/src/main.rs:277`: the clipboard program is awaited without a timeout, so `CallsEnd` lets it end
  by fairness. A proposal whose Show answer exceeds the frame can be applied and not reviewed.
- `core/src/limits.rs:24`: `MAX_RESULT_BYTES` is used nowhere.

## 4. Proofs

Checked by TLAPS for every value of the constants, from the assumptions the modules name
(`NAssumption`, `KindAssumption`, `LimitAssumption`, `ClientAssumption`, `RequestAssumption`,
`SizeAssumption`, `NameAssumption`, ...: sizes are natural, kinds and covered files well typed, names
distinct). `TypeCorrect` comes first in each module.

| module | theorems, beside the types |
|---|---|
| `ApplyTransaction_proofs` | `SuccessIsComplete` (`NoMixedSuccess`), `RecoveryConverges` (`Converged`), `EveryLoopEnds` (`LoopsEnd`) |
| `ApplyGuarantees_proofs` | `RefusalIsClean`, `CrashesAloneNeverBlock`, `SavedWorkSurvives`, `ApplyIsAtomic`, `OutcomeIsFinal` |
| `ProposalService_proofs` | `OneFlight`, `AppliedOnce`, `ToldIsTrue`, `ResentSubmit`, `ServesThePanel`, `GateIsFair`, `InvestigationIsShort` |
| `ClientDelivery_proofs` | `UnavailableHasCause`, `DeliveryIsRemoteCall`, `CallsAreFinal`, `CallsTakeBoundedSteps` |
| `ChildProcesses_proofs` | `CandidateIsComplete`, `KillsAreComplete`, `RunLeavesNoAgent`, `RunTakesBoundedSteps`; `GitTypeCorrect`, `GitOkIsComplete`, `GitTakesBoundedSteps`; `NoCircleOfWaits` (`OnlyDescendantsAreAwaited`) |
| `PatchParser_proofs` | `AcceptedIsWhatGitReads` (`GitAgrees`), `AcceptedFits` (`WithinCeilings`) |
| `RepositorySnapshot_proofs` | `FreshIsUnchanged`, `AlarmsAreTrue` (`NoFalseAlarm`) |
| `PanelReview_proofs` | `NothingComesBack` (`GoneStaysGone`), `OnlyReplacedGoUnreviewed` |

*Apply.* `NoMixedSuccess` and `Converged` are not inductive: they speak of the end only. `IInv`
says for every program counter what each untouched file, its `.new` and its `.bak` hold, as a
function of the phase and of `cur`: in the forward loop files before `cur` are published and later
ones are not; in the backward loop files after `cur` are restored; with `Committed` on disk every
untouched file is post and stays it; after a crash each untouched file is in one of the few states
its kind can be left in, from which the tests of `rollback_entry` deduce which. `IInvHolds` proves
it by a step per action.

*Guarantees of Apply.* Each rests on `IInv` and a second invariant: `RefusalInv` (once an error of
refusal is chosen, the tree is or is being put back), `QuietInv` (while nobody touched a file and
nothing failed, no test of recovery can find something foreign), `WorkInv`, file by file: the journal
holds the hashes the proposal was made with (`JournalInv`), a user's own text is never in the file
that is about to be renamed (`SavedInv`), what was set aside is the pre-image unless an edit hit the
moment between test and rename (`BackupInv`), and a saved post-image is in place or between its
removal and the pre-image, before the cleanup (`MatchedInv`). `ApplyIsAtomic` is `Spec /\ []LeftAlone =>
Atomic!Spec`: every step is a step of `AtomicApply` or a stutter. `LeftAlone` says that some changed
file is never touched by a user, without which the abstract tree, defined by the untouched files,
would be of no files; the run has four files and two edits, so it holds there.

*Service.* `ConnInv` (which requests are where between the socket, the gate and the answer),
`FlightInv` (state, active record and job), `CacheInv`, `ToldInv`, `RanInv` and `RecordInv` (what the
cached and given answers say of the engine's history). `AppliedAtMostOnce` needs all: a request
that was evicted is dispatched again, and only the active record, gone by then, stops it. The
queues are bounded by one lemma, `PushIsBounded`. `ServesThePanel` maps the job's stages and the two
steps of Apply to stutters or single steps of `PanelService`.

*Delivery.* `CallInv`, call by call: the bytes in the stream, the two ends, the task and the client's
program counter go together, and a served request has left its connection. *Children.* `ChildInv`,
`StreamInv` (written = in the pipe + read + lost), `JoinInv` and `KillInv` for the agent; `GitInv`
adds the writer. *Parser.* While the parser is in a hunk `done + left = want` as long as Git has
not ended it; if Git ended the hunk before the parser, the counts no longer match and the parser can
only reject. `CeilingInv` counts: a finished section has a hunk and a path of its own, and the path
of the open one is none of theirs. *Snapshot.* An entry hashed with an old stamp describes its inode until the stamp
changes, and a stamp changes only to the clock's value; so equal entries of two walks in different
ticks leave no write between. The other direction is `AlarmInv`: while nobody writes, every entry of
the walk and of the token is what a look at this moment would give. *Panel.* A service is ready only
with a proposal (`ServiceOK`), so a status that keeps a body names one, and a body is taken only
under the name the panel has.

*Progress.* Liveness needs fairness, and so ENABLED, which the prover does not have. What a liveness
property needs of the code beside the scheduler is proved: a number that every step of the code
lowers and nobody else raises, and that nobody waits in a circle.

| liveness run | what is proved for every instance |
|---|---|
| `Settles` | `LoopsEnd`: `Work` counts the operations `apply` or a recovery has left, the unwinding of a failing one included; it is at most 18 N + 11, and no edit and no fault raises it. A crash starts a new count |
| `EveryRequestAnswered` | `NobodyIsOvertaken`: `Turn`, the handler's steps before a client's answer; whoever waits holds the gate or queues at it (`QueueInv`) |
| `InvestigationEnds` | `JobsOnlyAdvance`: `JobWork`, two attempts of three stages |
| `Ends` | `RunIsBounded`: `AgentWork`, of `run()` and its two readers, bounded by the limits however much the agent writes; `OnlyKinIsAwaited` |
| `GitEnds` | `GitRunIsBounded`: the threads are bounded by the patch and the ceilings; after the deadline the caller polls no more; `OnlyFilterIsAwaited` |
| `ConnectionsEnd`, `CallsEnd` | `CallsOnlyAdvance`: `CommandWork` and `TaskWork`, one for each side, as each has to end when the other does not |

`OnlyDescendantsAreAwaited` is the absence of circles: at each wait of `run()`, what it waits for
(an armed deadline, a killed child, a reader with something to read) comes without the program that
was started, unless a descendant that outlived it has a pipe. So what `agent_hang` shows is the only way to
hang, a lost wake-up of the canceller (`executor/src/lib.rs:83`) included. It needs in the invariant
that the deadline is armed wherever it is polled, that a killed child can be reaped, and that a
writer that has ended has nothing left.

*Promises of the abstract modules.* `OutcomeIsFinal` and `CallsAreFinal` are proved of `AtomicApply` and
`RemoteCall`, a few lines each, and carried over the refinements: once Apply has returned or the
daemon crashed, no recovery turns the outcome round; no request is served twice, and no command's
outcome is revised. `OnlyReplacedGoUnreviewed` says what `panel_review` leaves of `ApplyNeedsReview`: the
body on the screen was fetched, and is of the proposal itself or of one it replaced. `BodyInv` has
what it needs: numbers only grow, and one status process brings them in order.

Only model-checked: the liveness properties themselves and the fairness half of
`AppliesAtomically`. Every invariant and every action property the passing runs check is proved. The action
properties named above that no run lists (all but `LoopsEnd`) were found to hold by TLC on the
runs' instances before they were proved. `SecondDaemon` has one property, which is violated.

## 5. Not modelled

- Limits as numbers, the redaction of sensitive text, the bar widget (the panel's poll again),
  scripts, packaging, CI and the test doubles.
- Protocol: the checks of lengths and characters are the choice "invalid"; they keep no state.
- Service: `health`, `repositories` and the panel's picker only read. Two errors after a validated
  candidate cannot happen and have no step: the model's name was tested by `valid_model_identifier`
  (`executor/src/lib.rs:389`) with the rule `evidence` applies again, and `finish_job`'s
  `p-<time>-<number>` always is an identifier.
- Apply: the parsing of a journal nobody else writes; power loss (a crash keeps every finished
  operation, while the code does not sync every directory).
- Snapshot: the byte ceiling, symbolic links and special files; a file that grows as fast as it is
  read; a file the token has as missing (listed, but deleted) has no ctime, so nothing is said of
  it; a capture and a revalidation within one tick of the kernel's clock.
- Git runner: a failing pipe read or `try_wait`, a panic of a thread, and `resolve`, which runs once.
- Client and daemon: the reading of arguments and standard input, the permissions of the socket's
  directory, and the removal at shutdown of a socket a successor may have bound
  (`daemon/src/main.rs:87`).

## 6. Plan

Done: every module above. Next:

1. A power-loss variant of `ApplyTransaction`, where operations not synced may be lost.
2. Two listeners on one path in `ClientDelivery`: probing, replacing and removing the socket.
3. The walk's byte ceiling and symbolic links in `RepositorySnapshot`.
