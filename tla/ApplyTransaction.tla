--------------------------- MODULE ApplyTransaction ---------------------------
(***************************************************************************)
(* Publication of one validated proposal by ApplyEngine                    *)
(* (crates/premonition-core/src/apply.rs): staging, the durable journal,   *)
(* the per-file renames, in-process unwinding after an error, and startup  *)
(* recovery after a crash at any point.                                    *)
(*                                                                         *)
(* A step of the model is one file-system operation of the code.  A crash  *)
(* stops the daemon between two of them; a user's editor may change a      *)
(* target file between two of them; any operation may fail.                *)
(*                                                                         *)
(* File contents are abstract: "pre" is what the proposal was generated    *)
(* from, "post" the patched result, "user" what somebody saved meanwhile   *)
(* and neither of these, "merged" the patch applied to another text than   *)
(* "pre", "torn" a half-written copy.  A SHA-256 comparison of the code is *)
(* equality of these contents: who wrote a file is not seen in it.         *)
(***************************************************************************)
EXTENDS Naturals, FiniteSets

CONSTANTS
    N,          \* number of files the proposal changes
    Kind,       \* what it does to each: JournalEntry.kind
    Covered,    \* files the generation snapshot sees (not git-ignored)
    MaxEdits,   \* bound on edits by the user
    MaxFaults,  \* bound on failing file-system operations
    MaxCrashes  \* bound on crashes and restarts

Files == 1..N
Kinds == {"add", "modify", "delete"}
Absent == "absent"
Content == {Absent, "pre", "post", "user", "merged", "torn"}

ASSUME NAssumption == N \in Nat \ {0}
ASSUME KindAssumption == Kind \in [Files -> Kinds]
ASSUME CoveredAssumption == Covered \subseteq Files
ASSUME BoundAssumption ==
    /\ MaxEdits \in Nat
    /\ MaxFaults \in Nat
    /\ MaxCrashes \in Nat

VARIABLES
    target,   \* the repository file at each changed path
    tmp,      \* .premonition-<id>-<i>.new beside it
    bak,      \* .premonition-<id>-<i>.bak beside it
    tx,       \* the transaction directory tx-<id> exists
    phase,    \* journal.json's phase, "none" when there is no journal
    staged,   \* the file under tx-<id>/stage; its hash becomes post_hash
    pre,      \* pre_hash of each entry ("absent" for None)
    pc,       \* the daemon's next operation
    cur,      \* loop index
    mode,     \* who runs it: apply, its unwinding, or startup recovery
    outcome,  \* what apply() returns, "none" while it has not
    user,     \* history: what was saved last in each file, "none", or "raced"
    budget    \* history: how much of each bound is spent

repository == <<target, tmp, bak>>
journal == <<tx, phase, staged, pre>>
vars == <<repository, journal, pc, cur, mode, outcome, user, budget>>

ApplySteps ==
    {"copy", "hash", "patch", "revalidate", "prepare", "openTemp", "fillTemp",
     "beginPublish", "verifyPre", "setAside", "install", "putBack", "sync",
     "mark", "commit", "syncRoot"}
CleanupSteps == {"cleanTemp", "cleanBackup", "removeJournal", "removeDir"}
RecoverySteps ==
    {"load", "verifyPost", "inspect", "discard", "restore", "syncBack"}
Resting == {"done", "ready", "blocked"}
PCs == ApplySteps \cup CleanupSteps \cup RecoverySteps \cup Resting
           \cup {"idle", "down"}
Outcomes == {"none", "ok", "stale", "git", "repository", "state", "recovery"}

TypeOK ==
    /\ target \in [Files -> Content]
    /\ tmp \in [Files -> Content]
    /\ bak \in [Files -> Content]
    /\ tx \in BOOLEAN
    /\ phase \in {"none", "prepared", "publishing", "committed"}
    /\ staged \in [Files -> Content]
    /\ pre \in [Files -> Content]
    /\ pc \in PCs
    /\ cur \in Files
    /\ mode \in {"apply", "unwind", "startup"}
    /\ outcome \in Outcomes
    /\ user \in [Files -> {"none", "raced"} \cup Content]
    /\ budget \in [{"edits", "faults", "crashes"} -> Nat]

Nothing == [i \in Files |-> Absent]

\* What each file holds before and after the proposal.
PreImage(i) == IF Kind[i] = "add" THEN Absent ELSE "pre"
PostImage(i) == IF Kind[i] = "delete" THEN Absent ELSE "post"

Init ==
    /\ target = [i \in Files |-> PreImage(i)]
    /\ tmp = Nothing
    /\ bak = Nothing
    /\ tx = FALSE
    /\ phase = "none"
    /\ staged = Nothing
    /\ pre = Nothing
    /\ pc = "idle"
    /\ cur = 1
    /\ mode = "apply"
    /\ outcome = "none"
    /\ user = [i \in Files |-> "none"]
    /\ budget = [b \in {"edits", "faults", "crashes"} |-> 0]

-----------------------------------------------------------------------------
(* Control flow.                                                           *)

Goto(p) == pc' = p /\ UNCHANGED <<cur, mode, outcome>>

\* Mutant of Advance: the loop runs one file too far.
AdvanceTooFar(p, q) ==
    /\ IF cur <= N THEN pc' = p /\ cur' = cur + 1 ELSE pc' = q /\ cur' = 1
    /\ UNCHANGED <<mode, outcome>>

\* The next file of a loop at p, or q from the first file after the last one.
Advance(p, q) ==
    /\ IF cur < N THEN pc' = p /\ cur' = cur + 1 ELSE pc' = q /\ cur' = 1
    /\ UNCHANGED <<mode, outcome>>

\* An Err(e).  In the body of apply it runs recover_one on the transaction and
\* then returns e; in that recover_one apply returns RecoveryRequired; in
\* recover it ends the recovery of this start, and Service::new goes on to
\* serve the state RecoveryRequired: no Apply until the next start.  The loop's
\* index goes with the loop.
Fail(e) ==
    /\ cur' = 1
    /\ \/ /\ mode = "apply"
          /\ outcome' = e
          /\ mode' = "unwind"
          /\ pc' = "load"
       \/ /\ mode = "unwind"
          /\ outcome' = "recovery"
          /\ pc' = "done"
          /\ UNCHANGED mode
       \/ /\ mode = "startup"
          /\ pc' = "blocked"
          /\ UNCHANGED <<mode, outcome>>

-----------------------------------------------------------------------------
(* apply and prepare_and_publish, up to the renames.                       *)

\* snapshot.revalidate hashes content, inode and ctime of every covered file,
\* so it notices any edit, even one that was undone.
Stale == \E i \in Covered : user[i] # "none"

\* What `git apply` makes of a file: it needs the exact text to delete a file
\* and may still find a hunk's context in an edited one.
PatchFits(i, text) ==
    \/ Kind[i] = "add"
    \/ Kind[i] = "modify" /\ text # Absent
    \/ Kind[i] = "delete" /\ text = "pre"
PatchSure(i, text) == Kind[i] = "add" \/ text = "pre"
Patched(i, text) ==
    IF Kind[i] = "delete" THEN Absent
    ELSE IF Kind[i] = "modify" /\ text # "pre" THEN "merged" ELSE "post"

\* validate_change_path: an added file must not exist, the others must.
PathSafe(i) == (Kind[i] = "add") = (target[i] = Absent)

\* apply refuses before anything is written.
RefuseWith(e) ==
    /\ pc = "idle"
    /\ pc' = "done"
    /\ outcome' = e
    /\ UNCHANGED <<repository, journal, cur, mode, user, budget>>
Refuse ==
    \/ Stale /\ RefuseWith("stale")
    \/ ~Stale /\ (\E i \in Files : ~PathSafe(i)) /\ RefuseWith("repository")
    \/ /\ ~Stale
       /\ \A i \in Files : PathSafe(i)
       /\ \E i \in Files : ~PatchSure(i, target[i])
       /\ RefuseWith("git")

\* Every check passes and the transaction directory is created.
Begin ==
    /\ pc = "idle"
    /\ ~Stale
    /\ \A i \in Files : PathSafe(i) /\ PatchFits(i, target[i])
    /\ tx' = TRUE
    /\ Goto("copy")
    /\ UNCHANGED <<repository, phase, staged, pre, user, budget>>

CopySource ==
    /\ pc = "copy"
    /\ \/ Kind[cur] = "add" /\ Advance("copy", "patch") /\ UNCHANGED staged
       \/ /\ Kind[cur] # "add"
          /\ target[cur] # Absent
          /\ staged' = [staged EXCEPT ![cur] = target[cur]]
          /\ Goto("hash")
       \/ /\ Kind[cur] # "add"
          /\ target[cur] = Absent
          /\ Fail("state")
          /\ UNCHANGED staged
    /\ UNCHANGED <<repository, tx, phase, pre, user, budget>>

\* pre_hash is taken from the repository file, after the copy.
HashSource ==
    /\ pc = "hash"
    /\ \/ /\ target[cur] # Absent
          /\ pre' = [pre EXCEPT ![cur] = target[cur]]
          /\ Advance("copy", "patch")
       \/ target[cur] = Absent /\ Fail("state") /\ UNCHANGED pre
    /\ UNCHANGED <<repository, tx, phase, staged, user, budget>>

\* git apply --check, then git apply, inside the stage directory.
StagePatch ==
    /\ pc = "patch"
    /\ \/ /\ \A i \in Files : PatchFits(i, staged[i])
          /\ staged' = [i \in Files |-> Patched(i, staged[i])]
          /\ Goto("revalidate")
       \/ /\ \E i \in Files : ~PatchSure(i, staged[i])
          /\ Fail("git")
          /\ UNCHANGED staged
    /\ UNCHANGED <<repository, tx, phase, pre, user, budget>>

Revalidate ==
    /\ pc = "revalidate"
    /\ IF Stale THEN Fail("stale") ELSE Goto("prepare")
    /\ UNCHANGED <<repository, journal, user, budget>>

\* write_journal replaces journal.json by a rename; without the transaction
\* directory it fails.
WriteJournal(p) ==
    /\ phase' = IF tx THEN p ELSE phase
    /\ UNCHANGED <<repository, tx, staged, pre, user, budget>>

WritePrepared ==
    /\ pc = "prepare"
    /\ WriteJournal("prepared")
    /\ IF tx THEN Goto("openTemp") ELSE Fail("state")

\* copy_file_bounded opens the staged file, creates the temporary, then fills and
\* syncs it.
OpenTemp ==
    /\ pc = "openTemp"
    /\ \/ /\ Kind[cur] = "delete"
          /\ Advance("openTemp", "beginPublish")
          /\ UNCHANGED tmp
       \/ /\ Kind[cur] # "delete" /\ tx
          /\ tmp' = [tmp EXCEPT ![cur] = "torn"]
          /\ Goto("fillTemp")
       \/ Kind[cur] # "delete" /\ ~tx /\ Fail("state") /\ UNCHANGED tmp
    /\ UNCHANGED <<target, bak, journal, user, budget>>

FillTemp ==
    /\ pc = "fillTemp"
    /\ IF tx /\ tmp[cur] # Absent
       THEN /\ tmp' = [tmp EXCEPT ![cur] = staged[cur]]
            /\ Advance("openTemp", "beginPublish")
       ELSE Fail("state") /\ UNCHANGED tmp
    /\ UNCHANGED <<target, bak, journal, user, budget>>

WritePublishing ==
    /\ pc = "beginPublish"
    /\ WriteJournal("publishing")
    /\ IF tx THEN Goto("verifyPre") ELSE Fail("state")

-----------------------------------------------------------------------------
(* publish_entry, for each file, and the commit.                           *)

\* Mutant of VerifyPre: the file is not compared again before it is replaced.
VerifyNothing ==
    /\ pc = "verifyPre"
    /\ Goto(IF Kind[cur] = "add" THEN "install" ELSE "setAside")
    /\ UNCHANGED <<repository, journal, user, budget>>

\* verify_pre; with "absent" for None the three cases are one comparison.
VerifyPre ==
    /\ pc = "verifyPre"
    /\ IF target[cur] # pre[cur] THEN Fail("stale")
       ELSE Goto(IF Kind[cur] = "add" THEN "install" ELSE "setAside")
    /\ UNCHANGED <<repository, journal, user, budget>>

\* rename(target, backup); it fails if somebody has removed the target.
SetAside ==
    /\ pc = "setAside"
    /\ IF target[cur] = Absent
       THEN Fail("state") /\ UNCHANGED repository
       ELSE /\ bak' = [bak EXCEPT ![cur] = target[cur]]
            /\ target' = [target EXCEPT ![cur] = Absent]
            /\ UNCHANGED tmp
            /\ Goto(IF Kind[cur] = "delete" THEN "sync" ELSE "install")
    /\ UNCHANGED <<journal, user, budget>>

\* Mutant of InstallFails: the error of the rename is dropped.
InstallIgnored == Goto("sync")

\* rename(temporary, target) replaces whatever is there.  A modification whose
\* second rename fails puts its backup back before it returns.
InstallFails ==
    IF Kind[cur] = "modify" THEN Goto("putBack") ELSE Fail("state")

Install ==
    /\ pc = "install"
    /\ IF tmp[cur] # Absent
       THEN /\ target' = [target EXCEPT ![cur] = tmp[cur]]
            /\ tmp' = [tmp EXCEPT ![cur] = Absent]
            /\ Goto("sync")
       ELSE InstallFails /\ UNCHANGED <<target, tmp>>
    /\ UNCHANGED <<bak, journal, user, budget>>

\* rename(backup, target).
MoveBack ==
    IF bak[cur] = Absent
    THEN UNCHANGED <<target, bak>>
    ELSE /\ target' = [target EXCEPT ![cur] = bak[cur]]
         /\ bak' = [bak EXCEPT ![cur] = Absent]

PutBack ==
    /\ pc = "putBack"
    /\ MoveBack
    /\ Fail(IF bak[cur] = Absent THEN "recovery" ELSE "state")
    /\ UNCHANGED <<tmp, journal, user, budget>>

SyncEntry ==
    /\ pc = "sync"
    /\ Goto("mark")
    /\ UNCHANGED <<repository, journal, user, budget>>

\* The entry's `published` flag is written and never read: recovery looks at
\* the files instead, so the model leaves the flag out.
MarkPublished ==
    /\ pc = "mark"
    /\ WriteJournal("publishing")
    /\ IF tx THEN Advance("verifyPre", "commit") ELSE Fail("state")

\* Mutant of WriteCommitted: the phase is changed in memory only.
CommitUnwritten ==
    /\ pc = "commit"
    /\ Goto("syncRoot")
    /\ UNCHANGED <<repository, journal, user, budget>>

WriteCommitted ==
    /\ pc = "commit"
    /\ WriteJournal("committed")
    /\ IF tx THEN Goto("syncRoot") ELSE Fail("state")

SyncRoot ==
    /\ pc = "syncRoot"
    /\ pc' = "cleanTemp"
    /\ cur' = 1
    /\ UNCHANGED <<repository, journal, mode, outcome, user, budget>>

-----------------------------------------------------------------------------
(* cleanup_transaction; recovery ends with it too.                         *)

CleanTemp ==
    /\ pc = "cleanTemp"
    /\ tmp' = [tmp EXCEPT ![cur] = Absent]
    /\ Goto("cleanBackup")
    /\ UNCHANGED <<target, bak, journal, user, budget>>

CleanBackup ==
    /\ pc = "cleanBackup"
    /\ bak' = [bak EXCEPT ![cur] = Absent]
    /\ Advance("cleanTemp", "removeJournal")
    /\ UNCHANGED <<target, tmp, journal, user, budget>>

\* remove_dir_all is not atomic: journal.json goes first, the directory last.
RemoveJournal ==
    /\ pc = "removeJournal"
    /\ phase' = "none"
    /\ IF tx THEN Goto("removeDir") ELSE Fail("state")
    /\ UNCHANGED <<repository, tx, staged, pre, user, budget>>

\* Nothing of the transaction is left: apply returns, a start goes on.
Resolved == pc' = IF mode = "startup" THEN "ready" ELSE "done"

Finish ==
    /\ Resolved
    /\ outcome' = IF mode = "apply" THEN "ok" ELSE outcome
    /\ UNCHANGED <<cur, mode>>

\* A directory that has a journal again cannot be removed.
RemoveDir ==
    /\ pc = "removeDir"
    /\ IF tx /\ phase = "none"
       THEN tx' = FALSE /\ Finish
       ELSE Fail("state") /\ UNCHANGED tx
    /\ UNCHANGED <<repository, phase, staged, pre, user, budget>>

-----------------------------------------------------------------------------
(* recover_one.                                                            *)

\* Mutant of Load: rollback starts at the first entry instead of the last.
LoadAtFirst ==
    /\ pc = "load"
    /\ \/ ~tx /\ Resolved /\ UNCHANGED cur
       \/ tx /\ phase = "none" /\ pc' = "removeDir" /\ UNCHANGED cur
       \/ tx /\ phase = "prepared" /\ pc' = "cleanTemp" /\ cur' = 1
       \/ tx /\ phase = "publishing" /\ pc' = "inspect" /\ cur' = 1
       \/ tx /\ phase = "committed" /\ pc' = "verifyPost" /\ cur' = 1
    /\ UNCHANGED <<repository, journal, mode, outcome, user, budget>>

Load ==
    /\ pc = "load"
    /\ \/ ~tx /\ Resolved /\ UNCHANGED cur
       \/ tx /\ phase = "none" /\ pc' = "removeDir" /\ UNCHANGED cur
       \/ tx /\ phase = "prepared" /\ pc' = "cleanTemp" /\ cur' = 1
       \/ tx /\ phase = "publishing" /\ pc' = "inspect" /\ cur' = N
       \/ tx /\ phase = "committed" /\ pc' = "verifyPost" /\ cur' = 1
    /\ UNCHANGED <<repository, journal, mode, outcome, user, budget>>

\* Mutant of IsPost: recovery compares with the wrong hash.
IsPre(i) == target[i] = pre[i]

\* verify_post; a deleted file's post_hash is None, "absent" here.
IsPost(i) == target[i] = staged[i]

VerifyPost ==
    /\ pc = "verifyPost"
    /\ IF IsPost(cur) THEN Advance("verifyPost", "cleanTemp")
       ELSE Fail("recovery")
    /\ UNCHANGED <<repository, journal, user, budget>>

\* rollback_entry, the tests: what was published is read off the files.
Inspect ==
    /\ pc = "inspect"
    /\ \/ /\ Kind[cur] = "add"
          /\ \/ target[cur] = Absent /\ Goto("syncBack")
             \/ target[cur] # Absent /\ IsPost(cur) /\ Goto("discard")
             \/ target[cur] # Absent /\ ~IsPost(cur) /\ Fail("recovery")
       \/ /\ Kind[cur] = "modify"
          /\ \/ bak[cur] = Absent /\ Goto("syncBack")
             \/ bak[cur] # Absent /\ target[cur] = Absent /\ Goto("restore")
             \/ /\ bak[cur] # Absent
                /\ target[cur] # Absent
                /\ IF IsPost(cur) THEN Goto("discard") ELSE Fail("recovery")
       \/ /\ Kind[cur] = "delete"
          /\ \/ bak[cur] = Absent /\ Goto("syncBack")
             \/ bak[cur] # Absent /\ target[cur] = Absent /\ Goto("restore")
             \/ bak[cur] # Absent /\ target[cur] # Absent /\ Fail("recovery")
    /\ UNCHANGED <<repository, journal, user, budget>>

\* remove_file(target), which fails if the user removed it first.
Discard ==
    /\ pc = "discard"
    /\ IF target[cur] = Absent THEN Fail("recovery")
       ELSE Goto(IF Kind[cur] = "add" THEN "syncBack" ELSE "restore")
    /\ target' = [target EXCEPT ![cur] = Absent]
    /\ UNCHANGED <<tmp, bak, journal, user, budget>>

Restore ==
    /\ pc = "restore"
    /\ MoveBack
    /\ IF bak[cur] = Absent THEN Fail("recovery") ELSE Goto("syncBack")
    /\ UNCHANGED <<tmp, journal, user, budget>>

\* Mutants of SyncBack: the loop stops one entry early, or never moves on.
SyncBackShort ==
    /\ pc = "syncBack"
    /\ IF cur > 2 THEN pc' = "inspect" /\ cur' = cur - 1
       ELSE pc' = "cleanTemp" /\ cur' = 1
    /\ UNCHANGED <<repository, journal, mode, outcome, user, budget>>
SyncBackStuck ==
    /\ pc = "syncBack"
    /\ pc' = "inspect"
    /\ UNCHANGED <<repository, journal, cur, mode, outcome, user, budget>>

\* sync_directory, and the previous entry: rollback runs backwards.
SyncBack ==
    /\ pc = "syncBack"
    /\ IF cur > 1 THEN pc' = "inspect" /\ cur' = cur - 1
       ELSE pc' = "cleanTemp" /\ cur' = 1
    /\ UNCHANGED <<repository, journal, mode, outcome, user, budget>>

-----------------------------------------------------------------------------
(* The environment.                                                        *)

\* Between the daemon's last look at a file and the rename or removal it does.
Racing(i) ==
    i = cur /\ pc \in {"setAside", "install", "putBack", "discard", "restore"}

\* What somebody may leave at a path: a text of their own, the one the proposal
\* was made from (an edit undone), the very text it proposes, or nothing.
Saves(i) == {"user", PreImage(i), PostImage(i), Absent}

\* Somebody saves a file of the repository, with or without a change, or removes
\* it.
Edit(i, c) ==
    /\ budget["edits"] < MaxEdits
    /\ c = Absent => target[i] # Absent
    /\ target' = [target EXCEPT ![i] = c]
    /\ user' = [user EXCEPT ![i] = IF Racing(i) \/ @ = "raced" THEN "raced" ELSE c]
    /\ budget' = [budget EXCEPT !["edits"] = @ + 1]
    /\ UNCHANGED <<tmp, bak, journal, pc, cur, mode, outcome>>

\* What the operation at p returns when it fails without effect.
ErrorAt(p) ==
    CASE p = "patch" -> "git"
      [] p \in {"revalidate", "verifyPre"} -> "stale"
      [] p = "putBack" -> "recovery"
      [] OTHER -> "state"

\* An operation fails without effect.
IoFailure ==
    /\ budget["faults"] < MaxFaults
    /\ pc \in ApplySteps \cup CleanupSteps \cup RecoverySteps
    /\ IF pc = "install" THEN InstallFails ELSE Fail(ErrorAt(pc))
    /\ budget' = [budget EXCEPT !["faults"] = @ + 1]
    /\ UNCHANGED <<repository, journal, user>>

\* write_journal renames the new journal into place and then fails to sync.
JournalSyncFailure(p, written) ==
    /\ budget["faults"] < MaxFaults
    /\ pc = p
    /\ phase' = written
    /\ Fail("state")
    /\ budget' = [budget EXCEPT !["faults"] = @ + 1]
    /\ UNCHANGED <<repository, tx, staged, pre, user>>

\* The daemon is killed, or stopped by hand when it rests; no reply is left.
Crash ==
    /\ budget["crashes"] < MaxCrashes
    /\ pc \notin {"idle", "down"}
    /\ pc' = "down"
    /\ outcome' = "none"
    /\ cur' = 1
    /\ budget' = [budget EXCEPT !["crashes"] = @ + 1]
    /\ UNCHANGED <<repository, journal, mode, user>>

\* main.rs starts again; Service::new calls recover.
Restart ==
    /\ pc = "down"
    /\ pc' = "load"
    /\ mode' = "startup"
    /\ UNCHANGED <<repository, journal, cur, outcome, user, budget>>

Rest == pc \in Resting /\ UNCHANGED vars

-----------------------------------------------------------------------------
Publish ==
    \/ CopySource \/ HashSource \/ StagePatch \/ Revalidate
    \/ WritePrepared \/ OpenTemp \/ FillTemp \/ WritePublishing
    \/ VerifyPre \/ SetAside \/ Install \/ PutBack \/ SyncEntry
    \/ MarkPublished \/ WriteCommitted \/ SyncRoot
Cleanup == CleanTemp \/ CleanBackup \/ RemoveJournal \/ RemoveDir
Recover ==
    \/ Load \/ VerifyPost \/ Inspect \/ Discard \/ Restore \/ SyncBack
Daemon == Publish \/ Cleanup \/ Recover

Environment ==
    \/ \E i \in Files : \E c \in Saves(i) : Edit(i, c)
    \/ IoFailure
    \/ JournalSyncFailure("prepare", "prepared")
    \/ JournalSyncFailure("beginPublish", "publishing")
    \/ JournalSyncFailure("mark", "publishing")
    \/ JournalSyncFailure("commit", "committed")
    \/ Crash

Next == Refuse \/ Begin \/ Daemon \/ Environment \/ Restart \/ Rest

Spec == Init /\ [][Next]_vars

\* A running daemon goes on and systemd starts a crashed one again
\* (Restart=on-failure); nobody has to ask for an Apply, edit or fail.
FairSpec == Spec /\ WF_vars(Daemon) /\ WF_vars(Restart)

-----------------------------------------------------------------------------
(* Safety.                                                                 *)

Untouched == {i \in Files : user[i] = "none"}
AllPre == \A i \in Untouched : target[i] = PreImage(i)
AllPost == \A i \in Untouched : target[i] = PostImage(i)

\* threat-model.md:51: when apply returns success, every file nobody else
\* touched holds its post-image, whatever errors, edits and crashes came
\* before.
NoMixedSuccess == pc = "done" /\ outcome = "ok" => AllPost

\* threat-model.md:52: once the transaction is gone, after a return, an
\* unwinding or any number of interrupted recoveries, the files nobody touched
\* are all pre-images or all post-images, and no temporary or backup is left.
Converged ==
    pc \in Resting /\ ~tx =>
        /\ AllPre \/ AllPost
        /\ tmp = Nothing
        /\ bak = Nothing

\* Apply refusing a stale tree, an unsafe path or a patch Git rejects leaves
\* every untouched file as it was, even when publication had begun.
RefusalChangesNothing ==
    pc = "done" /\ outcome \in {"stale", "git", "repository"} => AllPre

\* Crashes and restarts alone never block the engine: recovery can be
\* interrupted anywhere and run again, and needs a human only after somebody
\* edited a changed file or an operation failed.
CrashesNeverBlock ==
    pc = "blocked" \/ outcome = "recovery" =>
        budget["faults"] > 0 \/ Untouched # Files

\* A user saves a changed file while no rename of that file is under way.  A text
\* of their own survives publication, unwinding and recovery: verify_pre and
\* verify_post stop the daemon first.  A text equal to the post-image, which the
\* hashes take for the proposal's, stays too or is rolled back with it, to the
\* pre-image and nothing else, and never under a journal that says Committed or
\* an answer that says success.
UserWorkSurvives ==
    \A i \in Covered :
        /\ user[i] = "user" => target[i] = "user"
        /\ user[i] = "post" =>
             \/ target[i] = "post"
             \/ /\ phase # "committed" /\ outcome # "ok"
                /\ target[i] = PreImage(i) \/ bak[i] = "pre"

-----------------------------------------------------------------------------
(* Liveness.                                                               *)

\* A started Apply returns, or its transaction is recovered or given up after
\* a restart; the loops of recovery do not run forever.
Settles == (pc \notin Resting \cup {"idle"}) ~> (pc \in Resting)

\* The operations left at pc if every loop goes round to its end: those after
\* the file in hand, and the rounds for the files after it, or before it in the
\* rollback.
Clean == 2 * N + 2
Rollback == 6 * N + 3
After ==
    [copy |-> Clean + 8 * N + 8, hash |-> Clean + 8 * N + 7,
     patch |-> Clean + 8 * N + 6, revalidate |-> Clean + 8 * N + 5,
     prepare |-> Clean + 8 * N + 4,
     openTemp |-> Clean + 6 * N + 5, fillTemp |-> Clean + 6 * N + 4,
     beginPublish |-> Clean + 6 * N + 3,
     verifyPre |-> Clean + 8, setAside |-> Clean + 7, install |-> Clean + 6,
     putBack |-> Clean + 5, sync |-> Clean + 4, mark |-> Clean + 3,
     commit |-> Clean + 2, syncRoot |-> Clean + 1,
     load |-> Rollback, inspect |-> Clean + 4, discard |-> Clean + 3,
     restore |-> Clean + 2, syncBack |-> Clean + 1, verifyPost |-> Clean + 1,
     cleanTemp |-> 4, cleanBackup |-> 3, removeJournal |-> 2, removeDir |-> 1]
Rounds ==
    IF pc \in {"copy", "hash", "openTemp", "fillTemp", "cleanTemp", "cleanBackup"}
    THEN 2 * (N - cur)
    ELSE IF pc \in {"verifyPre", "setAside", "install", "putBack", "sync", "mark"}
    THEN 6 * (N - cur)
    ELSE IF pc \in {"inspect", "discard", "restore", "syncBack"} THEN 4 * (cur - 1)
    ELSE IF pc = "verifyPost" THEN N - cur ELSE 0
Remaining == After[pc] + Rounds

\* An Apply that fails has its unwinding before it, an unwinding or a recovery
\* that fails has nothing.
Working == pc \in ApplySteps \cup CleanupSteps \cup RecoverySteps
Work ==
    IF ~Working THEN 0
    ELSE IF mode = "apply" THEN Remaining + Rollback ELSE Remaining

\* Between a start and the next rest nothing is done twice: every operation,
\* failed ones included, brings apply, its unwinding or a startup recovery
\* nearer to its end, and no edit takes it back.  So the gate that is held
\* meanwhile (daemon lib.rs:315) is held for at most 18 N + 11 operations.
LoopsEnd ==
    [][Working =>
         IF pc' = pc /\ cur' = cur /\ mode' = mode THEN ~Daemon
         ELSE Work' \in 0..(Work - 1)]_vars

-----------------------------------------------------------------------------
(* Refinement.                                                             *)

\* While files are being renamed the transaction has not happened: the journal
\* takes every later reader back.  It happens when Committed is written.
Tree ==
    CASE phase = "publishing" -> "pre"
      [] phase # "publishing" /\ AllPre -> "pre"
      [] phase # "publishing" /\ AllPost -> "post"
      [] OTHER -> "mixed"
Life ==
    CASE pc = "idle" -> "waiting"
      [] pc = "down" -> "dead"
      [] pc = "done" -> "returned"
      [] pc \in {"ready", "blocked"} -> "recovered"
      [] mode = "startup" /\ pc \notin Resting \cup {"down"} -> "dead"
      [] OTHER -> "running"
Reply == IF pc = "done" THEN outcome ELSE "none"

Atomic == INSTANCE AtomicApply WITH tree <- Tree, reply <- Reply, life <- Life

\* Seen in the files nobody touches, Apply is atomic: it implements the one-step
\* AtomicApply, whatever crashes, fails or is edited beside them.
AppliesAtomically == Atomic!FairSpec
=============================================================================
