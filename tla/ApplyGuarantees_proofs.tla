------------------------ MODULE ApplyGuarantees_proofs ------------------------
(***************************************************************************)
(* What follows from the inductive invariant of ApplyTransaction_proofs    *)
(* with a little more history: refusals change nothing, crashes alone      *)
(* never block the engine, what a user saves survives, and to somebody who *)
(* looks at the files alone Apply is one step, whose outcome is final.     *)
(***************************************************************************)
EXTENDS ApplyTransaction_proofs

USE DEF Absent, Content

-----------------------------------------------------------------------------
(* Refusals.                                                               *)

Refusals == {"stale", "git", "repository"}

\* A refusal is decided before Committed is written: what follows is unwinding,
\* which leaves no journal and the files as they were.
RefusalInv ==
    /\ pc = "down" \/ mode = "startup" => outcome = "none"
    /\ outcome \in Refusals =>
         /\ phase # "committed"
         /\ phase = "none" => AllPre
         /\ pc # "done" => mode = "unwind"
         /\ pc = "done" => phase = "none"

LEMMA InitRefusalInv == Init => RefusalInv
BY DEF Init, RefusalInv, Refusals

LEMMA StepRefusalInv == IInv /\ RefusalInv /\ [Next]_vars => RefusalInv'
<1> SUFFICES ASSUME TypeOK, ControlInv, FilesInv, RefusalInv, [Next]_vars
             PROVE  RefusalInv'
  BY DEF IInv, FilesInv
<1>a. \A i \in Files : user'[i] = "none" => user[i] = "none"
  BY UntouchedShrinks
<1>b. \/ pc \in {"idle"} \cup Staging
      \/ phase = "prepared"
      \/ pc \in CleanupSteps /\ phase = "publishing"
      => AllPre
  BY DEF FilesInv, FileInv, Unpublished, AllPre, Untouched
<1>c. target' = target /\ AllPre => AllPre'
  BY <1>a DEF AllPre, Untouched, PreImage
<1> HIDE DEF FilesInv
<1> USE <1>b, <1>c DEF ControlInv, RefusalInv, Refusals, TypeOK, Files, Kinds, Staging, Copying, Publishing, RollingBack,
        ApplySteps, CleanupSteps, RecoverySteps, Resting, repository, journal,
        Goto, Advance, Fail
<1>1. CASE Refuse BY <1>1 DEF Refuse, RefuseWith
<1>2. CASE Begin BY <1>2 DEF Begin
<1>3. CASE CopySource BY <1>3 DEF CopySource
<1>4. CASE HashSource BY <1>4 DEF HashSource
<1>5. CASE StagePatch BY <1>5 DEF StagePatch
<1>6. CASE Revalidate BY <1>6 DEF Revalidate
<1>7. CASE WritePrepared BY <1>7 DEF WritePrepared, WriteJournal
<1>8. CASE OpenTemp BY <1>8 DEF OpenTemp
<1>9. CASE FillTemp BY <1>9 DEF FillTemp
<1>10. CASE WritePublishing BY <1>10 DEF WritePublishing, WriteJournal
<1>11. CASE VerifyPre BY <1>11 DEF VerifyPre
<1>12. CASE SetAside BY <1>12 DEF SetAside
<1>13. CASE Install BY <1>13 DEF Install, InstallFails
<1>14. CASE PutBack BY <1>14 DEF PutBack, MoveBack
<1>15. CASE SyncEntry BY <1>15 DEF SyncEntry
<1>16. CASE MarkPublished BY <1>16 DEF MarkPublished, WriteJournal
<1>17. CASE WriteCommitted BY <1>17 DEF WriteCommitted, WriteJournal
<1>18. CASE SyncRoot BY <1>18 DEF SyncRoot
<1>19. CASE CleanTemp BY <1>19 DEF CleanTemp
<1>20. CASE CleanBackup BY <1>20 DEF CleanBackup
<1>21. CASE RemoveJournal BY <1>21 DEF RemoveJournal
<1>22. CASE RemoveDir BY <1>22 DEF RemoveDir, Finish, Resolved
<1>23. CASE Load BY <1>23 DEF Load, Resolved
<1>24. CASE VerifyPost BY <1>24 DEF VerifyPost
<1>25. CASE Inspect BY <1>25 DEF Inspect
<1>26. CASE Discard BY <1>26 DEF Discard
<1>27. CASE Restore BY <1>27 DEF Restore, MoveBack
<1>28. CASE SyncBack BY <1>28 DEF SyncBack
<1>29. ASSUME NEW j \in Files, NEW c \in Saves(j), Edit(j, c)
       PROVE RefusalInv'
  <2>1. \A k \in Files : user'[k] = "none" => target'[k] = target[k]
    BY <1>29, SavesAreContents DEF Edit
  <2>2. AllPre => AllPre'
    BY <1>a, <2>1 DEF AllPre, Untouched, PreImage
  <2> QED BY <1>29, <2>2 DEF Edit
<1>30. CASE IoFailure
  BY <1>30, ErrorIsNotOk DEF IoFailure, InstallFails, ErrorAt
<1>31. ASSUME NEW p, NEW written, JournalSyncFailure(p, written),
              <<p, written>> \in SyncFailures
       PROVE RefusalInv'
  <2>1. \/ p = "prepare" /\ written = "prepared"
        \/ p = "beginPublish" /\ written = "publishing"
        \/ p = "mark" /\ written = "publishing"
        \/ p = "commit" /\ written = "committed"
    BY <1>31 DEF SyncFailures
  <2> QED BY <1>31, <2>1 DEF JournalSyncFailure
<1>32. CASE Crash BY <1>32 DEF Crash
<1>33. CASE Restart BY <1>33 DEF Restart
<1>34. CASE UNCHANGED vars BY <1>34 DEF vars
<1> QED
  BY <1>1, <1>2, <1>3, <1>4, <1>5, <1>6, <1>7, <1>8, <1>9, <1>10, <1>11,
     <1>12, <1>13, <1>14, <1>15, <1>16, <1>17, <1>18, <1>19, <1>20, <1>21,
     <1>22, <1>23, <1>24, <1>25, <1>26, <1>27, <1>28, <1>29, <1>30, <1>31,
     <1>32, <1>33, <1>34
     DEF Next, Daemon, Publish, Cleanup, Recover, Environment, Rest, SyncFailures

\* Apply refusing a stale tree, an unsafe path or a patch Git rejects leaves the
\* files nobody touched as they were, even when publication had begun.
THEOREM RefusalIsClean == Spec => []RefusalChangesNothing
<1>1. RefusalInv => RefusalChangesNothing
  BY DEF RefusalInv, Refusals, RefusalChangesNothing
<1>2. IInv /\ RefusalInv /\ [Next]_vars => RefusalInv' BY StepRefusalInv
<1> QED BY <1>1, <1>2, InitRefusalInv, IInvHolds, PTL DEF Spec

-----------------------------------------------------------------------------
(* Crashes without failures or edits.                                      *)

\* Nothing has failed and nobody has edited anything.
Quiet == budget["faults"] = 0 /\ Untouched = Files
QuietInv ==
    Quiet => pc \notin {"blocked", "putBack"} /\ mode # "unwind" /\ outcome # "recovery"

LEMMA InitQuietInv == Init => QuietInv
BY DEF Init, QuietInv

LEMMA StepQuietInv == IInv /\ QuietInv /\ [Next]_vars => QuietInv'
<1> SUFFICES ASSUME TypeOK, ControlInv, HashesInv, FilesInv, QuietInv, [Next]_vars, Quiet'
             PROVE  pc' \notin {"blocked", "putBack"} /\ mode' # "unwind"
                    /\ outcome' # "recovery"
  BY DEF IInv, FilesInv, HashesInv, QuietInv
<1>a. \A i \in Files : user'[i] = "none" /\ user[i] = "none"
  BY UntouchedShrinks DEF Quiet, Untouched
<1>b. Untouched = Files BY <1>a DEF Untouched
<1>c. cur \in Files /\ Kind[cur] \in Kinds BY KindAssumption DEF TypeOK
<1>d. HashInv(cur) /\ FileInv(cur) BY <1>b, <1>c DEF HashesInv, FilesInv
<1>e. ~Stale BY <1>a, CoveredAssumption DEF Stale
<1>f. pc = "patch" => \A i \in Files : PatchSure(i, staged[i])
  BY <1>b DEF HashesInv, HashInv, PreImage, PatchSure
<1>g. /\ budget'["faults"] = 0
      /\ budget["faults"] = 0 =>
           pc \notin {"blocked", "putBack"} /\ mode # "unwind" /\ outcome # "recovery"
  BY <1>b DEF Quiet, QuietInv
<1> HIDE DEF HashesInv, FilesInv, QuietInv, Quiet
<1> USE <1>c, <1>d, <1>e, <1>f, <1>g DEF ControlInv, HashInv, FileInv,
        Unpublished, Aside, Published, Ready, PreImage, PostImage, IsPost,
        TypeOK, Files, Kinds, Staging, Copying, Publishing, RollingBack,
        ApplySteps, CleanupSteps, RecoverySteps, Resting, repository, journal,
        Goto, Advance, Fail
<1>1. CASE Refuse BY <1>1 DEF Refuse, RefuseWith
<1>2. CASE Begin BY <1>2 DEF Begin
<1>3. CASE CopySource BY <1>3 DEF CopySource
<1>4. CASE HashSource BY <1>4 DEF HashSource
<1>5. CASE StagePatch BY <1>5 DEF StagePatch
<1>6. CASE Revalidate BY <1>6 DEF Revalidate
<1>7. CASE WritePrepared BY <1>7 DEF WritePrepared, WriteJournal
<1>8. CASE OpenTemp BY <1>8 DEF OpenTemp
<1>9. CASE FillTemp BY <1>9 DEF FillTemp
<1>10. CASE WritePublishing BY <1>10 DEF WritePublishing, WriteJournal
<1>11. CASE VerifyPre BY <1>11 DEF VerifyPre
<1>12. CASE SetAside BY <1>12 DEF SetAside
<1>13. CASE Install BY <1>13 DEF Install, InstallFails
<1>14. CASE PutBack BY <1>14 DEF PutBack, MoveBack
<1>15. CASE SyncEntry BY <1>15 DEF SyncEntry
<1>16. CASE MarkPublished BY <1>16 DEF MarkPublished, WriteJournal
<1>17. CASE WriteCommitted BY <1>17 DEF WriteCommitted, WriteJournal
<1>18. CASE SyncRoot BY <1>18 DEF SyncRoot
<1>19. CASE CleanTemp BY <1>19 DEF CleanTemp
<1>20. CASE CleanBackup BY <1>20 DEF CleanBackup
<1>21. CASE RemoveJournal BY <1>21 DEF RemoveJournal
<1>22. CASE RemoveDir BY <1>22 DEF RemoveDir, Finish, Resolved
<1>23. CASE Load BY <1>23 DEF Load, Resolved
<1>24. CASE VerifyPost BY <1>24 DEF VerifyPost
<1>25. CASE Inspect BY <1>25 DEF Inspect
<1>26. CASE Discard BY <1>26 DEF Discard
<1>27. CASE Restore BY <1>27 DEF Restore, MoveBack
<1>28. CASE SyncBack BY <1>28 DEF SyncBack
<1>29. ASSUME NEW j \in Files, NEW c \in Saves(j), Edit(j, c)
       PROVE pc' \notin {"blocked", "putBack"} /\ mode' # "unwind"
             /\ outcome' # "recovery"
  BY <1>29 DEF Edit
<1>30. CASE IoFailure
  BY <1>30, ErrorIsNotOk DEF IoFailure, InstallFails, ErrorAt
<1>31. ASSUME NEW p, NEW written, JournalSyncFailure(p, written),
              <<p, written>> \in SyncFailures
       PROVE pc' \notin {"blocked", "putBack"} /\ mode' # "unwind"
             /\ outcome' # "recovery"
  <2>1. \/ p = "prepare" /\ written = "prepared"
        \/ p = "beginPublish" /\ written = "publishing"
        \/ p = "mark" /\ written = "publishing"
        \/ p = "commit" /\ written = "committed"
    BY <1>31 DEF SyncFailures
  <2> QED BY <1>31, <2>1 DEF JournalSyncFailure
<1>32. CASE Crash BY <1>32 DEF Crash
<1>33. CASE Restart BY <1>33 DEF Restart
<1>34. CASE UNCHANGED vars BY <1>34 DEF vars
<1> QED
  BY <1>1, <1>2, <1>3, <1>4, <1>5, <1>6, <1>7, <1>8, <1>9, <1>10, <1>11,
     <1>12, <1>13, <1>14, <1>15, <1>16, <1>17, <1>18, <1>19, <1>20, <1>21,
     <1>22, <1>23, <1>24, <1>25, <1>26, <1>27, <1>28, <1>29, <1>30, <1>31,
     <1>32, <1>33, <1>34
     DEF Next, Daemon, Publish, Cleanup, Recover, Environment, Rest, SyncFailures

\* Recovery can be interrupted anywhere and run again: without a failing
\* operation or an edit no crash makes it ask for a human.
THEOREM CrashesAloneNeverBlock == Spec => []CrashesNeverBlock
<1>1. TypeOK /\ QuietInv => CrashesNeverBlock
  BY DEF TypeOK, QuietInv, Quiet, CrashesNeverBlock
<1>2. IInv => TypeOK BY DEF IInv
<1>3. IInv /\ QuietInv /\ [Next]_vars => QuietInv' BY StepQuietInv
<1> QED BY <1>1, <1>2, <1>3, InitQuietInv, IInvHolds, PTL DEF Spec

-----------------------------------------------------------------------------
(* The work of others.                                                     *)

RacingSteps == {"setAside", "install", "putBack", "discard", "restore"}

\* The journal of a covered file holds the hashes the proposal was made with,
\* also after somebody edited it.
JournalInv(i) ==
    phase # "none" \/ pc = "prepare" => pre[i] = PreImage(i) /\ staged[i] = PostImage(i)

\* So a file somebody saved their own text in is never the one being renamed.
SavedInv(i) ==
    user[i] = "user" => target[i] = "user" /\ ~(i = cur /\ pc \in RacingSteps)

\* Unless an edit hit the moment between test and rename, what was set aside of a
\* modified file is its pre-image, and is there when the post-image is removed.
BackupInv(i) ==
    Kind[i] = "modify" /\ user[i] # "raced" =>
        /\ bak[i] \in {Absent, "pre"}
        /\ i = cur /\ pc = "setAside" => target[i] = "pre"
        /\ i = cur /\ pc = "discard" => bak[i] = "pre"

\* A saved post-image is touched by a rollback only: it is there, or on the way
\* from the removal to the pre-image, and no rollback comes to its cleanup before
\* it has got there.
MatchedInv(i) ==
    user[i] = "post" =>
        /\ Kind[i] # "delete"
        /\ ~(i = cur /\ pc \in {"setAside", "install", "putBack"})
        /\ mode = "apply" \/ phase = "committed" => target[i] = "post"
        /\ i = cur /\ pc = "discard" => target[i] = "post"
        /\ i = cur /\ pc = "restore" => target[i] = Absent
        /\ \/ target[i] \in {"post", PreImage(i)}
           \/ /\ Kind[i] = "modify" /\ target[i] = Absent /\ bak[i] = "pre"
              /\ phase = "publishing"
              /\ pc \notin CleanupSteps
              /\ pc \in RollingBack => i <= cur
              /\ pc \in RollingBack /\ i = cur => pc \in {"inspect", "restore"}

WorkInv ==
    \A i \in Covered : JournalInv(i) /\ SavedInv(i) /\ BackupInv(i) /\ MatchedInv(i)

LEMMA InitWorkInv == Init => WorkInv
BY CoveredAssumption
   DEF Init, WorkInv, JournalInv, SavedInv, BackupInv, MatchedInv, Files, Nothing

LEMMA StepSaved ==
    IInv /\ WorkInv /\ [Next]_vars => \A i \in Covered : JournalInv(i)' /\ SavedInv(i)'
<1> SUFFICES ASSUME TypeOK, ControlInv, HashesInv, WorkInv, [Next]_vars, NEW i \in Covered
             PROVE  JournalInv(i)' /\ SavedInv(i)'
  BY DEF IInv, HashesInv
<1>a. i \in Files /\ Kind[i] \in Kinds BY CoveredAssumption, KindAssumption
<1>b. JournalInv(i) /\ SavedInv(i) BY DEF WorkInv
<1>c. pc = "revalidate" /\ ~Stale => pre[i] = PreImage(i) /\ staged[i] = PostImage(i)
  BY <1>a DEF Stale, HashesInv, HashInv, Untouched
<1> HIDE DEF HashesInv, WorkInv
<1> USE <1>a, <1>b, <1>c DEF ControlInv, JournalInv, SavedInv, RacingSteps,
        PreImage, PostImage, IsPost, TypeOK, Files, Kinds,
        Staging, Copying, Publishing, RollingBack, ApplySteps, CleanupSteps, RecoverySteps,
        Resting, repository, journal, Goto, Advance, Fail
<1>1. CASE Refuse BY <1>1 DEF Refuse, RefuseWith
<1>2. CASE Begin BY <1>2 DEF Begin
<1>3. CASE CopySource BY <1>3 DEF CopySource
<1>4. CASE HashSource BY <1>4 DEF HashSource
<1>5. CASE StagePatch BY <1>5 DEF StagePatch
<1>6. CASE Revalidate BY <1>6 DEF Revalidate
<1>7. CASE WritePrepared BY <1>7 DEF WritePrepared, WriteJournal
<1>8. CASE OpenTemp BY <1>8 DEF OpenTemp
<1>9. CASE FillTemp BY <1>9 DEF FillTemp
<1>10. CASE WritePublishing BY <1>10 DEF WritePublishing, WriteJournal
<1>11. CASE VerifyPre BY <1>11 DEF VerifyPre
<1>12. CASE SetAside BY <1>12 DEF SetAside
<1>13. CASE Install BY <1>13 DEF Install, InstallFails
<1>14. CASE PutBack BY <1>14 DEF PutBack, MoveBack
<1>15. CASE SyncEntry BY <1>15 DEF SyncEntry
<1>16. CASE MarkPublished BY <1>16 DEF MarkPublished, WriteJournal
<1>17. CASE WriteCommitted BY <1>17 DEF WriteCommitted, WriteJournal
<1>18. CASE SyncRoot BY <1>18 DEF SyncRoot
<1>19. CASE CleanTemp BY <1>19 DEF CleanTemp
<1>20. CASE CleanBackup BY <1>20 DEF CleanBackup
<1>21. CASE RemoveJournal BY <1>21 DEF RemoveJournal
<1>22. CASE RemoveDir BY <1>22 DEF RemoveDir, Finish, Resolved
<1>23. CASE Load BY <1>23 DEF Load, Resolved
<1>24. CASE VerifyPost BY <1>24 DEF VerifyPost
<1>25. CASE Inspect BY <1>25 DEF Inspect
<1>26. CASE Discard BY <1>26 DEF Discard
<1>27. CASE Restore BY <1>27 DEF Restore, MoveBack
<1>28. CASE SyncBack BY <1>28 DEF SyncBack
<1>29. ASSUME NEW j \in Files, NEW c \in Saves(j), Edit(j, c)
       PROVE JournalInv(i)' /\ SavedInv(i)'
  BY <1>29, SavesAreContents DEF Edit, Racing
<1>30. CASE IoFailure
  BY <1>30, ErrorIsNotOk DEF IoFailure, InstallFails, ErrorAt
<1>31. ASSUME NEW p, NEW written, JournalSyncFailure(p, written),
              <<p, written>> \in SyncFailures
       PROVE JournalInv(i)' /\ SavedInv(i)'
  <2>1. \/ p = "prepare" /\ written = "prepared"
        \/ p = "beginPublish" /\ written = "publishing"
        \/ p = "mark" /\ written = "publishing"
        \/ p = "commit" /\ written = "committed"
    BY <1>31 DEF SyncFailures
  <2> QED BY <1>31, <2>1 DEF JournalSyncFailure
<1>32. CASE Crash BY <1>32 DEF Crash
<1>33. CASE Restart BY <1>33 DEF Restart
<1>34. CASE UNCHANGED vars BY <1>34 DEF vars
<1> QED
  BY <1>1, <1>2, <1>3, <1>4, <1>5, <1>6, <1>7, <1>8, <1>9, <1>10, <1>11,
     <1>12, <1>13, <1>14, <1>15, <1>16, <1>17, <1>18, <1>19, <1>20, <1>21,
     <1>22, <1>23, <1>24, <1>25, <1>26, <1>27, <1>28, <1>29, <1>30, <1>31,
     <1>32, <1>33, <1>34
     DEF Next, Daemon, Publish, Cleanup, Recover, Environment, Rest, SyncFailures

LEMMA StepBackup ==
    IInv /\ WorkInv /\ [Next]_vars => \A i \in Covered : BackupInv(i)'
<1> SUFFICES ASSUME TypeOK, ControlInv, HashesInv, WorkInv, [Next]_vars, NEW i \in Covered
             PROVE  BackupInv(i)'
  BY DEF IInv, HashesInv
<1>a. i \in Files /\ Kind[i] \in Kinds BY CoveredAssumption, KindAssumption
<1>b. JournalInv(i) /\ BackupInv(i) BY DEF WorkInv
<1> HIDE DEF HashesInv, WorkInv
<1> USE <1>a, <1>b DEF ControlInv, JournalInv, BackupInv,
        PreImage, PostImage, IsPost, TypeOK, Files, Kinds,
        Staging, Copying, Publishing, RollingBack, ApplySteps, CleanupSteps, RecoverySteps,
        Resting, repository, journal, Goto, Advance, Fail
<1>1. CASE Refuse BY <1>1 DEF Refuse, RefuseWith
<1>2. CASE Begin BY <1>2 DEF Begin
<1>3. CASE CopySource BY <1>3 DEF CopySource
<1>4. CASE HashSource BY <1>4 DEF HashSource
<1>5. CASE StagePatch BY <1>5 DEF StagePatch
<1>6. CASE Revalidate BY <1>6 DEF Revalidate
<1>7. CASE WritePrepared BY <1>7 DEF WritePrepared, WriteJournal
<1>8. CASE OpenTemp BY <1>8 DEF OpenTemp
<1>9. CASE FillTemp BY <1>9 DEF FillTemp
<1>10. CASE WritePublishing BY <1>10 DEF WritePublishing, WriteJournal
<1>11. CASE VerifyPre BY <1>11 DEF VerifyPre
<1>12. CASE SetAside
  <2>1. CASE i = cur
    <3>1. pc = "setAside" /\ user' = user BY <1>12 DEF SetAside
    <3>2. CASE target[cur] = Absent
      <4>1. UNCHANGED bak /\ pc' \in {"load", "done", "blocked"}
        BY <1>12, <3>2 DEF SetAside
      <4> QED BY <3>1, <4>1
    <3>3. CASE target[cur] # Absent
      <4>1. bak' = [bak EXCEPT ![cur] = target[cur]] /\ pc' \in {"sync", "install"}
        BY <1>12, <3>3 DEF SetAside
      <4>2. bak'[i] = target[i] BY <2>1, <4>1
      <4> QED BY <2>1, <3>1, <4>1, <4>2
    <3> QED BY <3>2, <3>3
  <2>2. CASE i # cur BY <1>12, <2>2 DEF SetAside
  <2> QED BY <2>1, <2>2
<1>13. CASE Install BY <1>13 DEF Install, InstallFails
<1>14. CASE PutBack BY <1>14 DEF PutBack, MoveBack
<1>15. CASE SyncEntry BY <1>15 DEF SyncEntry
<1>16. CASE MarkPublished BY <1>16 DEF MarkPublished, WriteJournal
<1>17. CASE WriteCommitted BY <1>17 DEF WriteCommitted, WriteJournal
<1>18. CASE SyncRoot BY <1>18 DEF SyncRoot
<1>19. CASE CleanTemp BY <1>19 DEF CleanTemp
<1>20. CASE CleanBackup BY <1>20 DEF CleanBackup
<1>21. CASE RemoveJournal BY <1>21 DEF RemoveJournal
<1>22. CASE RemoveDir BY <1>22 DEF RemoveDir, Finish, Resolved
<1>23. CASE Load BY <1>23 DEF Load, Resolved
<1>24. CASE VerifyPost BY <1>24 DEF VerifyPost
<1>25. CASE Inspect BY <1>25 DEF Inspect
<1>26. CASE Discard BY <1>26 DEF Discard
<1>27. CASE Restore BY <1>27 DEF Restore, MoveBack
<1>28. CASE SyncBack BY <1>28 DEF SyncBack
<1>29. ASSUME NEW j \in Files, NEW c \in Saves(j), Edit(j, c)
       PROVE BackupInv(i)'
  BY <1>29, SavesAreContents DEF Edit, Racing
<1>30. CASE IoFailure
  BY <1>30, ErrorIsNotOk DEF IoFailure, InstallFails, ErrorAt
<1>31. ASSUME NEW p, NEW written, JournalSyncFailure(p, written),
              <<p, written>> \in SyncFailures
       PROVE BackupInv(i)'
  <2>1. \/ p = "prepare" /\ written = "prepared"
        \/ p = "beginPublish" /\ written = "publishing"
        \/ p = "mark" /\ written = "publishing"
        \/ p = "commit" /\ written = "committed"
    BY <1>31 DEF SyncFailures
  <2> QED BY <1>31, <2>1 DEF JournalSyncFailure
<1>32. CASE Crash BY <1>32 DEF Crash
<1>33. CASE Restart BY <1>33 DEF Restart
<1>34. CASE UNCHANGED vars BY <1>34 DEF vars
<1> QED
  BY <1>1, <1>2, <1>3, <1>4, <1>5, <1>6, <1>7, <1>8, <1>9, <1>10, <1>11,
     <1>12, <1>13, <1>14, <1>15, <1>16, <1>17, <1>18, <1>19, <1>20, <1>21,
     <1>22, <1>23, <1>24, <1>25, <1>26, <1>27, <1>28, <1>29, <1>30, <1>31,
     <1>32, <1>33, <1>34
     DEF Next, Daemon, Publish, Cleanup, Recover, Environment, Rest, SyncFailures

LEMMA StepMatched ==
    IInv /\ WorkInv /\ [Next]_vars => \A i \in Covered : MatchedInv(i)'
<1> SUFFICES ASSUME TypeOK, ControlInv, HashesInv, WorkInv, [Next]_vars, NEW i \in Covered
             PROVE  MatchedInv(i)'
  BY DEF IInv, HashesInv
<1>a. i \in Files /\ Kind[i] \in Kinds BY CoveredAssumption, KindAssumption
<1>b. JournalInv(i) /\ BackupInv(i) /\ MatchedInv(i) BY DEF WorkInv
<1> HIDE DEF HashesInv, WorkInv
<1> USE <1>a, <1>b DEF ControlInv, JournalInv, BackupInv, MatchedInv,
        PreImage, PostImage, IsPost, TypeOK, Files, Kinds,
        Staging, Copying, Publishing, RollingBack, ApplySteps, CleanupSteps, RecoverySteps,
        Resting, repository, journal, Goto, Advance, Fail
<1>1. CASE Refuse BY <1>1 DEF Refuse, RefuseWith
<1>2. CASE Begin BY <1>2 DEF Begin
<1>3. CASE CopySource BY <1>3 DEF CopySource
<1>4. CASE HashSource BY <1>4 DEF HashSource
<1>5. CASE StagePatch BY <1>5 DEF StagePatch
<1>6. CASE Revalidate BY <1>6 DEF Revalidate
<1>7. CASE WritePrepared BY <1>7 DEF WritePrepared, WriteJournal
<1>8. CASE OpenTemp BY <1>8 DEF OpenTemp
<1>9. CASE FillTemp BY <1>9 DEF FillTemp
<1>10. CASE WritePublishing BY <1>10 DEF WritePublishing, WriteJournal
<1>11. CASE VerifyPre BY <1>11 DEF VerifyPre
<1>12. CASE SetAside BY <1>12 DEF SetAside
<1>13. CASE Install BY <1>13 DEF Install, InstallFails
<1>14. CASE PutBack BY <1>14 DEF PutBack, MoveBack
<1>15. CASE SyncEntry BY <1>15 DEF SyncEntry
<1>16. CASE MarkPublished BY <1>16 DEF MarkPublished, WriteJournal
<1>17. CASE WriteCommitted BY <1>17 DEF WriteCommitted, WriteJournal
<1>18. CASE SyncRoot BY <1>18 DEF SyncRoot
<1>19. CASE CleanTemp BY <1>19 DEF CleanTemp
<1>20. CASE CleanBackup BY <1>20 DEF CleanBackup
<1>21. CASE RemoveJournal BY <1>21 DEF RemoveJournal
<1>22. CASE RemoveDir BY <1>22 DEF RemoveDir, Finish, Resolved
<1>23. CASE Load BY <1>23 DEF Load, Resolved
<1>24. CASE VerifyPost BY <1>24 DEF VerifyPost
<1>25. CASE Inspect BY <1>25 DEF Inspect
<1>26. CASE Discard BY <1>26 DEF Discard
<1>27. CASE Restore
  <2>1. pc = "restore" /\ phase = "publishing" /\ mode # "apply" BY <1>27 DEF Restore
  <2>2. CASE bak[cur] = Absent
    <3>1. UNCHANGED <<target, bak, user, phase>> /\ pc' \in {"done", "blocked"}
      BY <1>27, <2>1, <2>2 DEF Restore, MoveBack
    <3>2. mode' # "apply" BY <1>27, <2>1, <2>2 DEF Restore
    <3> QED BY <2>1, <2>2, <3>1, <3>2
  <2>3. CASE bak[cur] # Absent
    <3>1. /\ target' = [target EXCEPT ![cur] = bak[cur]]
          /\ bak' = [bak EXCEPT ![cur] = Absent]
          /\ pc' = "syncBack" /\ UNCHANGED <<user, phase, mode, cur>>
      BY <1>27, <2>3 DEF Restore, MoveBack
    <3>2. CASE i = cur BY <2>1, <3>1, <3>2
    <3>3. CASE i # cur BY <2>1, <3>1, <3>3
    <3> QED BY <3>2, <3>3
  <2> QED BY <2>2, <2>3
<1>28. CASE SyncBack BY <1>28 DEF SyncBack
<1>29. ASSUME NEW j \in Files, NEW c \in Saves(j), Edit(j, c)
       PROVE MatchedInv(i)'
  BY <1>29, SavesAreContents DEF Edit, Racing
<1>30. CASE IoFailure
  BY <1>30, ErrorIsNotOk DEF IoFailure, InstallFails, ErrorAt
<1>31. ASSUME NEW p, NEW written, JournalSyncFailure(p, written),
              <<p, written>> \in SyncFailures
       PROVE MatchedInv(i)'
  <2>1. \/ p = "prepare" /\ written = "prepared"
        \/ p = "beginPublish" /\ written = "publishing"
        \/ p = "mark" /\ written = "publishing"
        \/ p = "commit" /\ written = "committed"
    BY <1>31 DEF SyncFailures
  <2> QED BY <1>31, <2>1 DEF JournalSyncFailure
<1>32. CASE Crash BY <1>32 DEF Crash
<1>33. CASE Restart BY <1>33 DEF Restart
<1>34. CASE UNCHANGED vars BY <1>34 DEF vars
<1> QED
  BY <1>1, <1>2, <1>3, <1>4, <1>5, <1>6, <1>7, <1>8, <1>9, <1>10, <1>11,
     <1>12, <1>13, <1>14, <1>15, <1>16, <1>17, <1>18, <1>19, <1>20, <1>21,
     <1>22, <1>23, <1>24, <1>25, <1>26, <1>27, <1>28, <1>29, <1>30, <1>31,
     <1>32, <1>33, <1>34
     DEF Next, Daemon, Publish, Cleanup, Recover, Environment, Rest, SyncFailures

LEMMA StepWorkInv == IInv /\ WorkInv /\ [Next]_vars => WorkInv'
BY StepSaved, StepBackup, StepMatched DEF WorkInv

\* What a user saves in a covered file, while no rename of that file is under
\* way, survives publication, unwinding and recovery if it is a text of their own;
\* if it is the post-image it stays or is rolled back to the pre-image, never to
\* anything else and never after a commit.
THEOREM SavedWorkSurvives == Spec => []UserWorkSurvives
<1>1. IInv /\ WorkInv => UserWorkSurvives
  BY DEF IInv, ControlInv, WorkInv, SavedInv, MatchedInv, UserWorkSurvives
<1>2. IInv /\ WorkInv /\ [Next]_vars => WorkInv' BY StepWorkInv
<1> QED BY <1>1, <1>2, InitWorkInv, IInvHolds, PTL DEF Spec

-----------------------------------------------------------------------------
(* Atomicity.                                                              *)

\* A caller is answered with something, and with success only when no journal is left.
ReplyInv ==
    /\ pc = "done" => outcome # "none"
    /\ mode = "unwind" /\ pc # "down" => outcome # "none"
    /\ outcome = "ok" => phase = "none"

\* What a step does to the caller and to the life of the daemon.
LifeStep ==
    \/ UNCHANGED <<Life, Reply>>
    \/ Life = "waiting" /\ Life' = "running" /\ UNCHANGED Reply
    \/ /\ Life \in {"waiting", "running"}
       /\ Life' = "returned"
       /\ \/ Reply' = "ok" /\ phase = "none" /\ AllPost
          \/ Reply' \in Refusals /\ phase # "committed" /\ (phase = "none" => AllPre)
          \/ Reply' \in {"state", "recovery"} /\ Life = "running"
    \/ Life # "waiting" /\ Life' = "dead" /\ Reply' = "none"
    \/ Life = "dead" /\ Life' = "recovered" /\ UNCHANGED Reply

\* What it does to the journal: the phase only goes on where the files agree with it.
PhaseStep ==
    \/ phase' = phase
    \/ /\ phase # "committed" /\ phase' \in {"prepared", "publishing"}
       /\ phase = "none" => AllPre
    \/ /\ phase = "publishing" /\ phase' = "committed"
       /\ Life = "running" /\ UNCHANGED <<Life, Reply>>
    \/ /\ phase' = "none" /\ target' = target
       /\ IF phase = "committed" THEN AllPost ELSE AllPre

LEMMA InitReplyInv == Init => ReplyInv
BY DEF Init, ReplyInv

LEMMA StepReplyInv ==
    IInv /\ RefusalInv /\ ReplyInv /\ [Next]_vars => ReplyInv' /\ LifeStep
<1> SUFFICES ASSUME TypeOK, ControlInv, FilesInv, SettledInv, RefusalInv, ReplyInv, [Next]_vars
             PROVE  ReplyInv' /\ LifeStep
  BY DEF IInv, FilesInv
<1>a. pc = "idle" => AllPre
  BY DEF FilesInv, FileInv, Unpublished, AllPre, Untouched
<1> HIDE DEF FilesInv
<1> USE <1>a DEF ControlInv, SettledInv, RefusalInv, ReplyInv, Refusals, LifeStep, Life, Reply,
        Outcomes, TypeOK, Files, Kinds, Staging, Copying, Publishing, RollingBack,
        ApplySteps, CleanupSteps, RecoverySteps, Resting, repository, journal,
        Goto, Advance, Fail
<1>1. CASE Refuse BY <1>1 DEF Refuse, RefuseWith
<1>2. CASE Begin BY <1>2 DEF Begin
<1>3. CASE CopySource BY <1>3 DEF CopySource
<1>4. CASE HashSource BY <1>4 DEF HashSource
<1>5. CASE StagePatch BY <1>5 DEF StagePatch
<1>6. CASE Revalidate BY <1>6 DEF Revalidate
<1>7. CASE WritePrepared BY <1>7 DEF WritePrepared, WriteJournal
<1>8. CASE OpenTemp BY <1>8 DEF OpenTemp
<1>9. CASE FillTemp BY <1>9 DEF FillTemp
<1>10. CASE WritePublishing BY <1>10 DEF WritePublishing, WriteJournal
<1>11. CASE VerifyPre BY <1>11 DEF VerifyPre
<1>12. CASE SetAside BY <1>12 DEF SetAside
<1>13. CASE Install BY <1>13 DEF Install, InstallFails
<1>14. CASE PutBack BY <1>14 DEF PutBack, MoveBack
<1>15. CASE SyncEntry BY <1>15 DEF SyncEntry
<1>16. CASE MarkPublished BY <1>16 DEF MarkPublished, WriteJournal
<1>17. CASE WriteCommitted BY <1>17 DEF WriteCommitted, WriteJournal
<1>18. CASE SyncRoot BY <1>18 DEF SyncRoot
<1>19. CASE CleanTemp BY <1>19 DEF CleanTemp
<1>20. CASE CleanBackup BY <1>20 DEF CleanBackup
<1>21. CASE RemoveJournal BY <1>21 DEF RemoveJournal
<1>22. CASE RemoveDir BY <1>22 DEF RemoveDir, Finish, Resolved
<1>23. CASE Load BY <1>23 DEF Load, Resolved
<1>24. CASE VerifyPost BY <1>24 DEF VerifyPost
<1>25. CASE Inspect BY <1>25 DEF Inspect
<1>26. CASE Discard BY <1>26 DEF Discard
<1>27. CASE Restore BY <1>27 DEF Restore, MoveBack
<1>28. CASE SyncBack BY <1>28 DEF SyncBack
<1>29. ASSUME NEW j \in Files, NEW c \in Saves(j), Edit(j, c) PROVE ReplyInv' /\ LifeStep
  BY <1>29 DEF Edit
<1>30. CASE IoFailure BY <1>30, ErrorIsNotOk DEF IoFailure, InstallFails, ErrorAt
<1>31. ASSUME NEW p, NEW written, JournalSyncFailure(p, written),
              <<p, written>> \in SyncFailures
       PROVE ReplyInv' /\ LifeStep
  <2>1. \/ p = "prepare" /\ written = "prepared"
        \/ p = "beginPublish" /\ written = "publishing"
        \/ p = "mark" /\ written = "publishing"
        \/ p = "commit" /\ written = "committed"
    BY <1>31 DEF SyncFailures
  <2> QED BY <1>31, <2>1 DEF JournalSyncFailure
<1>32. CASE Crash BY <1>32 DEF Crash
<1>33. CASE Restart BY <1>33 DEF Restart
<1>34. CASE UNCHANGED vars BY <1>34 DEF vars
<1> QED
  BY <1>1, <1>2, <1>3, <1>4, <1>5, <1>6, <1>7, <1>8, <1>9, <1>10, <1>11,
     <1>12, <1>13, <1>14, <1>15, <1>16, <1>17, <1>18, <1>19, <1>20, <1>21,
     <1>22, <1>23, <1>24, <1>25, <1>26, <1>27, <1>28, <1>29, <1>30, <1>31,
     <1>32, <1>33, <1>34
     DEF Next, Daemon, Publish, Cleanup, Recover, Environment, Rest, SyncFailures

LEMMA NextIsPhaseStep == IInv /\ [Next]_vars => PhaseStep
<1> SUFFICES ASSUME TypeOK, ControlInv, FilesInv, [Next]_vars PROVE PhaseStep
  BY DEF IInv, FilesInv
<1>a. \/ pc \in {"idle"} \cup Staging
      \/ phase = "prepared"
      \/ pc \in CleanupSteps /\ phase = "publishing"
      => AllPre
  BY DEF FilesInv, FileInv, Unpublished, AllPre, Untouched
<1>b. phase = "committed" => AllPost
  BY DEF FilesInv, FileInv, AllPost, Untouched
<1> HIDE DEF FilesInv
<1> USE <1>a, <1>b DEF ControlInv, PhaseStep, Life, Reply,
        TypeOK, Files, Kinds, Staging, Copying, Publishing, RollingBack,
        ApplySteps, CleanupSteps, RecoverySteps, Resting, repository, journal,
        Goto, Advance, Fail
<1>1. CASE Refuse BY <1>1 DEF Refuse, RefuseWith
<1>2. CASE Begin BY <1>2 DEF Begin
<1>3. CASE CopySource BY <1>3 DEF CopySource
<1>4. CASE HashSource BY <1>4 DEF HashSource
<1>5. CASE StagePatch BY <1>5 DEF StagePatch
<1>6. CASE Revalidate BY <1>6 DEF Revalidate
<1>7. CASE WritePrepared BY <1>7 DEF WritePrepared, WriteJournal
<1>8. CASE OpenTemp BY <1>8 DEF OpenTemp
<1>9. CASE FillTemp BY <1>9 DEF FillTemp
<1>10. CASE WritePublishing BY <1>10 DEF WritePublishing, WriteJournal
<1>11. CASE VerifyPre BY <1>11 DEF VerifyPre
<1>12. CASE SetAside BY <1>12 DEF SetAside
<1>13. CASE Install BY <1>13 DEF Install, InstallFails
<1>14. CASE PutBack BY <1>14 DEF PutBack, MoveBack
<1>15. CASE SyncEntry BY <1>15 DEF SyncEntry
<1>16. CASE MarkPublished BY <1>16 DEF MarkPublished, WriteJournal
<1>17. CASE WriteCommitted BY <1>17 DEF WriteCommitted, WriteJournal
<1>18. CASE SyncRoot BY <1>18 DEF SyncRoot
<1>19. CASE CleanTemp BY <1>19 DEF CleanTemp
<1>20. CASE CleanBackup BY <1>20 DEF CleanBackup
<1>21. CASE RemoveJournal BY <1>21 DEF RemoveJournal
<1>22. CASE RemoveDir BY <1>22 DEF RemoveDir, Finish, Resolved
<1>23. CASE Load BY <1>23 DEF Load, Resolved
<1>24. CASE VerifyPost BY <1>24 DEF VerifyPost
<1>25. CASE Inspect BY <1>25 DEF Inspect
<1>26. CASE Discard BY <1>26 DEF Discard
<1>27. CASE Restore BY <1>27 DEF Restore, MoveBack
<1>28. CASE SyncBack BY <1>28 DEF SyncBack
<1>29. ASSUME NEW j \in Files, NEW c \in Saves(j), Edit(j, c) PROVE PhaseStep
  BY <1>29 DEF Edit
<1>30. CASE IoFailure BY <1>30, ErrorIsNotOk DEF IoFailure, InstallFails, ErrorAt
<1>31. ASSUME NEW p, NEW written, JournalSyncFailure(p, written),
              <<p, written>> \in SyncFailures
       PROVE PhaseStep
  <2>1. \/ p = "prepare" /\ written = "prepared"
        \/ p = "beginPublish" /\ written = "publishing"
        \/ p = "mark" /\ written = "publishing"
        \/ p = "commit" /\ written = "committed"
    BY <1>31 DEF SyncFailures
  <2> QED BY <1>31, <2>1 DEF JournalSyncFailure
<1>32. CASE Crash BY <1>32 DEF Crash
<1>33. CASE Restart BY <1>33 DEF Restart
<1>34. CASE UNCHANGED vars BY <1>34 DEF vars
<1> QED
  BY <1>1, <1>2, <1>3, <1>4, <1>5, <1>6, <1>7, <1>8, <1>9, <1>10, <1>11,
     <1>12, <1>13, <1>14, <1>15, <1>16, <1>17, <1>18, <1>19, <1>20, <1>21,
     <1>22, <1>23, <1>24, <1>25, <1>26, <1>27, <1>28, <1>29, <1>30, <1>31,
     <1>32, <1>33, <1>34
     DEF Next, Daemon, Publish, Cleanup, Recover, Environment, Rest, SyncFailures

\* Without a journal no step changes a file that stays untouched.
LEMMA SettledFilesStay ==
    IInv /\ [Next]_vars /\ phase = "none" /\ phase' = "none" =>
        (AllPre => AllPre') /\ (AllPost => AllPost')
<1> SUFFICES ASSUME TypeOK, ControlInv, [Next]_vars, phase = "none"
             PROVE  (AllPre => AllPre') /\ (AllPost => AllPost')
  BY DEF IInv
<1>1. \A i \in Files : user'[i] = "none" => user[i] = "none"
  BY UntouchedShrinks
<1>2. \A i \in Files : user'[i] = "none" => target'[i] = target[i]
  <2> SUFFICES ASSUME ~ \E j \in Files : \E c \in Saves(j) : Edit(j, c)
               PROVE  target' = target
    BY SavesAreContents DEF Edit, TypeOK
  <2>1. \/ pc \in {"setAside", "install", "putBack", "discard", "restore"}
        \/ target' = target
    BY DEF Next, Refuse, RefuseWith, Begin, Daemon, Publish, CopySource, HashSource,
       StagePatch, Revalidate, WritePrepared, WriteJournal, OpenTemp, FillTemp,
       WritePublishing, VerifyPre, SetAside, Install, PutBack, SyncEntry, MarkPublished,
       WriteCommitted, SyncRoot, Cleanup, CleanTemp, CleanBackup, RemoveJournal, RemoveDir,
       Recover, Load, VerifyPost, Inspect, Discard, Restore, SyncBack, Environment,
       IoFailure, JournalSyncFailure, Crash, Restart, Rest, vars, repository
  <2> QED BY <2>1 DEF ControlInv, Publishing, RollingBack
<1>3. QED BY <1>1, <1>2 DEF AllPre, AllPost, Untouched, PreImage, PostImage

\* Some changed file is left alone.
LeftAlone == Untouched # {}

\* Tree follows the phase, and the files where there is no journal.
TreeInv ==
    /\ phase \in {"prepared", "publishing"} => Tree = "pre"
    /\ phase = "committed" => Tree = "post"
    /\ phase = "none" => AllPre \/ AllPost
    /\ phase = "none" /\ AllPre => Tree = "pre"
    /\ phase = "none" /\ AllPost => Tree = "post"

LEMMA TreeIs == IInv /\ LeftAlone => TreeInv
<1> SUFFICES ASSUME IInv, NEW i \in Untouched PROVE TreeInv
  BY DEF LeftAlone
<1>1. ~(AllPre /\ AllPost)
  <2>1. i \in Files /\ Kind[i] \in Kinds BY KindAssumption DEF Untouched
  <2>2. PreImage(i) # PostImage(i) BY <2>1 DEF PreImage, PostImage, Kinds
  <2>3. QED BY <2>2 DEF AllPre, AllPost
<1>2. phase = "prepared" => AllPre BY DEF IInv, FileInv, Unpublished, AllPre
<1>3. phase = "committed" => AllPost BY DEF IInv, FileInv, AllPost
<1>4. phase = "none" => AllPre \/ AllPost BY DEF IInv, SettledInv
<1>5. phase \in {"none", "prepared", "publishing", "committed"} BY DEF IInv, TypeOK
<1>6. QED BY <1>1, <1>2, <1>3, <1>4, <1>5 DEF Tree, TreeInv

AtomicInv == IInv /\ RefusalInv /\ ReplyInv /\ TreeInv

\* Every step is one of AtomicApply's or one it does not see.
LEMMA StepIsAtomic == AtomicInv /\ [Next]_vars /\ TreeInv' => [Atomic!Next]_(Atomic!vars)
<1> SUFFICES ASSUME AtomicInv, [Next]_vars, TreeInv' PROVE [Atomic!Next]_(Atomic!vars)
  OBVIOUS
<1>1. PhaseStep BY NextIsPhaseStep DEF AtomicInv
<1>2. LifeStep BY StepReplyInv DEF AtomicInv
<1>3. TreeInv' OBVIOUS
<1>4. TreeInv /\ phase \in {"none", "prepared", "publishing", "committed"}
  BY DEF AtomicInv, IInv, TypeOK
<1> USE DEF TreeInv
<1>5. CASE phase = "publishing" /\ phase' = "committed"
  <2>1. Tree = "pre" /\ Tree' = "post" BY <1>3, <1>4, <1>5
  <2>2. Life = "running" /\ UNCHANGED <<Life, Reply>> BY <1>1, <1>5 DEF PhaseStep
  <2>3. QED BY <2>1, <2>2 DEF Atomic!Next, Atomic!Commit
<1>6. CASE ~(phase = "publishing" /\ phase' = "committed")
  <2>1. Tree' = Tree
    <3>1. CASE phase' = phase
      <4>1. phase = "none" => (AllPre => AllPre') /\ (AllPost => AllPost')
        BY <3>1, SettledFilesStay DEF AtomicInv
      <4>2. QED BY <1>3, <1>4, <3>1, <4>1
    <3>2. CASE phase # "committed" /\ phase' \in {"prepared", "publishing"} /\ (phase = "none" => AllPre)
      BY <1>3, <1>4, <3>2
    <3>3. CASE phase' = "none" /\ target' = target /\ IF phase = "committed" THEN AllPost ELSE AllPre
      <4>1. \A i \in Files : user'[i] = "none" => user[i] = "none"
        BY UntouchedShrinks DEF AtomicInv, IInv
      <4>2. (AllPre => AllPre') /\ (AllPost => AllPost')
        BY <3>3, <4>1 DEF AllPre, AllPost, Untouched, PreImage, PostImage
      <4>3. QED BY <1>3, <1>4, <3>3, <4>2
    <3>4. QED BY <1>1, <1>6, <3>1, <3>2, <3>3 DEF PhaseStep
  <2>2. CASE UNCHANGED <<Life, Reply>> BY <2>1, <2>2 DEF Atomic!vars
  <2>3. CASE Life = "waiting" /\ Life' = "running" /\ UNCHANGED Reply
    BY <2>1, <2>3 DEF Atomic!Next, Atomic!Begin
  <2>4. CASE /\ Life \in {"waiting", "running"}
             /\ Life' = "returned"
             /\ \/ Reply' = "ok" /\ phase = "none" /\ AllPost
                \/ Reply' \in Refusals /\ phase # "committed" /\ (phase = "none" => AllPre)
                \/ Reply' \in {"state", "recovery"} /\ Life = "running"
    BY <1>4, <2>1, <2>4 DEF Refusals, Atomic!Next, Atomic!Return
  <2>5. CASE Life # "waiting" /\ Life' = "dead" /\ Reply' = "none"
    BY <2>1, <2>5 DEF Atomic!Next, Atomic!Crash
  <2>6. CASE Life = "dead" /\ Life' = "recovered" /\ UNCHANGED Reply
    BY <2>1, <2>6 DEF Atomic!Next, Atomic!Recover
  <2>7. QED BY <1>2, <2>2, <2>3, <2>4, <2>5, <2>6 DEF LifeStep
<1>7. QED BY <1>5, <1>6

LEMMA InitIsAtomic == Init => Atomic!Init
<1> SUFFICES ASSUME Init PROVE Atomic!Init
  OBVIOUS
<1>1. AllPre /\ phase = "none" BY DEF Init, AllPre, Untouched
<1>2. LeftAlone BY NAssumption DEF Init, LeftAlone, Untouched, Files
<1>3. Tree = "pre" BY <1>1, <1>2, InitIInv, TreeIs DEF TreeInv
<1>4. Reply = "none" /\ Life = "waiting" BY DEF Init, Life, Reply
<1>5. QED BY <1>3, <1>4 DEF Atomic!Init

\* As long as one changed file is left alone, the journal, the renames, the unwinding and
\* the recovery are one step to whoever looks at such files: AtomicApply without its
\* fairness, for any number of files, failures, edits and crashes.
THEOREM ApplyIsAtomic == Spec /\ []LeftAlone => Atomic!Spec
<1>1. IInv /\ RefusalInv /\ [Next]_vars => RefusalInv' BY StepRefusalInv
<1>2. IInv /\ RefusalInv /\ ReplyInv /\ [Next]_vars => ReplyInv' BY StepReplyInv
<1>3. IInv /\ RefusalInv /\ ReplyInv /\ TreeInv => AtomicInv BY DEF AtomicInv
<1>4. QED
  BY <1>1, <1>2, <1>3, TreeIs, StepIsAtomic, InitRefusalInv, InitReplyInv, InitIsAtomic,
     IInvHolds, PTL
  DEF Spec, Atomic!Spec

-----------------------------------------------------------------------------
(* What AtomicApply's reader may rely on, brought back to the journal.     *)

\* The two answers that say something of the tree are true of it, and it never
\* shows part of a publication.
RepliesAreTrue ==
    /\ Tree \in {"pre", "post"}
    /\ Life \in {"waiting", "running"} => Reply = "none"
    /\ Reply = "ok" => Tree = "post"
    /\ Reply \in Refusals => Tree = "pre"

\* The tree changes only while the caller waits, and only from the old to the new:
\* once Apply has returned or the daemon has crashed, no recovery, however often it
\* is interrupted, turns what was found into the other.
DecidedForGood == Tree' # Tree => Life = "running" /\ Tree = "pre" /\ Tree' = "post"

\* AtomicApply keeps these two promises.
LEMMA AtomicPromises ==
    Atomic!Spec => []RepliesAreTrue /\ [][DecidedForGood]_(Atomic!vars)
<1>1. Atomic!Init => RepliesAreTrue BY DEF Atomic!Init, RepliesAreTrue, Refusals
<1>2. RepliesAreTrue /\ [Atomic!Next]_(Atomic!vars) => RepliesAreTrue'
  BY DEF RepliesAreTrue, Refusals, Atomic!Next, Atomic!Begin, Atomic!Commit, Atomic!Return,
         Atomic!Crash, Atomic!Recover, Atomic!vars
<1>3. [Atomic!Next]_(Atomic!vars) => [DecidedForGood]_(Atomic!vars)
  BY DEF DecidedForGood, Atomic!Next, Atomic!Begin, Atomic!Commit, Atomic!Return,
         Atomic!Crash, Atomic!Recover, Atomic!vars
<1> QED BY <1>1, <1>2, <1>3, PTL DEF Atomic!Spec

\* Whatever crashes, fails or is edited beside one file that is left alone: an answer
\* about the tree stays true, and what a crash found is settled one way for ever.
THEOREM OutcomeIsFinal ==
    Spec /\ []LeftAlone => []RepliesAreTrue /\ [][DecidedForGood]_vars
<1>1. [DecidedForGood]_(Atomic!vars) => [DecidedForGood]_vars
  BY DEF DecidedForGood, Atomic!vars
<1> QED BY <1>1, ApplyIsAtomic, AtomicPromises, PTL
=============================================================================
