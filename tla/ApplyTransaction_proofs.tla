------------------------ MODULE ApplyTransaction_proofs -----------------------
(***************************************************************************)
(* Proofs about ApplyTransaction, for any number of files, any kinds, any  *)
(* set of covered files and any number of edits, failures and crashes.     *)
(***************************************************************************)
EXTENDS ApplyTransaction, TLAPS

USE DEF Absent, Content

-----------------------------------------------------------------------------
(* The inductive invariant.                                                *)

Staging == {"copy", "hash", "patch", "revalidate", "prepare"}
Copying == {"openTemp", "fillTemp", "beginPublish"}
Publishing == {"verifyPre", "setAside", "install", "putBack", "sync", "mark",
               "commit"}
RollingBack == {"inspect", "discard", "restore", "syncBack"}

\* Which phases, modes and outcomes each step can meet.
ControlInv ==
    /\ tx \/ (phase = "none" /\ pc \in {"idle", "load", "down"} \cup Resting)
    /\ pc = "idle" => phase = "none" /\ mode = "apply" /\ outcome = "none"
    /\ pc \in ApplySteps => mode = "apply"
    /\ pc \in RecoverySteps => mode # "apply"
    /\ pc \in Staging => phase = "none"
    /\ pc \in Copying => phase = "prepared"
    /\ pc \in Publishing \cup RollingBack => phase = "publishing"
    /\ pc \in {"syncRoot", "verifyPost"} => phase = "committed"
    /\ pc \in {"cleanTemp", "cleanBackup", "removeJournal"} => phase # "none"
    /\ pc \in CleanupSteps \ {"removeDir"} /\ mode = "apply" => phase = "committed"
    /\ pc = "removeDir" => phase = "none"
    /\ outcome = "ok" => pc = "done" /\ mode = "apply"
    /\ pc \in {"setAside", "install", "putBack"} /\ Kind[cur] = "add" => pc = "install"
    /\ pc \in {"install", "putBack"} => Kind[cur] # "delete"
    /\ pc = "restore" => Kind[cur] # "add"
    /\ pc = "discard" => Kind[cur] # "delete"
    /\ pc \in {"hash"} => Kind[cur] # "add"
    /\ pc = "fillTemp" => Kind[cur] # "delete"
    /\ pc \in {"idle", "patch", "revalidate", "prepare", "beginPublish"} => cur = 1

\* Temporaries and backups live in the repository only under a journal.
LitterInv ==
    /\ phase = "none" => tmp = Nothing
    /\ phase \in {"none", "prepared"} => bak = Nothing
    /\ pc \in {"cleanTemp", "cleanBackup"} =>
           \A j \in Files : j < cur => tmp[j] = Absent /\ bak[j] = Absent
    /\ pc = "cleanBackup" => tmp[cur] = Absent
    /\ pc = "removeJournal" => tmp = Nothing /\ bak = Nothing

\* The three forms of an untouched file between the first rename of
\* publication and the last one of rollback.
Unpublished(i) == target[i] = PreImage(i) /\ bak[i] = Absent
Aside(i) == target[i] = Absent /\ bak[i] = "pre" /\ Kind[i] # "add"
Published(i) ==
    target[i] = PostImage(i) /\ bak[i] = IF Kind[i] = "add" THEN Absent ELSE "pre"
Ready(i) == Kind[i] = "delete" \/ tmp[i] = PostImage(i)

\* What staging and the journal know about an untouched file.
HashInv(i) ==
    /\ phase # "none" => staged[i] = PostImage(i) /\ pre[i] = PreImage(i)
    /\ pc = "prepare" => staged[i] = PostImage(i) /\ pre[i] = PreImage(i)
    /\ pc = "revalidate" => staged[i] = PostImage(i) /\ pre[i] = PreImage(i)
    /\ pc = "patch" => staged[i] = PreImage(i) /\ pre[i] = PreImage(i)
    /\ pc \in {"copy", "hash"} =>
         IF i < cur THEN staged[i] = PreImage(i) /\ pre[i] = PreImage(i)
         ELSE /\ pre[i] = Absent
              /\ staged[i] = IF i = cur /\ pc = "hash" THEN "pre" ELSE Absent
    /\ pc = "idle" => staged[i] = Absent /\ pre[i] = Absent

\* Where an untouched file is, step by step.
FileInv(i) ==
    /\ pc \in {"idle"} \cup Staging => Unpublished(i)
    /\ phase = "prepared" => Unpublished(i)
    /\ phase = "committed" => target[i] = PostImage(i)
    /\ phase = "publishing" => Unpublished(i) \/ Aside(i) \/ Published(i)
    /\ pc \in {"openTemp", "fillTemp"} /\ i < cur => Ready(i)
    /\ pc \in {"openTemp", "fillTemp"} /\ ~(i < cur) =>
           tmp[i] = IF i = cur /\ pc = "fillTemp" THEN "torn" ELSE Absent
    /\ pc = "beginPublish" => Ready(i)
    /\ pc \in Publishing \ {"commit"} =>
         /\ i < cur => Published(i)
         /\ i > cur => Unpublished(i) /\ Ready(i)
         /\ i = cur =>
              /\ pc \in {"verifyPre", "setAside"} => Unpublished(i) /\ Ready(i)
              /\ pc = "install" =>
                   IF Kind[i] = "add" THEN Unpublished(i) /\ Ready(i)
                   ELSE Aside(i) /\ Ready(i)
              /\ pc = "putBack" => Aside(i)
              /\ pc \in {"sync", "mark"} => Published(i)
    /\ pc = "commit" => Published(i)
    /\ pc \in RollingBack =>
         /\ i > cur => Unpublished(i)
         /\ i = cur =>
              /\ pc = "discard" => Published(i)
              /\ pc = "restore" => Aside(i)
              /\ pc = "syncBack" => Unpublished(i)
    /\ pc \in CleanupSteps /\ phase = "publishing" => Unpublished(i)

\* Once no journal is left the untouched files agree, and a success means post.
SettledInv ==
    /\ phase = "none" => AllPre \/ AllPost
    /\ pc = "removeDir" /\ mode = "apply" => AllPost
    /\ outcome = "ok" => AllPost

IInv ==
    /\ TypeOK
    /\ ControlInv
    /\ LitterInv
    /\ \A i \in Untouched : HashInv(i) /\ FileInv(i)
    /\ SettledInv

-----------------------------------------------------------------------------
(* Type correctness.                                                       *)

\* The sites of write_journal, with the phase each one writes.
SyncFailures ==
    {<<"prepare", "prepared">>, <<"beginPublish", "publishing">>,
     <<"mark", "publishing">>, <<"commit", "committed">>}

\* What is saved is a content, and equal to a post-image only where there is one.
LEMMA SavesAreContents ==
    \A i \in Files : \A c \in Saves(i) :
        c \in {Absent, "pre", "post", "user"} /\ (c = "post" => Kind[i] # "delete")
BY DEF Saves, PreImage, PostImage

LEMMA InitTypeOK == Init => TypeOK
<1> SUFFICES ASSUME Init PROVE TypeOK OBVIOUS
<1> USE NAssumption, KindAssumption DEF Init
<1>1. 1 \in Files BY DEF Files
<1>2. target \in [Files -> Content] BY DEF PreImage
<1>3. Nothing \in [Files -> Content] BY DEF Nothing
<1>4. user \in [Files -> {"none", "raced"} \cup Content] OBVIOUS
<1>5. budget \in [{"edits", "faults", "crashes"} -> Nat] OBVIOUS
<1> QED BY <1>1, <1>2, <1>3, <1>4, <1>5 DEF TypeOK, PCs, Outcomes

LEMMA StepTypeOK == TypeOK /\ [Next]_vars => TypeOK'
<1> USE NAssumption, KindAssumption DEF Files, Kinds
<1> SUFFICES ASSUME TypeOK, [Next]_vars PROVE TypeOK' OBVIOUS
<1>0. 1 \in 1..N OBVIOUS
<1> USE <1>0
<1> USE DEF TypeOK, PCs, Outcomes, ApplySteps, CleanupSteps, RecoverySteps,
            Resting, repository, journal, Goto, Advance, Fail
<1>1. CASE Refuse BY <1>1 DEF Refuse, RefuseWith
<1>2. CASE Begin BY <1>2 DEF Begin
<1>3. CASE CopySource BY <1>3 DEF CopySource
<1>4. CASE HashSource BY <1>4 DEF HashSource
<1>5. CASE StagePatch BY <1>5 DEF StagePatch, Patched
<1>6. CASE Revalidate BY <1>6 DEF Revalidate
<1>7. CASE WritePrepared BY <1>7 DEF WritePrepared, WriteJournal
<1>8. CASE OpenTemp BY <1>8 DEF OpenTemp
<1>9. CASE FillTemp BY <1>9 DEF FillTemp
<1>10. CASE WritePublishing BY <1>10 DEF WritePublishing, WriteJournal
<1>11. CASE VerifyPre BY <1>11 DEF VerifyPre
<1>12. CASE SetAside BY <1>12 DEF SetAside
<1>13. CASE Install
  <2>1. CASE tmp[cur] # Absent
    <3>1. /\ target' = [target EXCEPT ![cur] = tmp[cur]]
          /\ tmp' = [tmp EXCEPT ![cur] = Absent]
      BY <1>13, <2>1 DEF Install
    <3>2. target' \in [Files -> Content] /\ tmp' \in [Files -> Content]
      BY <3>1 DEF TypeOK
    <3> QED BY <1>13, <2>1, <3>2 DEF Install
  <2>2. CASE tmp[cur] = Absent BY <1>13, <2>2 DEF Install, InstallFails
  <2> QED BY <2>1, <2>2
<1>14. CASE PutBack BY <1>14 DEF PutBack, MoveBack
<1>15. CASE SyncEntry BY <1>15 DEF SyncEntry
<1>16. CASE MarkPublished BY <1>16 DEF MarkPublished, WriteJournal
<1>17. CASE WriteCommitted BY <1>17 DEF WriteCommitted, WriteJournal
<1>18. CASE SyncRoot BY <1>18 DEF SyncRoot
<1>19. CASE CleanTemp BY <1>19 DEF CleanTemp
<1>20. CASE CleanBackup BY <1>20 DEF CleanBackup
<1>21. CASE RemoveJournal BY <1>21 DEF RemoveJournal
<1>22. CASE RemoveDir BY <1>22 DEF RemoveDir, Finish, Resolved
<1>23. CASE Load BY <1>23 DEF Load, Resolved
<1>24. CASE VerifyPost BY <1>24 DEF VerifyPost
<1>25. CASE Inspect BY <1>25 DEF Inspect
<1>26. CASE Discard BY <1>26 DEF Discard
<1>27. CASE Restore
  <2>1. CASE bak[cur] # Absent
    <3>1. /\ target' = [target EXCEPT ![cur] = bak[cur]]
          /\ bak' = [bak EXCEPT ![cur] = Absent]
      BY <1>27, <2>1 DEF Restore, MoveBack
    <3>2. target' \in [Files -> Content] /\ bak' \in [Files -> Content]
      BY <3>1 DEF TypeOK
    <3> QED BY <1>27, <2>1, <3>2 DEF Restore, MoveBack
  <2>2. CASE bak[cur] = Absent BY <1>27, <2>2 DEF Restore, MoveBack
  <2> QED BY <2>1, <2>2
<1>28. CASE SyncBack BY <1>28 DEF SyncBack
<1>29. ASSUME NEW i \in Files, NEW c \in Saves(i), Edit(i, c) PROVE TypeOK'
  BY <1>29, SavesAreContents DEF Edit
<1>30. CASE IoFailure BY <1>30 DEF IoFailure, ErrorAt, InstallFails
<1>31. ASSUME NEW p, NEW written, JournalSyncFailure(p, written),
              <<p, written>> \in SyncFailures
       PROVE TypeOK'
  BY <1>31 DEF JournalSyncFailure, SyncFailures
<1>32. CASE Crash BY <1>32 DEF Crash
<1>33. CASE Restart BY <1>33 DEF Restart
<1>34. CASE UNCHANGED vars BY <1>34 DEF vars
<1> QED
  BY <1>1, <1>2, <1>3, <1>4, <1>5, <1>6, <1>7, <1>8, <1>9, <1>10, <1>11, <1>12,
     <1>13, <1>14, <1>15, <1>16, <1>17, <1>18, <1>19, <1>20, <1>21, <1>22, <1>23,
     <1>24, <1>25, <1>26, <1>27, <1>28, <1>29, <1>30, <1>31, <1>32, <1>33, <1>34
     DEF Next, Daemon, Publish, Cleanup, Recover, Environment, Rest, SyncFailures

\* Every state of the engine is well typed.
THEOREM TypeCorrect == Spec => []TypeOK
BY InitTypeOK, StepTypeOK, PTL DEF Spec

-----------------------------------------------------------------------------
(* Control.                                                                *)

\* No failing operation makes apply return success.
LEMMA ErrorIsNotOk == \A p : ErrorAt(p) # "ok"
BY DEF ErrorAt

LEMMA InitControlInv == Init => ControlInv
BY DEF Init, ControlInv, Staging, Copying, Publishing, RollingBack, ApplySteps,
       CleanupSteps, RecoverySteps, Resting

LEMMA StepControlInv == TypeOK /\ ControlInv /\ [Next]_vars => ControlInv'
<1> SUFFICES ASSUME TypeOK /\ ControlInv, [Next]_vars PROVE ControlInv'
  OBVIOUS
<1> USE DEF ControlInv, TypeOK, Files, Staging, Copying, Publishing, RollingBack, ApplySteps,
            CleanupSteps, RecoverySteps, Resting, repository, journal,
            Goto, Advance, Fail
<1>1. CASE Refuse BY <1>1 DEF Refuse, RefuseWith
<1>2. CASE Begin BY <1>2 DEF Begin
<1>3. CASE CopySource BY <1>3 DEF CopySource
<1>4. CASE HashSource BY <1>4 DEF HashSource
<1>5. CASE StagePatch BY <1>5 DEF StagePatch
<1>6. CASE Revalidate BY <1>6 DEF Revalidate
<1>7. CASE WritePrepared BY <1>7 DEF WritePrepared, WriteJournal
<1>8. CASE OpenTemp BY <1>8 DEF OpenTemp
<1>9. CASE FillTemp BY <1>9 DEF FillTemp
<1>10. CASE WritePublishing BY <1>10 DEF WritePublishing, WriteJournal
<1>11. CASE VerifyPre BY <1>11 DEF VerifyPre
<1>12. CASE SetAside BY <1>12 DEF SetAside
<1>13. CASE Install BY <1>13 DEF Install, InstallFails
<1>14. CASE PutBack BY <1>14 DEF PutBack, MoveBack
<1>15. CASE SyncEntry BY <1>15 DEF SyncEntry
<1>16. CASE MarkPublished BY <1>16 DEF MarkPublished, WriteJournal
<1>17. CASE WriteCommitted BY <1>17 DEF WriteCommitted, WriteJournal
<1>18. CASE SyncRoot BY <1>18 DEF SyncRoot
<1>19. CASE CleanTemp BY <1>19 DEF CleanTemp
<1>20. CASE CleanBackup BY <1>20 DEF CleanBackup
<1>21. CASE RemoveJournal BY <1>21 DEF RemoveJournal
<1>22. CASE RemoveDir BY <1>22 DEF RemoveDir, Finish, Resolved
<1>23. CASE Load BY <1>23 DEF Load, Resolved
<1>24. CASE VerifyPost BY <1>24 DEF VerifyPost
<1>25. CASE Inspect BY <1>25 DEF Inspect
<1>26. CASE Discard BY <1>26 DEF Discard
<1>27. CASE Restore BY <1>27 DEF Restore, MoveBack
<1>28. CASE SyncBack BY <1>28 DEF SyncBack
<1>29. ASSUME NEW i \in Files, NEW c \in Saves(i), Edit(i, c)
       PROVE ControlInv'
  BY <1>29, SavesAreContents DEF Edit
<1>30. CASE IoFailure
  BY <1>30, ErrorIsNotOk DEF IoFailure, InstallFails
<1>31. ASSUME NEW p, NEW written, JournalSyncFailure(p, written),
              <<p, written>> \in SyncFailures
       PROVE ControlInv'
  <2>1. \/ p = "prepare" /\ written = "prepared"
        \/ p = "beginPublish" /\ written = "publishing"
        \/ p = "mark" /\ written = "publishing"
        \/ p = "commit" /\ written = "committed"
    BY <1>31 DEF SyncFailures
  <2> QED BY <1>31, <2>1 DEF JournalSyncFailure
<1>32. CASE Crash
  BY <1>32 DEF Crash
<1>33. CASE Restart
  BY <1>33 DEF Restart
<1>34. CASE UNCHANGED vars
  BY <1>34 DEF vars
<1> QED
  BY <1>1, <1>2, <1>3, <1>4, <1>5, <1>6, <1>7, <1>8, <1>9, <1>10, <1>11,
     <1>12, <1>13, <1>14, <1>15, <1>16, <1>17, <1>18, <1>19, <1>20, <1>21,
     <1>22, <1>23, <1>24, <1>25, <1>26, <1>27, <1>28, <1>29, <1>30, <1>31,
     <1>32, <1>33, <1>34
     DEF Next, Daemon, Publish, Cleanup, Recover, Environment, Rest, SyncFailures

-----------------------------------------------------------------------------
(* Temporaries and backups.                                                *)

LEMMA AllAbsent ==
    ASSUME NEW f \in [Files -> Content], \A i \in Files : f[i] = Absent
    PROVE  f = Nothing
BY DEF Nothing

LEMMA InitLitterInv == Init => LitterInv
BY DEF Init, LitterInv

LEMMA StepLitterInv == TypeOK /\ ControlInv /\ LitterInv /\ [Next]_vars => LitterInv'
<1> SUFFICES ASSUME TypeOK /\ ControlInv /\ LitterInv, [Next]_vars PROVE LitterInv'
  OBVIOUS
<1> USE NAssumption
        DEF ControlInv, LitterInv, TypeOK, Files, Staging, Copying, Publishing,
            RollingBack, ApplySteps, CleanupSteps, RecoverySteps, Resting,
            repository, journal, Goto, Advance, Fail
<1>1. CASE Refuse BY <1>1 DEF Refuse, RefuseWith
<1>2. CASE Begin BY <1>2 DEF Begin
<1>3. CASE CopySource BY <1>3 DEF CopySource
<1>4. CASE HashSource BY <1>4 DEF HashSource
<1>5. CASE StagePatch BY <1>5 DEF StagePatch
<1>6. CASE Revalidate BY <1>6 DEF Revalidate
<1>7. CASE WritePrepared BY <1>7 DEF WritePrepared, WriteJournal
<1>8. CASE OpenTemp BY <1>8 DEF OpenTemp
<1>9. CASE FillTemp BY <1>9 DEF FillTemp
<1>10. CASE WritePublishing BY <1>10 DEF WritePublishing, WriteJournal
<1>11. CASE VerifyPre BY <1>11 DEF VerifyPre
<1>12. CASE SetAside BY <1>12 DEF SetAside
<1>13. CASE Install BY <1>13 DEF Install, InstallFails
<1>14. CASE PutBack BY <1>14 DEF PutBack, MoveBack
<1>15. CASE SyncEntry BY <1>15 DEF SyncEntry
<1>16. CASE MarkPublished BY <1>16 DEF MarkPublished, WriteJournal
<1>17. CASE WriteCommitted BY <1>17 DEF WriteCommitted, WriteJournal
<1>18. CASE SyncRoot BY <1>18 DEF SyncRoot
<1>19. CASE CleanTemp BY <1>19 DEF CleanTemp
<1>20. CASE CleanBackup
  <2>1. \A j \in Files : j <= cur => tmp'[j] = Absent /\ bak'[j] = Absent
    BY <1>20 DEF CleanBackup
  <2>2. phase \in {"none", "prepared"} => bak' = Nothing
    BY <1>20 DEF CleanBackup, Nothing
  <2>3. ASSUME cur = N PROVE tmp' = Nothing /\ bak' = Nothing
    <3>1. \A j \in Files : j <= cur BY <2>3
    <3>2. tmp' \in [Files -> Content] /\ bak' \in [Files -> Content]
      BY <1>20 DEF CleanBackup
    <3> HIDE DEF Files, Content
    <3> QED BY <2>1, <3>1, <3>2, AllAbsent
  <2> QED BY <1>20, <2>1, <2>2, <2>3 DEF CleanBackup
<1>21. CASE RemoveJournal BY <1>21 DEF RemoveJournal
<1>22. CASE RemoveDir BY <1>22 DEF RemoveDir, Finish, Resolved
<1>23. CASE Load BY <1>23 DEF Load, Resolved
<1>24. CASE VerifyPost BY <1>24 DEF VerifyPost
<1>25. CASE Inspect BY <1>25 DEF Inspect
<1>26. CASE Discard BY <1>26 DEF Discard
<1>27. CASE Restore BY <1>27 DEF Restore, MoveBack
<1>28. CASE SyncBack BY <1>28 DEF SyncBack
<1>29. ASSUME NEW i \in Files, NEW c \in Saves(i), Edit(i, c)
       PROVE LitterInv'
  BY <1>29, SavesAreContents DEF Edit
<1>30. CASE IoFailure
  BY <1>30 DEF IoFailure, InstallFails
<1>31. ASSUME NEW p, NEW written, JournalSyncFailure(p, written),
              <<p, written>> \in SyncFailures
       PROVE LitterInv'
  <2>1. \/ p = "prepare" /\ written = "prepared"
        \/ p = "beginPublish" /\ written = "publishing"
        \/ p = "mark" /\ written = "publishing"
        \/ p = "commit" /\ written = "committed"
    BY <1>31 DEF SyncFailures
  <2> QED BY <1>31, <2>1 DEF JournalSyncFailure
<1>32. CASE Crash
  BY <1>32 DEF Crash
<1>33. CASE Restart
  BY <1>33 DEF Restart
<1>34. CASE UNCHANGED vars
  BY <1>34 DEF vars
<1> QED
  BY <1>1, <1>2, <1>3, <1>4, <1>5, <1>6, <1>7, <1>8, <1>9, <1>10, <1>11,
     <1>12, <1>13, <1>14, <1>15, <1>16, <1>17, <1>18, <1>19, <1>20, <1>21,
     <1>22, <1>23, <1>24, <1>25, <1>26, <1>27, <1>28, <1>29, <1>30, <1>31,
     <1>32, <1>33, <1>34
     DEF Next, Daemon, Publish, Cleanup, Recover, Environment, Rest, SyncFailures

-----------------------------------------------------------------------------
(* Untouched files.                                                        *)

\* Only an edit changes `user`, and it never makes a file untouched again.
LEMMA UntouchedShrinks ==
    ASSUME TypeOK, [Next]_vars, NEW i \in Files, user'[i] = "none"
    PROVE  user[i] = "none"
<1> USE DEF TypeOK
<1>1. CASE Refuse BY <1>1 DEF Refuse, RefuseWith
<1>2. CASE Begin BY <1>2 DEF Begin
<1>3. CASE CopySource BY <1>3 DEF CopySource
<1>4. CASE HashSource BY <1>4 DEF HashSource
<1>5. CASE StagePatch BY <1>5 DEF StagePatch
<1>6. CASE Revalidate BY <1>6 DEF Revalidate
<1>7. CASE WritePrepared BY <1>7 DEF WritePrepared, WriteJournal
<1>8. CASE OpenTemp BY <1>8 DEF OpenTemp
<1>9. CASE FillTemp BY <1>9 DEF FillTemp
<1>10. CASE WritePublishing BY <1>10 DEF WritePublishing, WriteJournal
<1>11. CASE VerifyPre BY <1>11 DEF VerifyPre
<1>12. CASE SetAside BY <1>12 DEF SetAside
<1>13. CASE Install BY <1>13 DEF Install, InstallFails
<1>14. CASE PutBack BY <1>14 DEF PutBack, MoveBack
<1>15. CASE SyncEntry BY <1>15 DEF SyncEntry
<1>16. CASE MarkPublished BY <1>16 DEF MarkPublished, WriteJournal
<1>17. CASE WriteCommitted BY <1>17 DEF WriteCommitted, WriteJournal
<1>18. CASE SyncRoot BY <1>18 DEF SyncRoot
<1>19. CASE CleanTemp BY <1>19 DEF CleanTemp
<1>20. CASE CleanBackup BY <1>20 DEF CleanBackup
<1>21. CASE RemoveJournal BY <1>21 DEF RemoveJournal
<1>22. CASE RemoveDir BY <1>22 DEF RemoveDir, Finish, Resolved
<1>23. CASE Load BY <1>23 DEF Load, Resolved
<1>24. CASE VerifyPost BY <1>24 DEF VerifyPost
<1>25. CASE Inspect BY <1>25 DEF Inspect
<1>26. CASE Discard BY <1>26 DEF Discard
<1>27. CASE Restore BY <1>27 DEF Restore, MoveBack
<1>28. CASE SyncBack BY <1>28 DEF SyncBack
<1>29. ASSUME NEW j \in Files, NEW c \in Saves(j), Edit(j, c)
       PROVE user[i] = "none"
  BY <1>29, SavesAreContents DEF Edit
<1>30. CASE IoFailure
  BY <1>30 DEF IoFailure, InstallFails
<1>31. ASSUME NEW p, NEW written, JournalSyncFailure(p, written),
              <<p, written>> \in SyncFailures
       PROVE user[i] = "none"
  BY <1>31 DEF JournalSyncFailure
<1>32. CASE Crash
  BY <1>32 DEF Crash
<1>33. CASE Restart
  BY <1>33 DEF Restart
<1>34. CASE UNCHANGED vars
  BY <1>34 DEF vars
<1> QED
  BY <1>1, <1>2, <1>3, <1>4, <1>5, <1>6, <1>7, <1>8, <1>9, <1>10, <1>11,
     <1>12, <1>13, <1>14, <1>15, <1>16, <1>17, <1>18, <1>19, <1>20, <1>21,
     <1>22, <1>23, <1>24, <1>25, <1>26, <1>27, <1>28, <1>29, <1>30, <1>31,
     <1>32, <1>33, <1>34
     DEF Next, Daemon, Publish, Cleanup, Recover, Environment, Rest, SyncFailures

HashesInv == \A i \in Untouched : HashInv(i)
FilesInv == \A i \in Untouched : FileInv(i)

LEMMA InitHashesInv == Init => HashesInv
BY DEF Init, HashesInv, HashInv, Untouched, Nothing

LEMMA StepHashesInv ==
    TypeOK /\ ControlInv /\ HashesInv /\ FilesInv /\ [Next]_vars => HashesInv'
<1> SUFFICES ASSUME TypeOK, ControlInv, HashesInv, FilesInv, [Next]_vars,
                    NEW i \in Files, user'[i] = "none"
             PROVE  HashInv(i)'
  BY DEF HashesInv, Untouched
<1>a. HashInv(i) /\ FileInv(i)
  BY UntouchedShrinks DEF HashesInv, FilesInv, Untouched
<1>b. Kind[i] \in Kinds /\ N \in Nat BY NAssumption, KindAssumption
<1> HIDE DEF HashesInv, FilesInv
<1> USE <1>a, <1>b
    DEF ControlInv, TypeOK, Files, Kinds, Staging, Copying, Publishing, RollingBack,
        ApplySteps, CleanupSteps, RecoverySteps, Resting, repository, journal,
        Goto, Advance, Fail, HashInv, PreImage, PostImage
<1>1. CASE Refuse BY <1>1 DEF Refuse, RefuseWith
<1>2. CASE Begin BY <1>2 DEF Begin
<1>3. CASE CopySource
  <2>1. Unpublished(i) BY <1>3 DEF CopySource, FileInv
  <2> QED BY <1>3, <2>1 DEF CopySource, Unpublished
<1>4. CASE HashSource
  <2>1. Unpublished(i) BY <1>4 DEF HashSource, FileInv
  <2> QED BY <1>4, <2>1 DEF HashSource, Unpublished
<1>5. CASE StagePatch BY <1>5 DEF StagePatch, Patched
<1>6. CASE Revalidate BY <1>6 DEF Revalidate
<1>7. CASE WritePrepared BY <1>7 DEF WritePrepared, WriteJournal
<1>8. CASE OpenTemp BY <1>8 DEF OpenTemp
<1>9. CASE FillTemp BY <1>9 DEF FillTemp
<1>10. CASE WritePublishing BY <1>10 DEF WritePublishing, WriteJournal
<1>11. CASE VerifyPre BY <1>11 DEF VerifyPre
<1>12. CASE SetAside BY <1>12 DEF SetAside
<1>13. CASE Install BY <1>13 DEF Install, InstallFails
<1>14. CASE PutBack BY <1>14 DEF PutBack, MoveBack
<1>15. CASE SyncEntry BY <1>15 DEF SyncEntry
<1>16. CASE MarkPublished BY <1>16 DEF MarkPublished, WriteJournal
<1>17. CASE WriteCommitted BY <1>17 DEF WriteCommitted, WriteJournal
<1>18. CASE SyncRoot BY <1>18 DEF SyncRoot
<1>19. CASE CleanTemp BY <1>19 DEF CleanTemp
<1>20. CASE CleanBackup BY <1>20 DEF CleanBackup
<1>21. CASE RemoveJournal BY <1>21 DEF RemoveJournal
<1>22. CASE RemoveDir BY <1>22 DEF RemoveDir, Finish, Resolved
<1>23. CASE Load BY <1>23 DEF Load, Resolved
<1>24. CASE VerifyPost BY <1>24 DEF VerifyPost
<1>25. CASE Inspect BY <1>25 DEF Inspect
<1>26. CASE Discard BY <1>26 DEF Discard
<1>27. CASE Restore BY <1>27 DEF Restore, MoveBack
<1>28. CASE SyncBack BY <1>28 DEF SyncBack
<1>29. ASSUME NEW j \in Files, NEW c \in Saves(j), Edit(j, c)
       PROVE HashInv(i)'
  BY <1>29, SavesAreContents DEF Edit
<1>30. CASE IoFailure
  BY <1>30 DEF IoFailure, InstallFails
<1>31. ASSUME NEW p, NEW written, JournalSyncFailure(p, written),
              <<p, written>> \in SyncFailures
       PROVE HashInv(i)'
  <2>1. \/ p = "prepare" /\ written = "prepared"
        \/ p = "beginPublish" /\ written = "publishing"
        \/ p = "mark" /\ written = "publishing"
        \/ p = "commit" /\ written = "committed"
    BY <1>31 DEF SyncFailures
  <2> QED BY <1>31, <2>1 DEF JournalSyncFailure
<1>32. CASE Crash
  BY <1>32 DEF Crash
<1>33. CASE Restart
  BY <1>33 DEF Restart
<1>34. CASE UNCHANGED vars
  BY <1>34 DEF vars
<1> QED
  BY <1>1, <1>2, <1>3, <1>4, <1>5, <1>6, <1>7, <1>8, <1>9, <1>10, <1>11,
     <1>12, <1>13, <1>14, <1>15, <1>16, <1>17, <1>18, <1>19, <1>20, <1>21,
     <1>22, <1>23, <1>24, <1>25, <1>26, <1>27, <1>28, <1>29, <1>30, <1>31,
     <1>32, <1>33, <1>34
     DEF Next, Daemon, Publish, Cleanup, Recover, Environment, Rest, SyncFailures

LEMMA InitFilesInv == Init => FilesInv
BY DEF Init, FilesInv, FileInv, Untouched, Nothing, Unpublished, Staging, Publishing,
       RollingBack, CleanupSteps

LEMMA StepFilesInv ==
    TypeOK /\ ControlInv /\ LitterInv /\ HashesInv /\ FilesInv /\ [Next]_vars
        => FilesInv'
<1> SUFFICES ASSUME TypeOK, ControlInv, LitterInv, HashesInv, FilesInv, [Next]_vars,
                    NEW i \in Files, user'[i] = "none"
             PROVE  FileInv(i)'
  BY DEF FilesInv, Untouched
<1>a. HashInv(i) /\ FileInv(i)
  BY UntouchedShrinks DEF HashesInv, FilesInv, Untouched
<1>b. Kind[i] \in Kinds /\ N \in Nat BY NAssumption, KindAssumption
<1>c. staged[i] = PostImage(i) \/ phase = "none" BY <1>a DEF HashInv
<1> HIDE DEF HashesInv, FilesInv
<1> USE <1>a, <1>b
    DEF ControlInv, TypeOK, Files, Kinds, Staging, Copying, Publishing, RollingBack,
        ApplySteps, CleanupSteps, RecoverySteps, Resting, repository, journal,
        Goto, Advance, Fail, FileInv, Unpublished, Aside, Published, Ready,
        PreImage, PostImage
<1>1. CASE Refuse BY <1>1 DEF Refuse, RefuseWith
<1>2. CASE Begin BY <1>2 DEF Begin
<1>3. CASE CopySource BY <1>3 DEF CopySource
<1>4. CASE HashSource BY <1>4 DEF HashSource
<1>5. CASE StagePatch BY <1>5 DEF StagePatch
<1>6. CASE Revalidate BY <1>6 DEF Revalidate
<1>7. CASE WritePrepared BY <1>7 DEF WritePrepared, WriteJournal, LitterInv, Nothing
<1>8. CASE OpenTemp BY <1>8 DEF OpenTemp
<1>9. CASE FillTemp BY <1>9, <1>c DEF FillTemp
<1>10. CASE WritePublishing BY <1>10 DEF WritePublishing, WriteJournal
<1>11. CASE VerifyPre BY <1>11 DEF VerifyPre
<1>12. CASE SetAside BY <1>12 DEF SetAside
<1>13. CASE Install BY <1>13 DEF Install, InstallFails
<1>14. CASE PutBack BY <1>14 DEF PutBack, MoveBack
<1>15. CASE SyncEntry BY <1>15 DEF SyncEntry
<1>16. CASE MarkPublished BY <1>16 DEF MarkPublished, WriteJournal
<1>17. CASE WriteCommitted BY <1>17 DEF WriteCommitted, WriteJournal
<1>18. CASE SyncRoot BY <1>18 DEF SyncRoot
<1>19. CASE CleanTemp BY <1>19 DEF CleanTemp
<1>20. CASE CleanBackup BY <1>20 DEF CleanBackup
<1>21. CASE RemoveJournal BY <1>21 DEF RemoveJournal
<1>22. CASE RemoveDir BY <1>22 DEF RemoveDir, Finish, Resolved
<1>23. CASE Load BY <1>23 DEF Load, Resolved
<1>24. CASE VerifyPost BY <1>24 DEF VerifyPost
<1>25. CASE Inspect BY <1>25, <1>c DEF Inspect
<1>26. CASE Discard BY <1>26 DEF Discard
<1>27. CASE Restore BY <1>27 DEF Restore, MoveBack
<1>28. CASE SyncBack BY <1>28 DEF SyncBack
<1>29. ASSUME NEW j \in Files, NEW c \in Saves(j), Edit(j, c)
       PROVE FileInv(i)'
  BY <1>29, SavesAreContents DEF Edit
<1>30. CASE IoFailure
  BY <1>30 DEF IoFailure, InstallFails
<1>31. ASSUME NEW p, NEW written, JournalSyncFailure(p, written),
              <<p, written>> \in SyncFailures
       PROVE FileInv(i)'
  <2>1. \/ p = "prepare" /\ written = "prepared"
        \/ p = "beginPublish" /\ written = "publishing"
        \/ p = "mark" /\ written = "publishing"
        \/ p = "commit" /\ written = "committed"
    BY <1>31 DEF SyncFailures
  <2> QED BY <1>31, <2>1 DEF JournalSyncFailure
<1>32. CASE Crash
  BY <1>32 DEF Crash
<1>33. CASE Restart
  BY <1>33 DEF Restart
<1>34. CASE UNCHANGED vars
  BY <1>34 DEF vars
<1> QED
  BY <1>1, <1>2, <1>3, <1>4, <1>5, <1>6, <1>7, <1>8, <1>9, <1>10, <1>11,
     <1>12, <1>13, <1>14, <1>15, <1>16, <1>17, <1>18, <1>19, <1>20, <1>21,
     <1>22, <1>23, <1>24, <1>25, <1>26, <1>27, <1>28, <1>29, <1>30, <1>31,
     <1>32, <1>33, <1>34
     DEF Next, Daemon, Publish, Cleanup, Recover, Environment, Rest, SyncFailures

-----------------------------------------------------------------------------
(* Without a journal the untouched files agree.                            *)

LEMMA InitSettledInv == Init => SettledInv
BY DEF Init, SettledInv, AllPre, Untouched, PreImage

LEMMA StepSettledInv ==
    TypeOK /\ ControlInv /\ FilesInv /\ SettledInv /\ [Next]_vars => SettledInv'
<1> SUFFICES ASSUME TypeOK, ControlInv, FilesInv, SettledInv, [Next]_vars
             PROVE  SettledInv'
  OBVIOUS
<1>a. \A i \in Files : user'[i] = "none" => user[i] = "none"
  BY UntouchedShrinks
<1>b. phase = "prepared" \/ (pc \in CleanupSteps /\ phase = "publishing") => AllPre
  BY DEF FilesInv, FileInv, Unpublished, AllPre, Untouched
<1>c. phase = "committed" => AllPost
  BY DEF FilesInv, FileInv, AllPost, Untouched
<1>d. target' = target /\ (AllPre \/ AllPost) => AllPre' \/ AllPost'
  BY <1>a DEF AllPre, AllPost, Untouched, PreImage, PostImage
<1>e. target' = target /\ AllPost => AllPost'
  BY <1>a DEF AllPost, Untouched, PostImage
<1> HIDE DEF HashesInv, FilesInv
<1> USE <1>b, <1>c, <1>d, <1>e
    DEF ControlInv, TypeOK, Staging, Copying, Publishing, RollingBack,
        ApplySteps, CleanupSteps, RecoverySteps, Resting, repository, journal,
        Goto, Advance, Fail, SettledInv
<1>1. CASE Refuse BY <1>1 DEF Refuse, RefuseWith
<1>2. CASE Begin BY <1>2 DEF Begin
<1>3. CASE CopySource BY <1>3 DEF CopySource
<1>4. CASE HashSource BY <1>4 DEF HashSource
<1>5. CASE StagePatch BY <1>5 DEF StagePatch
<1>6. CASE Revalidate BY <1>6 DEF Revalidate
<1>7. CASE WritePrepared BY <1>7 DEF WritePrepared, WriteJournal
<1>8. CASE OpenTemp BY <1>8 DEF OpenTemp
<1>9. CASE FillTemp BY <1>9 DEF FillTemp
<1>10. CASE WritePublishing BY <1>10 DEF WritePublishing, WriteJournal
<1>11. CASE VerifyPre BY <1>11 DEF VerifyPre
<1>12. CASE SetAside BY <1>12 DEF SetAside
<1>13. CASE Install BY <1>13 DEF Install, InstallFails
<1>14. CASE PutBack BY <1>14 DEF PutBack, MoveBack
<1>15. CASE SyncEntry BY <1>15 DEF SyncEntry
<1>16. CASE MarkPublished BY <1>16 DEF MarkPublished, WriteJournal
<1>17. CASE WriteCommitted BY <1>17 DEF WriteCommitted, WriteJournal
<1>18. CASE SyncRoot BY <1>18 DEF SyncRoot
<1>19. CASE CleanTemp BY <1>19 DEF CleanTemp
<1>20. CASE CleanBackup BY <1>20 DEF CleanBackup
<1>21. CASE RemoveJournal BY <1>21 DEF RemoveJournal
<1>22. CASE RemoveDir BY <1>22 DEF RemoveDir, Finish, Resolved
<1>23. CASE Load BY <1>23 DEF Load, Resolved
<1>24. CASE VerifyPost BY <1>24 DEF VerifyPost
<1>25. CASE Inspect BY <1>25 DEF Inspect
<1>26. CASE Discard BY <1>26 DEF Discard
<1>27. CASE Restore BY <1>27 DEF Restore, MoveBack
<1>28. CASE SyncBack BY <1>28 DEF SyncBack
<1>29. ASSUME NEW j \in Files, NEW c \in Saves(j), Edit(j, c)
       PROVE SettledInv'
  <2>1. \A k \in Files : user'[k] = "none" => target'[k] = target[k]
    BY <1>29, SavesAreContents DEF Edit
  <2>2. (AllPre => AllPre') /\ (AllPost => AllPost')
    BY <1>a, <2>1 DEF AllPre, AllPost, Untouched, PreImage, PostImage
  <2> QED BY <1>29, <2>2 DEF Edit
<1>30. CASE IoFailure
  BY <1>30, ErrorIsNotOk DEF IoFailure, InstallFails
<1>31. ASSUME NEW p, NEW written, JournalSyncFailure(p, written),
              <<p, written>> \in SyncFailures
       PROVE SettledInv'
  <2>1. \/ p = "prepare" /\ written = "prepared"
        \/ p = "beginPublish" /\ written = "publishing"
        \/ p = "mark" /\ written = "publishing"
        \/ p = "commit" /\ written = "committed"
    BY <1>31 DEF SyncFailures
  <2> QED BY <1>31, <2>1 DEF JournalSyncFailure
<1>32. CASE Crash
  BY <1>32 DEF Crash
<1>33. CASE Restart
  BY <1>33 DEF Restart
<1>34. CASE UNCHANGED vars
  BY <1>34 DEF vars
<1> QED
  BY <1>1, <1>2, <1>3, <1>4, <1>5, <1>6, <1>7, <1>8, <1>9, <1>10, <1>11,
     <1>12, <1>13, <1>14, <1>15, <1>16, <1>17, <1>18, <1>19, <1>20, <1>21,
     <1>22, <1>23, <1>24, <1>25, <1>26, <1>27, <1>28, <1>29, <1>30, <1>31,
     <1>32, <1>33, <1>34
     DEF Next, Daemon, Publish, Cleanup, Recover, Environment, Rest, SyncFailures

-----------------------------------------------------------------------------
(* The theorems.                                                           *)

LEMMA InitIInv == Init => IInv
BY InitTypeOK, InitControlInv, InitLitterInv, InitHashesInv, InitFilesInv, InitSettledInv
   DEF IInv, HashesInv, FilesInv

LEMMA StepIInv == IInv /\ [Next]_vars => IInv'
BY StepTypeOK, StepControlInv, StepLitterInv, StepHashesInv, StepFilesInv, StepSettledInv
   DEF IInv, HashesInv, FilesInv

\* The invariant that relates the journal, the temporaries, the backups and the
\* hashes to every file nobody edited, at every operation of publication,
\* rollback and roll-forward.
THEOREM IInvHolds == Spec => []IInv
BY InitIInv, StepIInv, PTL DEF Spec

\* A successful Apply has published every file nobody else touched.
THEOREM SuccessIsComplete == Spec => []NoMixedSuccess
<1>1. IInv => NoMixedSuccess BY DEF IInv, SettledInv, NoMixedSuccess
<1> QED BY <1>1, IInvHolds, PTL

\* Wherever the engine comes to rest without its transaction directory, the
\* files nobody touched agree and no temporary or backup is left.
THEOREM RecoveryConverges == Spec => []Converged
<1>1. IInv => Converged
  BY DEF IInv, SettledInv, ControlInv, LitterInv, Converged
<1> QED BY <1>1, IInvHolds, PTL
-----------------------------------------------------------------------------
(* Termination: Work, a natural number, falls with every operation.        *)

LEMMA Bounds ==
    ASSUME TypeOK
    PROVE  N \in Nat /\ cur \in 1..N /\ Rollback \in Nat
BY NAssumption DEF TypeOK, Files, Rollback

LEMMA SomethingRemains ==
    ASSUME TypeOK, Working
    PROVE  Remaining \in Nat /\ Remaining > 0
BY Bounds DEF Remaining, After, Rounds, Clean, Rollback, Working, ApplySteps,
              CleanupSteps, RecoverySteps

LEMMA WorkIsNatural ==
    ASSUME TypeOK
    PROVE  /\ Work \in Nat
           /\ Working => Work > 0
           /\ ~Working => Work = 0
BY Bounds, SomethingRemains DEF Work

\* A rest has nothing left to do.
LEMMA RestHasNoWork ==
    /\ pc \in Resting \cup {"idle", "down"} => Work = 0
    /\ pc' \in Resting \cup {"idle", "down"} => Work' = 0
BY DEF Work, Working, Resting, ApplySteps, CleanupSteps, RecoverySteps

\* An error ends a recovery, and leaves an Apply with its unwinding at most.
LEMMA FailLeavesLess ==
    ASSUME TypeOK, Working, NEW e, Fail(e)
    PROVE  Work' \in 0..(Work - 1)
<1>1. Remaining \in Nat /\ Remaining > 0 BY SomethingRemains
<1>2. Rollback \in Nat /\ Work \in Nat BY Bounds, WorkIsNatural
<1>3. CASE mode = "apply"
  <2>1. Work = Remaining + Rollback BY <1>3 DEF Work
  <2>2. pc' = "load" /\ mode' = "unwind" BY <1>3 DEF Fail
  <2>3. Work' = Rollback
    BY <1>2, <2>2 DEF Work, Working, RecoverySteps, Remaining, After, Rounds, Rollback
  <2> QED BY <1>1, <1>2, <2>1, <2>3
<1>4. CASE mode # "apply"
  <2>1. Work = Remaining BY <1>4 DEF Work
  <2>2. pc' \in {"done", "blocked"} BY <1>4 DEF Fail
  <2>3. Work' = 0 BY <2>2, RestHasNoWork DEF Resting
  <2> QED BY <1>1, <2>1, <2>3
<1> QED BY <1>3, <1>4

\* An operation that keeps the mode has only to come nearer in its own course.
LEMMA NearerIsLess ==
    ASSUME TypeOK, Working, Working', mode' = mode,
           Remaining' \in 0..(Remaining - 1)
    PROVE  Work' \in 0..(Work - 1)
BY Bounds, SomethingRemains DEF Work, Rollback

LEMMA DaemonWorks == Daemon => Working
BY DEF Daemon, Publish, Cleanup, Recover, CopySource, HashSource, StagePatch,
       Revalidate, WritePrepared, OpenTemp, FillTemp, WritePublishing, VerifyPre,
       SetAside, Install, PutBack, SyncEntry, MarkPublished, WriteCommitted,
       SyncRoot, CleanTemp, CleanBackup, RemoveJournal, RemoveDir, Load,
       VerifyPost, Inspect, Discard, Restore, SyncBack, Working, ApplySteps,
       CleanupSteps, RecoverySteps

\* Every operation of the daemon leaves less to do: it fails, it ends the run,
\* or it comes nearer.
LEMMA DaemonLeavesLess ==
    ASSUME TypeOK, Daemon
    PROVE  Work' \in 0..(Work - 1)
<1>w. Working BY DaemonWorks
<1>b. N \in Nat /\ cur \in 1..N BY Bounds
<1>e. ASSUME NEW e, Fail(e) PROVE Work' \in 0..(Work - 1)
  BY <1>w, <1>e, FailLeavesLess
<1>r. ASSUME pc' \in Resting PROVE Work' \in 0..(Work - 1)
  BY <1>r, <1>w, RestHasNoWork, WorkIsNatural
<1>n. ASSUME Working', mode' = mode, Remaining' \in 0..(Remaining - 1)
      PROVE  Work' \in 0..(Work - 1)
  BY <1>n, <1>w, NearerIsLess
<1> DEFINE Nearer ==
      Working' /\ mode' = mode /\ Remaining' \in 0..(Remaining - 1)
<1> USE DEF Goto, Advance, Remaining, After, Rounds, Clean, Rollback, Working,
            ApplySteps, CleanupSteps, RecoverySteps
<1>1. CASE CopySource
  <2>1. Nearer \/ (\E e : Fail(e))
    BY <1>1, <1>b DEF CopySource
  <2> QED BY <2>1, <1>n, <1>e
<1>2. CASE HashSource
  <2>1. Nearer \/ (\E e : Fail(e))
    BY <1>2, <1>b DEF HashSource
  <2> QED BY <2>1, <1>n, <1>e
<1>3. CASE StagePatch
  <2>1. Nearer \/ (\E e : Fail(e))
    BY <1>3, <1>b DEF StagePatch
  <2> QED BY <2>1, <1>n, <1>e
<1>4. CASE Revalidate
  <2>1. Nearer \/ (\E e : Fail(e))
    BY <1>4, <1>b DEF Revalidate
  <2> QED BY <2>1, <1>n, <1>e
<1>5. CASE WritePrepared
  <2>1. Nearer \/ (\E e : Fail(e))
    BY <1>5, <1>b DEF WritePrepared
  <2> QED BY <2>1, <1>n, <1>e
<1>6. CASE OpenTemp
  <2>1. Nearer \/ (\E e : Fail(e))
    BY <1>6, <1>b DEF OpenTemp
  <2> QED BY <2>1, <1>n, <1>e
<1>7. CASE FillTemp
  <2>1. Nearer \/ (\E e : Fail(e))
    BY <1>7, <1>b DEF FillTemp
  <2> QED BY <2>1, <1>n, <1>e
<1>8. CASE WritePublishing
  <2>1. Nearer \/ (\E e : Fail(e))
    BY <1>8, <1>b DEF WritePublishing
  <2> QED BY <2>1, <1>n, <1>e
<1>9. CASE VerifyPre
  <2>1. Nearer \/ (\E e : Fail(e))
    BY <1>9, <1>b DEF VerifyPre
  <2> QED BY <2>1, <1>n, <1>e
<1>10. CASE SetAside
  <2>1. Nearer \/ (\E e : Fail(e))
    BY <1>10, <1>b DEF SetAside
  <2> QED BY <2>1, <1>n, <1>e
<1>11. CASE Install
  <2>1. Nearer \/ (\E e : Fail(e))
    BY <1>11, <1>b DEF Install, InstallFails
  <2> QED BY <2>1, <1>n, <1>e
<1>12. CASE PutBack BY <1>12, <1>e DEF PutBack
<1>13. CASE SyncEntry
  <2>1. Nearer BY <1>13, <1>b DEF SyncEntry
  <2> QED BY <2>1, <1>n
<1>14. CASE MarkPublished
  <2>1. Nearer \/ (\E e : Fail(e))
    BY <1>14, <1>b DEF MarkPublished
  <2> QED BY <2>1, <1>n, <1>e
<1>15. CASE WriteCommitted
  <2>1. Nearer \/ (\E e : Fail(e))
    BY <1>15, <1>b DEF WriteCommitted
  <2> QED BY <2>1, <1>n, <1>e
<1>16. CASE SyncRoot
  <2>1. Nearer BY <1>16, <1>b DEF SyncRoot
  <2> QED BY <2>1, <1>n
<1>17. CASE CleanTemp
  <2>1. Nearer BY <1>17, <1>b DEF CleanTemp
  <2> QED BY <2>1, <1>n
<1>18. CASE CleanBackup
  <2>1. Nearer BY <1>18, <1>b DEF CleanBackup
  <2> QED BY <2>1, <1>n
<1>19. CASE RemoveJournal
  <2>1. Nearer \/ (\E e : Fail(e))
    BY <1>19, <1>b DEF RemoveJournal
  <2> QED BY <2>1, <1>n, <1>e
<1>20. CASE RemoveDir
  <2>1. Nearer \/ (\E e : Fail(e)) \/ pc' \in Resting
    BY <1>20, <1>b DEF RemoveDir, Finish, Resolved, Resting
  <2> QED BY <2>1, <1>n, <1>e, <1>r
<1>21. CASE Load
  <2>1. Nearer \/ pc' \in Resting
    BY <1>21, <1>b DEF Load, Resolved, Resting
  <2> QED BY <2>1, <1>n, <1>r
<1>22. CASE VerifyPost
  <2>1. Nearer \/ (\E e : Fail(e))
    BY <1>22, <1>b DEF VerifyPost
  <2> QED BY <2>1, <1>n, <1>e
<1>23. CASE Inspect
  <2>1. Nearer \/ (\E e : Fail(e))
    BY <1>23, <1>b DEF Inspect
  <2> QED BY <2>1, <1>n, <1>e
<1>24. CASE Discard
  <2>1. Nearer \/ (\E e : Fail(e))
    BY <1>24, <1>b DEF Discard
  <2> QED BY <2>1, <1>n, <1>e
<1>25. CASE Restore
  <2>1. Nearer \/ (\E e : Fail(e))
    BY <1>25, <1>b DEF Restore
  <2> QED BY <2>1, <1>n, <1>e
<1>26. CASE SyncBack
  <2>1. Nearer BY <1>26, <1>b DEF SyncBack
  <2> QED BY <2>1, <1>n
<1> QED
  BY <1>1, <1>2, <1>3, <1>4, <1>5, <1>6, <1>7, <1>8, <1>9, <1>10, <1>11, <1>12,
     <1>13, <1>14, <1>15, <1>16, <1>17, <1>18, <1>19, <1>20, <1>21, <1>22, <1>23, <1>24,
     <1>25, <1>26
     DEF Daemon, Publish, Cleanup, Recover

\* Any other step that moves the control is an operation that fails without
\* effect, or the death of the daemon.
LEMMA StepLeavesLess ==
    ASSUME TypeOK, [Next]_vars, Working, ~(pc' = pc /\ cur' = cur /\ mode' = mode)
    PROVE  Work' \in 0..(Work - 1)
<1>b. N \in Nat /\ cur \in 1..N BY Bounds
<1>1. CASE Daemon BY <1>1, DaemonLeavesLess
<1>2. CASE IoFailure
  <2>1. CASE pc = "install" /\ Kind[cur] = "modify"
    <3>1. pc' = "putBack" /\ UNCHANGED <<cur, mode>>
      BY <1>2, <2>1 DEF IoFailure, InstallFails, Goto
    <3>2. Remaining' \in 0..(Remaining - 1)
      BY <1>b, <2>1, <3>1 DEF Remaining, After, Rounds, Clean, Rollback
    <3>3. Working' BY <3>1 DEF Working, ApplySteps
    <3> QED BY <3>1, <3>2, <3>3, NearerIsLess
  <2>2. CASE ~(pc = "install" /\ Kind[cur] = "modify")
    <3>1. \E e : Fail(e) BY <1>2, <2>2 DEF IoFailure, InstallFails
    <3> QED BY <3>1, FailLeavesLess
  <2> QED BY <2>1, <2>2
<1>3. ASSUME NEW p, NEW written, JournalSyncFailure(p, written)
      PROVE  Work' \in 0..(Work - 1)
  <2>1. Fail("state") BY <1>3 DEF JournalSyncFailure
  <2> QED BY <2>1, FailLeavesLess
<1>4. CASE Crash
  <2>1. Work' = 0 BY <1>4, RestHasNoWork DEF Crash
  <2> QED BY <2>1, WorkIsNatural
<1>5. ~Refuse /\ ~Begin /\ ~Restart /\ ~Rest
  BY DEF Refuse, RefuseWith, Begin, Restart, Rest, Working, ApplySteps, CleanupSteps,
         RecoverySteps, Resting
<1>6. ~UNCHANGED vars BY DEF vars
<1>7. \A i, c : ~Edit(i, c) BY DEF Edit
<1> QED BY <1>1, <1>2, <1>3, <1>4, <1>5, <1>6, <1>7 DEF Next, Environment

\* Whatever fails, crashes or is edited, and for any number of files, the loops
\* of publication, unwinding, roll-forward and cleanup come to their ends: what
\* Settles needs beside a daemon that is scheduled.
THEOREM EveryLoopEnds == Spec => LoopsEnd
<1>1. ASSUME TypeOK, [Next]_vars, Working, pc' = pc, cur' = cur, mode' = mode
      PROVE  ~Daemon
  <2>1. Work' = Work BY <1>1 DEF Work, Working, Remaining, Rounds, After, Clean, Rollback
  <2>2. Work \in Nat BY <1>1, WorkIsNatural
  <2> QED BY <1>1, <2>1, <2>2, DaemonLeavesLess
<1>2. TypeOK /\ [Next]_vars =>
        [Working =>
           IF pc' = pc /\ cur' = cur /\ mode' = mode THEN ~Daemon
           ELSE Work' \in 0..(Work - 1)]_vars
  BY <1>1, StepLeavesLess
<1> QED BY <1>2, TypeCorrect, PTL DEF Spec, LoopsEnd
=============================================================================
