----------------------- MODULE RepositorySnapshot_proofs -----------------------
(***************************************************************************)
(* FreshMeansUnchanged for trees, inodes, files and ticks of any number.   *)
(*                                                                         *)
(* The argument: a write sets the stamp to the present tick, and the token *)
(* is older than the tick in which revalidate lists the files.  So an      *)
(* inode whose stamp is older than the listing has not been written or     *)
(* unlinked since, and what the walk reads of it is what the listing saw.  *)
(***************************************************************************)
EXTENDS RepositorySnapshot, TLAPS

USE SizeAssumption, BoundAssumption, TrackedAssumption, InodeAssumption

\* No stamp lies in the future, and those of the token are older than any
\* later walk.
StampInv ==
    /\ \A n \in Inodes : disk[n].stamp <= clock
    /\ before.stamp <= clock
    /\ \A p \in Paths : seen.entry[p].there => seen.entry[p].meta.stamp <= clock
    /\ \A p \in Paths :
           token.shot.entry[p].there => token.shot.entry[p].meta.stamp <= token.at
    /\ token.at <= clock
    /\ atList.at <= clock
    /\ token.taken /\ pc # "none" => token.at < clock
    /\ ~token.taken => atList.at = 0

WalkInv ==
    /\ pc # "none" => result = "none"
    /\ result = "ok" => token.taken
    /\ pc \in {"none", "head", "list"} => cur = Index
    /\ cur = Index => \A i \in Files : ~seen.entry[i].there
    /\ pc \in {"open", "read", "check"} => before.inode \in Inodes
    /\ pc \in {"read", "check"} => fd \in Inodes
    /\ pc \notin {"read", "check"} => block = 1

\* What an inode with an old stamp says while a revalidation goes over the
\* files it has listed.
Old(s) == s < atList.at
Walking == token.taken /\ cur \in Files
ListInv ==
    Walking =>
        /\ token.at < atList.at
        /\ \A i \in Files : FileAt(i).there /\ Old(FileAt(i).meta.stamp) =>
               atList.file[i] = FileAt(i)
        /\ \A i \in Files : seen.entry[i].there /\ Old(seen.entry[i].meta.stamp) =>
               atList.file[i] = seen.entry[i]
        /\ \A i \in Files : atList.file[i].there => i \in seen.names
\* The file that is open now: as long as nobody stamped it, it is still the
\* one at the path and the blocks read are its own.
Unstamped == Old(before.stamp) /\ disk[before.inode].stamp = before.stamp
OpenInv ==
    Walking =>
        /\ pc \in {"open", "read", "check"} /\ Unstamped => tree[cur] = before.inode
        /\ pc \in {"read", "check"} /\ Unstamped /\ fd = before.inode =>
               \A b \in 1..Blocks :
                   b < block \/ pc = "check" => got[b] = disk[fd].data[b]

IInv == TypeOK /\ StampInv /\ WalkInv /\ ListInv /\ OpenInv /\ FreshMeansUnchanged

-----------------------------------------------------------------------------
(* Type correctness.                                                       *)

LEMMA MissingType == Missing \in Entries /\ ~Missing.there
BY DEF Missing, Entries

LEMMA HashedType ==
    ASSUME NEW m \in Metas, NEW d \in Reads
    PROVE  /\ Hashed(m, d) \in Entries
           /\ Hashed(m, d).there
           /\ Hashed(m, d).meta = m
           /\ Hashed(m, d).data = d
BY DEF Hashed, Entries

LEMMA ContentIsRead == Content \subseteq Reads
BY DEF Content, Reads

LEMMA FileAtType ==
    ASSUME TypeOK, NEW i \in Paths
    PROVE  /\ FileAt(i) \in Entries
           /\ FileAt(i).there => /\ tree[i] \in Inodes
                                 /\ FileAt(i).meta = Meta(tree[i])
                                 /\ FileAt(i).data = disk[tree[i]].data
           /\ tree[i] # NoInode => FileAt(i).there
<1>1. CASE tree[i] = NoInode BY <1>1, MissingType DEF FileAt
<1>2. CASE tree[i] # NoInode
  <2>1. tree[i] \in Inodes BY <1>2 DEF TypeOK
  <2>2. Meta(tree[i]) \in Metas /\ disk[tree[i]].data \in Reads
    BY <2>1, ContentIsRead DEF TypeOK, InodeState, Meta, Metas
  <2> QED BY <1>2, <2>1, <2>2, HashedType DEF FileAt
<1> QED BY <1>1, <1>2

LEMMA NoneTypes ==
    /\ NoMeta \in Metas
    /\ Unread \in Reads
    /\ NoSnapshot \in Snapshots
    /\ \A p \in Paths : ~NoSnapshot.entry[p].there
    /\ 1 \in 1..Blocks
BY MissingType DEF NoMeta, Metas, Unread, Reads, NoSnapshot, Snapshots

LEMMA InitTypeOK == Init => TypeOK
<1> SUFFICES ASSUME Init PROVE TypeOK OBVIOUS
<1> USE DEF Init
<1>1. disk \in [Inodes -> InodeState]
  <2>1. PICK d \in Data :
          disk = [n \in Inodes |-> [data |-> [b \in 1..Blocks |-> d], stamp |-> 1]]
    OBVIOUS
  <2> QED BY <2>1 DEF InodeState, Content
<1>2. token \in [taken : BOOLEAN, at : Nat, shot : Snapshots] BY NoneTypes
<1>3. atList \in [at : Nat, file : [Files -> Entries]] BY MissingType
<1>4. cur \in Paths BY DEF Paths
<1> QED BY <1>1, <1>2, <1>3, <1>4, NoneTypes DEF TypeOK, PCs, Results

\* Any snapshot the walk goes on with is well formed; so are the steps.
LEMMA ClosedTypes ==
    ASSUME Closed
    PROVE  before' \in Metas /\ fd' \in Inodes \cup {NoInode} /\ got' \in Reads
               /\ block' \in 1..Blocks
BY NoneTypes DEF Closed

LEMMA AdvanceTypes ==
    ASSUME TypeOK, NEW shot \in Snapshots, Advance(shot), UNCHANGED clock
    PROVE  /\ pc' \in PCs
           /\ cur' \in Paths
           /\ seen' \in Snapshots
           /\ result' \in Results
           /\ token' \in [taken : BOOLEAN, at : Nat, shot : Snapshots]
<1>1. CASE cur = Index /\ Continue("list", cur, shot)
  BY <1>1 DEF Continue, TypeOK, PCs
<1>2. CASE cur \in Files \ {N} /\ Continue("stat", cur + 1, shot)
  BY <1>2 DEF Continue, TypeOK, PCs, Files, Paths
<1>3. CASE cur = N /\ Complete(shot)
  <2>1. Index \in Paths BY DEF Paths
  <2>2. CASE token.taken
    BY <1>3, <2>1, <2>2, NoneTypes DEF Complete, Return, TypeOK, PCs, Results
  <2>3. CASE ~token.taken
    <3>1. token' = [taken |-> TRUE, at |-> clock, shot |-> shot] /\ Return("ok")
      BY <1>3, <2>3 DEF Complete
    <3> QED BY <2>1, <3>1, NoneTypes DEF Return, TypeOK, PCs, Results
  <2> QED BY <2>2, <2>3
<1> QED BY <1>1, <1>2, <1>3 DEF Advance

LEMMA StopTypes ==
    ASSUME TypeOK, NEW r \in Results, Stop(r)
    PROVE  /\ pc' \in PCs
           /\ cur' \in Paths
           /\ seen' \in Snapshots
           /\ result' \in Results
           /\ token' \in [taken : BOOLEAN, at : Nat, shot : Snapshots]
           /\ before' \in Metas /\ fd' \in Inodes \cup {NoInode} /\ got' \in Reads
           /\ block' \in 1..Blocks
BY NoneTypes, ClosedTypes DEF Stop, Return, TypeOK, PCs, Paths

-----------------------------------------------------------------------------
(* The others: what a step of theirs can do to a file.                     *)

\* Whatever somebody does to an inode or to a path, every inode concerned
\* carries the present tick afterwards.
Stamps ==
    /\ tree' \in [Paths -> Inodes \cup {NoInode}]
    /\ disk' \in [Inodes -> InodeState]
    /\ \A n \in Inodes : disk'[n] = disk[n] \/ disk'[n].stamp = clock
    /\ \A p \in Paths :
         \/ tree'[p] = tree[p]
         \/ /\ tree[p] # NoInode => disk'[tree[p]].stamp = clock
            /\ tree'[p] # NoInode => disk'[tree'[p]].stamp = clock
Apart ==
    /\ head' \in Nat /\ clock' \in Nat /\ clock <= clock'
    /\ UNCHANGED <<walk, token, result, atList>>
    /\ touched' \in BOOLEAN /\ writes' \in Nat

LEMMA OtherApart == ASSUME TypeOK, Other, head' \in Nat PROVE Apart
BY DEF TypeOK, Other, Apart

LEMMA WriteStamps ==
    ASSUME TypeOK, NEW p \in Paths, NEW b \in 1..Blocks, NEW d \in Data,
           Write(p, b, d)
    PROVE  Stamps
<1> DEFINE n == tree[p]
           new == [data |-> [disk[n].data EXCEPT ![b] = d], stamp |-> clock]
<1>1. n \in Inodes BY DEF Write, TypeOK
<1>2. new \in InodeState BY <1>1 DEF TypeOK, InodeState, Content
<1>3. disk' = [disk EXCEPT ![n] = new] BY DEF Write
<1>4. tree' = tree BY DEF Write
<1> HIDE DEF new
<1>5. new.stamp = clock BY DEF new
<1> QED BY <1>1, <1>2, <1>3, <1>4, <1>5 DEF Stamps, TypeOK

LEMMA UnlinkedStamps ==
    ASSUME TypeOK, NEW p \in Paths
    PROVE  /\ Unlinked(p) \in [Inodes -> InodeState]
           /\ \A n \in Inodes :
                Unlinked(p)[n] = disk[n] \/ Unlinked(p)[n].stamp = clock
           /\ tree[p] # NoInode => Unlinked(p)[tree[p]].stamp = clock
BY DEF Unlinked, TypeOK, InodeState

LEMMA ReplaceStamps ==
    ASSUME TypeOK, NEW p \in Paths, NEW n \in Inodes, NEW c \in Content,
           Replace(p, n, c)
    PROVE  Stamps
<1> DEFINE new == [data |-> c, stamp |-> clock]
<1>1. disk' = [Unlinked(p) EXCEPT ![n] = new] /\ tree' = [tree EXCEPT ![p] = n]
  BY DEF Replace
<1>2. new \in InodeState BY DEF TypeOK, InodeState
<1>3. tree \in [Paths -> Inodes \cup {NoInode}] BY DEF TypeOK
<1> HIDE DEF new
<1>4. new.stamp = clock BY DEF new
<1>5. disk'[n] = new BY <1>1, UnlinkedStamps
<1> QED BY <1>1, <1>2, <1>3, <1>4, <1>5, UnlinkedStamps DEF Stamps

LEMMA RemoveStamps ==
    ASSUME TypeOK, NEW p \in Paths, Remove(p)
    PROVE  Stamps
BY UnlinkedStamps DEF Remove, Stamps, TypeOK

LEMMA EnvironmentStamps == ASSUME TypeOK, Environment PROVE Stamps /\ Apart
<1>1. CASE Tick BY <1>1 DEF Tick, Stamps, Apart, TypeOK
<1>2. CASE MoveHead
  <2>1. Stamps BY <1>2 DEF MoveHead, Stamps, TypeOK
  <2> QED BY <1>2, <2>1, OtherApart DEF MoveHead, TypeOK
<1>3. CASE \E p \in Paths, b \in 1..Blocks, d \in Data : Write(p, b, d)
  BY <1>3, WriteStamps, OtherApart DEF Write, TypeOK
<1>4. CASE \E p \in Paths, n \in Inodes, c \in Content : Replace(p, n, c)
  BY <1>4, ReplaceStamps, OtherApart DEF Replace, TypeOK
<1>5. CASE \E p \in Paths : Remove(p)
  BY <1>5, RemoveStamps, OtherApart DEF Remove, TypeOK
<1> QED BY <1>1, <1>2, <1>3, <1>4, <1>5 DEF Environment

-----------------------------------------------------------------------------
\* Reading needs an open file.
Opened == pc = "read" => fd \in Inodes

LEMMA StepTypeOK == TypeOK /\ Opened /\ [Next]_vars => TypeOK'
<1> SUFFICES ASSUME TypeOK, Opened, [Next]_vars PROVE TypeOK' OBVIOUS
<1> USE DEF TypeOK
<1>1. CASE Begin BY <1>1 DEF Begin, PCs, Results, files
<1>2. CASE ReadHead
  <2>1. [seen EXCEPT !.head = head] \in Snapshots BY DEF Snapshots
  <2> QED BY <1>2, <2>1, StopTypes DEF ReadHead, PCs, Results, files
<1>3. CASE List
  <2>1. [seen EXCEPT !.names = Listed] \in Snapshots BY DEF Snapshots, Listed
  <2>2. 1 \in Paths BY DEF Paths, Files
  <2>3. atList' \in [at : Nat, file : [Files -> Entries]]
    BY <1>3, FileAtType DEF List, Paths
  <2>4. CASE Stop("git") \/ Stop("too_large")
    BY <1>3, <2>3, <2>4, StopTypes DEF List, Results, files
  <2>5. CASE Continue("stat", 1, [seen EXCEPT !.names = Listed])
               /\ UNCHANGED <<before, fd, got, block>>
    BY <1>3, <2>1, <2>2, <2>3, <2>5 DEF List, Continue, PCs, files
  <2> QED BY <1>3, <2>4, <2>5 DEF List
<1>4. CASE Stat
  <2>1. CASE Advance(seen)
    BY <1>4, <2>1, AdvanceTypes, ClosedTypes DEF Stat, Advance, files
  <2>2. CASE Stop("io") BY <1>4, <2>2, StopTypes DEF Stat, Results, files
  <2>3. CASE /\ tree[cur] # NoInode
             /\ before' = Meta(tree[cur])
             /\ pc' = "open"
             /\ UNCHANGED <<cur, fd, got, block, seen, token, result>>
    BY <1>4, <2>3 DEF Stat, PCs, Meta, Metas, InodeState, files
  <2> QED BY <1>4, <2>1, <2>2, <2>3 DEF Stat
<1>5. CASE Open BY <1>5, StopTypes DEF Open, PCs, Results, files
<1>6. CASE Read
  <2>1. got' \in Reads
    <3>1. fd \in Inodes BY <1>6 DEF Read, Opened
    <3>2. disk[fd].data[block] \in Data BY <3>1 DEF InodeState, Content
    <3> QED BY <1>6, <3>2 DEF Read, Reads
  <2>2. block' \in 1..Blocks BY <1>6 DEF Read
  <2> QED BY <1>6, <2>1, <2>2 DEF Read, PCs, files
<1>7. CASE Check
  <2>1. HashedFile(before, got) \in Entries
    BY HashedType, NoneTypes DEF HashedFile
  <2>2. [seen EXCEPT !.entry[cur] = HashedFile(before, got)] \in Snapshots
    BY <2>1 DEF Snapshots
  <2>3. CASE Stop("unstable") BY <1>7, <2>3, StopTypes DEF Check, Results, files
  <2>4. CASE Advance([seen EXCEPT !.entry[cur] = HashedFile(before, got)])
    BY <1>7, <2>2, <2>4, AdvanceTypes, ClosedTypes DEF Check, Advance, files
  <2> QED BY <1>7, <2>3, <2>4 DEF Check
<1>8. CASE Environment BY <1>8, EnvironmentStamps DEF Stamps, Apart, walk
<1>9. CASE UNCHANGED vars BY <1>9 DEF vars, files, walk
<1> QED BY <1>1, <1>2, <1>3, <1>4, <1>5, <1>6, <1>7, <1>8, <1>9 DEF Next, Walk

\* Every variable keeps its type.
THEOREM TypeCorrect == Spec => []TypeOK
<1>1. TypeOK /\ Opened /\ [Next]_vars => Opened'
  <2> SUFFICES ASSUME TypeOK, Opened, [Next]_vars PROVE Opened' OBVIOUS
  <2> USE DEF Opened
  <2>1. CASE Walk
    BY <2>1 DEF Walk, Begin, ReadHead, List, Stat, Open, Read, Check, Stop, Return,
                Advance, Continue, Complete, TypeOK
  <2>2. CASE Environment BY <2>2, EnvironmentStamps DEF Apart, walk
  <2>3. CASE UNCHANGED vars BY <2>3 DEF vars, walk
  <2> QED BY <2>1, <2>2, <2>3 DEF Next
<1>2. Init => Opened BY DEF Init, Opened
<1> QED BY <1>1, <1>2, InitTypeOK, StepTypeOK, PTL DEF Spec

-----------------------------------------------------------------------------
(* The inductive invariant.                                                *)

LEMMA FilesArePaths == Files \subseteq Paths /\ Index \in Paths /\ Index \notin Files
BY DEF Files, Paths, Index

LEMMA InitIInv == Init => IInv
<1> SUFFICES ASSUME Init PROVE IInv OBVIOUS
<1>1. TypeOK BY InitTypeOK
<1>2. StampInv
  <2>1. \A n \in Inodes : disk[n].stamp = 1 BY DEF Init
  <2> QED BY <2>1, NoneTypes DEF Init, StampInv, NoMeta
<1>3. WalkInv BY NoneTypes, FilesArePaths DEF Init, WalkInv
<1>4. ListInv /\ OpenInv BY FilesArePaths DEF Init, ListInv, OpenInv, Walking
<1>5. FreshMeansUnchanged BY DEF Init, FreshMeansUnchanged
<1> QED BY <1>1, <1>2, <1>3, <1>4, <1>5 DEF IInv

\* A walk that stops leaves nothing behind that the invariant speaks of.
LEMMA StopKeeps ==
    ASSUME IInv, NEW r, r # "ok", Stop(r), UNCHANGED <<files, token>>,
           atList' = atList \/ (token.taken /\ atList'.at = clock)
    PROVE  (StampInv /\ WalkInv /\ ListInv /\ OpenInv /\ FreshMeansUnchanged)'
<1> USE DEF IInv, Stop, Return, Closed, files
<1>1. StampInv' BY NoneTypes DEF StampInv, NoMeta, TypeOK
<1>2. WalkInv' BY NoneTypes, FilesArePaths DEF WalkInv
<1>3. ListInv' /\ OpenInv' BY FilesArePaths DEF ListInv, OpenInv, Walking
<1>4. FreshMeansUnchanged' BY DEF FreshMeansUnchanged
<1> QED BY <1>1, <1>2, <1>3, <1>4

\* What a walk may go on with: the hashes it has are of old files only if the
\* listing saw the same.
GoodShot(shot) ==
    /\ shot \in Snapshots
    /\ \A p \in Paths : shot.entry[p].there => shot.entry[p].meta.stamp <= clock
    /\ cur = Index => \A i \in Files : ~shot.entry[i].there
    /\ Walking =>
         /\ \A i \in Files : shot.entry[i].there /\ Old(shot.entry[i].meta.stamp) =>
                atList.file[i] = shot.entry[i]
         /\ \A i \in Files : atList.file[i].there => i \in shot.names

LEMMA ContinueKeeps ==
    ASSUME IInv, pc # "none", NEW shot, GoodShot(shot), NEW i \in Paths,
           cur \in Files \/ i = Index, i = Index => cur = Index,
           NEW q \in {"list", "stat"}, q = "list" => i = Index,
           Continue(q, i, shot), Closed, UNCHANGED <<files, atList>>
    PROVE  (StampInv /\ WalkInv /\ ListInv /\ OpenInv /\ FreshMeansUnchanged)'
<1> USE DEF IInv, Continue, Closed, files
<1>1. StampInv' BY DEF StampInv, GoodShot, NoMeta, TypeOK
<1>2. WalkInv' BY FilesArePaths DEF WalkInv, GoodShot
<1>3. FileAt(i)' = FileAt(i) BY DEF FileAt, Meta
<1>4. ListInv'
  <2>1. \A j \in Files : FileAt(j)' = FileAt(j) BY DEF FileAt, Meta
  <2> QED BY <2>1, FilesArePaths DEF ListInv, Walking, Old, GoodShot
<1>5. OpenInv' BY DEF OpenInv
<1>6. FreshMeansUnchanged' BY DEF FreshMeansUnchanged, WalkInv
<1> QED BY <1>1, <1>2, <1>4, <1>5, <1>6

\* The comparison: equal to the token, whose stamps are all old, the files
\* hashed are those the listing saw.
LEMMA CompleteKeeps ==
    ASSUME IInv, pc # "none", NEW shot, GoodShot(shot), cur \in Files,
           Complete(shot), Closed, UNCHANGED <<files, atList>>
    PROVE  (StampInv /\ WalkInv /\ ListInv /\ OpenInv /\ FreshMeansUnchanged)'
<1> USE DEF IInv, Complete, Return, Closed, files
<1>1. StampInv'
  <2>1. CASE token.taken BY <2>1, NoneTypes DEF StampInv, NoMeta, TypeOK
  <2>2. CASE ~token.taken
    <3>1. token' = [taken |-> TRUE, at |-> clock, shot |-> shot] BY <2>2
    <3>2. token'.taken /\ token'.at = clock /\ token'.shot = shot BY <3>1
    <3> QED BY <2>2, <3>2, NoneTypes DEF StampInv, NoMeta, TypeOK, GoodShot
  <2> QED BY <2>1, <2>2
<1>2. WalkInv' BY NoneTypes, FilesArePaths DEF WalkInv
<1>3. ListInv' /\ OpenInv' BY FilesArePaths DEF ListInv, OpenInv, Walking
<1>4. FreshMeansUnchanged'
  <2>1. CASE token.taken /\ shot = token.shot
    <3>1. \A i \in Files : shot.entry[i].there => Old(shot.entry[i].meta.stamp)
      <4> SUFFICES ASSUME NEW i \in Files, shot.entry[i].there
                   PROVE  Old(shot.entry[i].meta.stamp)
        OBVIOUS
      <4>1. token.at < atList.at BY <2>1 DEF ListInv, Walking
      <4>2. shot.entry[i].meta.stamp <= token.at
        BY <2>1, FilesArePaths DEF StampInv
      <4>3. shot.entry[i].meta.stamp \in Nat
        <5>1. shot.entry[i] \in Entries BY FilesArePaths DEF GoodShot, Snapshots
        <5> QED BY <5>1, MissingType DEF Entries, Metas, Missing
      <4> QED BY <4>1, <4>2, <4>3 DEF Old, TypeOK
    <3> QED BY <2>1, <3>1 DEF FreshMeansUnchanged, GoodShot, Walking
  <2>2. CASE token.taken /\ shot # token.shot
    BY <2>2 DEF FreshMeansUnchanged
  <2>3. CASE ~token.taken
    <3>1. token'.at = clock /\ atList'.at = 0 /\ clock \in Nat
      BY <2>3 DEF StampInv, TypeOK
    <3> QED BY <3>1 DEF FreshMeansUnchanged
  <2> QED BY <2>1, <2>2, <2>3
<1> QED BY <1>1, <1>2, <1>3, <1>4

LEMMA AdvanceKeeps ==
    ASSUME IInv, pc # "none", NEW shot, GoodShot(shot), Advance(shot),
           UNCHANGED <<files, atList>>
    PROVE  (StampInv /\ WalkInv /\ ListInv /\ OpenInv /\ FreshMeansUnchanged)'
<1>1. CASE cur = Index
  <2>1. Continue("list", cur, shot) /\ Closed
    BY <1>1, FilesArePaths DEF Advance, Files
  <2> QED BY <1>1, <2>1, ContinueKeeps, FilesArePaths
<1>2. CASE cur \in Files \ {N}
  <2>1. Continue("stat", cur + 1, shot) /\ Closed
    BY <1>2, FilesArePaths DEF Advance
  <2>2. cur + 1 \in Paths /\ cur + 1 # Index BY <1>2 DEF Files, Paths, Index
  <2> QED BY <1>2, <2>1, <2>2, ContinueKeeps
<1>3. CASE cur = N
  <2>1. cur \in Files BY <1>3 DEF Files
  <2>2. Complete(shot) /\ Closed BY <1>3, <2>1, FilesArePaths DEF Advance
  <2> QED BY <2>1, <2>2, CompleteKeeps
<1> QED BY <1>1, <1>2, <1>3 DEF IInv, TypeOK, Paths

\* What is in `seen` is good while the walk is under way.
LEMMA SeenIsGood == ASSUME IInv PROVE GoodShot(seen)
BY DEF IInv, TypeOK, StampInv, WalkInv, ListInv, GoodShot

\* A complete look at an inode nobody stamped meanwhile adds a good entry.
LEMMA CheckedIsGood ==
    ASSUME IInv, pc = "check", before = Meta(fd)
    PROVE  GoodShot([seen EXCEPT !.entry[cur] = HashedFile(before, got)])
<1> USE DEF IInv
<1> DEFINE new == HashedFile(before, got)
           shot == [seen EXCEPT !.entry[cur] = new]
<1>1. new \in Entries /\ new.meta.stamp <= clock
  BY HashedType, NoneTypes DEF HashedFile, TypeOK, StampInv, NoMeta
<1>2. seen \in Snapshots /\ cur \in Paths BY DEF TypeOK
<1>3. /\ shot \in Snapshots
      /\ shot.names = seen.names
      /\ shot.entry[cur] = new
      /\ \A p \in Paths : p # cur => shot.entry[p] = seen.entry[p]
  BY <1>1, <1>2 DEF Snapshots
<1> HIDE DEF new, shot
<1>4. ASSUME Walking, Old(new.meta.stamp) PROVE atList.file[cur] = new
  <2>1. cur # Index /\ cur \in Files BY <1>4, FilesArePaths DEF Walking
  <2>2. new = Hashed(before, got) BY <2>1 DEF new, HashedFile
  <2>3. new.meta = before BY <2>2, HashedType DEF TypeOK
  <2>4. fd \in Inodes /\ fd = before.inode /\ disk[fd].stamp = before.stamp
    BY DEF WalkInv, Meta
  <2>5. Unstamped BY <1>4, <2>3, <2>4 DEF Unstamped
  <2>6. tree[cur] = fd BY <1>4, <2>4, <2>5 DEF OpenInv
  <2>7. got = disk[fd].data
    <3>1. \A b \in 1..Blocks : got[b] = disk[fd].data[b]
      BY <1>4, <2>4, <2>5 DEF OpenInv
    <3>2. got \in Reads /\ disk[fd].data \in Content
      BY <2>4 DEF TypeOK, InodeState
    <3> QED BY <3>1, <3>2 DEF Reads, Content
  <2>8. fd # NoInode BY <2>4
  <2>9. FileAt(cur) = new BY <2>2, <2>6, <2>7, <2>8 DEF FileAt
  <2>10. FileAt(cur).there BY <2>2, <2>9, HashedType DEF TypeOK
  <2> QED BY <1>4, <2>1, <2>9, <2>10 DEF ListInv
<1>5. \A p \in Paths : shot.entry[p].there => shot.entry[p].meta.stamp <= clock
  BY <1>1, <1>3 DEF StampInv
<1>6. cur = Index => \A i \in Files : ~shot.entry[i].there
  BY <1>3, FilesArePaths DEF WalkInv
<1>7. ASSUME Walking
      PROVE  /\ \A i \in Files : shot.entry[i].there /\ Old(shot.entry[i].meta.stamp) =>
                    atList.file[i] = shot.entry[i]
             /\ \A i \in Files : atList.file[i].there => i \in shot.names
  <2>1. ASSUME NEW i \in Files, shot.entry[i].there, Old(shot.entry[i].meta.stamp)
        PROVE  atList.file[i] = shot.entry[i]
    <3>1. CASE i = cur BY <1>3, <1>4, <1>7, <2>1, <3>1
    <3>2. CASE i # cur BY <1>3, <1>7, <2>1, <3>2, FilesArePaths DEF ListInv
    <3> QED BY <3>1, <3>2
  <2> QED BY <1>3, <1>7, <2>1 DEF ListInv
<1>8. GoodShot(shot) BY <1>3, <1>5, <1>6, <1>7 DEF GoodShot
<1> QED BY <1>8 DEF shot, new

LEMMA ListKeeps ==
    ASSUME IInv, List
    PROVE  (StampInv /\ WalkInv /\ ListInv /\ OpenInv /\ FreshMeansUnchanged)'
<1> DEFINE new == [at |-> clock, file |-> [i \in Files |-> FileAt(i)]]
<1>1. atList' = IF token.taken THEN new ELSE atList BY DEF List
<1>2. pc = "list" /\ cur = Index /\ UNCHANGED files /\ result = "none"
  BY DEF List, IInv, WalkInv
<1>3. CASE Stop("git") \/ Stop("too_large")
  <2>1. UNCHANGED token BY <1>3 DEF Stop
  <2>2. atList' = atList \/ (token.taken /\ atList'.at = clock) BY <1>1
  <2> QED BY <1>2, <1>3, <2>1, <2>2, StopKeeps
<1>4. CASE /\ Continue("stat", 1, [seen EXCEPT !.names = Listed])
           /\ UNCHANGED <<before, fd, got, block>>
  <2> USE DEF IInv, Continue, files
  <2>1. /\ pc' = "stat" /\ cur' = 1 /\ UNCHANGED <<token, result, before, fd, got, block>>
        /\ seen'.entry = seen.entry /\ seen'.names = Listed
    BY <1>4 DEF TypeOK, Snapshots
  <2>2. \A i \in Files : ~seen'.entry[i].there BY <1>2, <2>1 DEF WalkInv
  <2>3. 1 \in Files /\ 1 # Index BY DEF Files, Index
  <2>4. StampInv'
    <3>1. atList'.at <= clock /\ (~token.taken => atList'.at = 0)
      BY <1>1 DEF StampInv, TypeOK
    <3> QED BY <1>2, <2>1, <3>1 DEF StampInv
  <2>5. WalkInv' BY <1>2, <2>1, <2>2, <2>3 DEF WalkInv
  <2>6. ListInv'
    <3> SUFFICES ASSUME token.taken
                 PROVE  /\ token.at < clock
                        /\ \A i \in Files : new.file[i] = FileAt(i)'
                        /\ \A i \in Files : new.file[i].there => i \in Listed
      BY <1>1, <2>1, <2>2 DEF ListInv, Walking
    <3>1. token.at < clock BY <1>2 DEF StampInv
    <3>2. \A i \in Files : FileAt(i)' = FileAt(i) BY <1>2 DEF FileAt, Meta
    <3>3. \A i \in Files : FileAt(i).there => i \in Listed
      BY MissingType DEF FileAt, Listed
    <3> QED BY <3>1, <3>2, <3>3
  <2>7. OpenInv' BY <2>1 DEF OpenInv
  <2>8. FreshMeansUnchanged' BY <1>2, <2>1 DEF FreshMeansUnchanged
  <2> QED BY <2>4, <2>5, <2>6, <2>7, <2>8
<1> QED BY <1>3, <1>4 DEF List

LEMMA StatKeeps ==
    ASSUME IInv, Stat
    PROVE  (StampInv /\ WalkInv /\ ListInv /\ OpenInv /\ FreshMeansUnchanged)'
<1>1. pc = "stat" /\ UNCHANGED <<files, atList>> BY DEF Stat
<1>2. CASE Advance(seen) BY <1>1, <1>2, SeenIsGood, AdvanceKeeps
<1>3. CASE Stop("io") BY <1>1, <1>3, StopKeeps DEF Stop
<1>4. CASE /\ tree[cur] # NoInode
           /\ before' = Meta(tree[cur])
           /\ pc' = "open"
           /\ UNCHANGED <<cur, fd, got, block, seen, token, result>>
  <2> USE DEF IInv, files
  <2>1. tree[cur] \in Inodes BY <1>4 DEF TypeOK
  <2>2. before'.inode = tree[cur] /\ before'.stamp = disk[tree[cur]].stamp
    BY <1>4 DEF Meta
  <2>3. StampInv' BY <1>1, <1>4, <2>1, <2>2 DEF StampInv
  <2>4. WalkInv' BY <1>1, <1>4, <2>1, <2>2 DEF WalkInv
  <2>5. \A i \in Files : FileAt(i)' = FileAt(i) BY <1>1 DEF FileAt, Meta
  <2>6. ListInv' BY <1>1, <1>4, <2>5 DEF ListInv, Walking, Old
  <2>7. OpenInv' BY <1>1, <1>4, <2>2 DEF OpenInv
  <2>8. FreshMeansUnchanged' BY <1>1, <1>4 DEF FreshMeansUnchanged
  <2> QED BY <2>3, <2>4, <2>6, <2>7, <2>8
<1> QED BY <1>2, <1>3, <1>4 DEF Stat

LEMMA OpenKeeps ==
    ASSUME IInv, Open
    PROVE  (StampInv /\ WalkInv /\ ListInv /\ OpenInv /\ FreshMeansUnchanged)'
<1>1. pc = "open" /\ UNCHANGED <<files, atList>> BY DEF Open
<1>2. CASE Stop("io") BY <1>1, <1>2, StopKeeps DEF Stop
<1>3. CASE /\ tree[cur] # NoInode
           /\ fd' = tree[cur]
           /\ pc' = "read"
           /\ UNCHANGED <<cur, before, got, block, seen, token, result>>
  <2> USE DEF IInv, files
  <2>1. tree[cur] \in Inodes BY <1>3 DEF TypeOK
  <2>2. StampInv' BY <1>1, <1>3 DEF StampInv
  <2>3. WalkInv' BY <1>1, <1>3, <2>1 DEF WalkInv
  <2>4. \A i \in Files : FileAt(i)' = FileAt(i) BY <1>1 DEF FileAt, Meta
  <2>5. ListInv' BY <1>1, <1>3, <2>4 DEF ListInv, Walking, Old
  <2>6. OpenInv' BY <1>1, <1>3 DEF OpenInv, Unstamped, Old, Walking, WalkInv
  <2>7. FreshMeansUnchanged' BY <1>1, <1>3 DEF FreshMeansUnchanged
  <2> QED BY <2>2, <2>3, <2>5, <2>6, <2>7
<1> QED BY <1>2, <1>3 DEF Open

LEMMA ReadKeeps ==
    ASSUME IInv, Read
    PROVE  (StampInv /\ WalkInv /\ ListInv /\ OpenInv /\ FreshMeansUnchanged)'
<1> USE DEF IInv, files
<1>1. /\ pc = "read"
      /\ got' = [got EXCEPT ![block] = disk[fd].data[block]]
      /\ IF block < Blocks THEN block' = block + 1 /\ pc' = pc
         ELSE pc' = "check" /\ block' = block
      /\ UNCHANGED <<files, cur, before, fd, seen, token, result, atList>>
  BY DEF Read
<1>2. StampInv' BY <1>1 DEF StampInv
<1>3. WalkInv' BY <1>1 DEF WalkInv
<1>4. \A i \in Files : FileAt(i)' = FileAt(i) BY <1>1 DEF FileAt, Meta
<1>5. ListInv' BY <1>1, <1>4 DEF ListInv, Walking, Old
<1>6. ASSUME Walking, Unstamped, fd = before.inode, NEW b \in 1..Blocks,
             b < block' \/ pc' = "check"
      PROVE  got'[b] = disk[fd].data[b]
  <2>1. got \in Reads /\ block \in 1..Blocks BY DEF TypeOK
  <2>2. CASE b = block BY <1>1, <2>1, <2>2 DEF Reads
  <2>3. CASE b # block
    <3>1. b < block BY <1>1, <1>6, <2>1, <2>3
    <3>2. got'[b] = got[b] BY <1>1, <2>1, <2>3 DEF Reads
    <3> QED BY <1>1, <1>6, <3>1, <3>2 DEF OpenInv
  <2> QED BY <2>2, <2>3
<1>7. OpenInv'
  <2>1. Walking' = Walking /\ Unstamped' = Unstamped
    BY <1>1 DEF Walking, Unstamped, Old
  <2>2. Walking /\ Unstamped => tree[cur] = before.inode BY <1>1 DEF OpenInv
  <2> QED BY <1>1, <1>6, <2>1, <2>2 DEF OpenInv
<1>8. FreshMeansUnchanged' BY <1>1 DEF FreshMeansUnchanged
<1> QED BY <1>2, <1>3, <1>5, <1>7, <1>8

LEMMA CheckKeeps ==
    ASSUME IInv, Check
    PROVE  (StampInv /\ WalkInv /\ ListInv /\ OpenInv /\ FreshMeansUnchanged)'
<1>1. pc = "check" /\ UNCHANGED <<files, atList>> BY DEF Check
<1>2. CASE Stop("unstable") BY <1>1, <1>2, StopKeeps DEF Stop
<1>3. CASE /\ before = Meta(fd)
           /\ Advance([seen EXCEPT !.entry[cur] = HashedFile(before, got)])
  BY <1>1, <1>3, CheckedIsGood, AdvanceKeeps
<1> QED BY <1>2, <1>3 DEF Check

\* The others stamp what they touch with a tick that is not old.
LEMMA EnvironmentKeeps ==
    ASSUME IInv, Environment
    PROVE  (StampInv /\ WalkInv /\ ListInv /\ OpenInv /\ FreshMeansUnchanged)'
<1> USE DEF IInv
<1>1. Stamps /\ Apart BY EnvironmentStamps
<1>2. UNCHANGED <<walk, token, result, atList>> /\ clock \in Nat /\ clock' \in Nat
      /\ clock <= clock'
  BY <1>1 DEF Apart, TypeOK
<1>3. atList.at \in Nat /\ atList.at <= clock BY DEF StampInv, TypeOK
<1>4. StampInv'
  <2>1. \A n \in Inodes : disk'[n].stamp <= clock'
    <3> SUFFICES ASSUME NEW n \in Inodes PROVE disk'[n].stamp <= clock' OBVIOUS
    <3>1. disk[n].stamp \in Nat /\ disk[n].stamp <= clock
      BY DEF StampInv, TypeOK, InodeState
    <3>2. disk'[n] = disk[n] \/ disk'[n].stamp = clock BY <1>1 DEF Stamps
    <3> QED BY <1>2, <3>1, <3>2
  <2>2. before.stamp \in Nat /\ token.at \in Nat BY DEF TypeOK, Metas
  <2>3. \A p \in Paths : seen.entry[p].there => seen.entry[p].meta.stamp \in Nat
    <3> SUFFICES ASSUME NEW p \in Paths, seen.entry[p].there
                 PROVE  seen.entry[p].meta.stamp \in Nat
      OBVIOUS
    <3>1. seen.entry[p] \in Entries BY DEF TypeOK, Snapshots
    <3> QED BY <3>1, MissingType DEF Entries, Metas, Missing
  <2> QED BY <1>2, <1>3, <2>1, <2>2, <2>3 DEF StampInv, walk
<1>5. WalkInv' BY <1>2 DEF WalkInv, walk
<1>6. ASSUME NEW n \in Inodes, Old(disk'[n].stamp)
      PROVE  /\ disk'[n] = disk[n]
             /\ \A p \in Paths : tree'[p] = n <=> tree[p] = n
  <2>1. disk'[n].stamp # clock BY <1>3, <1>6 DEF Old, TypeOK
  <2>2. disk'[n] = disk[n] BY <1>1, <2>1 DEF Stamps
  <2>3. n # NoInode OBVIOUS
  <2> QED BY <1>1, <2>1, <2>2, <2>3 DEF Stamps
<1>7. ASSUME NEW i \in Files, FileAt(i)'.there, Old(FileAt(i)'.meta.stamp)
      PROVE  FileAt(i)' = FileAt(i)
  <2>1. i \in Paths BY FilesArePaths
  <2>2. TypeOK' BY <1>1, <1>2 DEF Stamps, Apart, TypeOK, walk
  <2>3. /\ tree'[i] \in Inodes /\ FileAt(i)'.meta = Meta(tree[i])'
    <3>1. tree'[i] # NoInode BY <1>7, MissingType DEF FileAt
    <3>2. tree'[i] \in Inodes BY <2>1, <2>2, <3>1 DEF TypeOK
    <3>3. FileAt(i)' = Hashed(Meta(tree[i])', disk'[tree'[i]].data)
      BY <3>1 DEF FileAt
    <3> QED BY <3>2, <3>3 DEF Hashed
  <2>4. Old(disk'[tree'[i]].stamp) BY <1>7, <2>3 DEF Meta
  <2>5. disk'[tree'[i]] = disk[tree'[i]] /\ tree[i] = tree'[i]
    BY <1>6, <2>1, <2>3, <2>4
  <2> QED BY <2>5 DEF FileAt, Meta
<1>8. ListInv' BY <1>2, <1>7 DEF ListInv, Walking, Old, walk
<1>9. OpenInv'
  <2> SUFFICES ASSUME Walking, pc \in {"open", "read", "check"},
                      Old(before.stamp), disk'[before.inode].stamp = before.stamp
               PROVE  /\ tree'[cur] = before.inode
                      /\ pc \in {"read", "check"} /\ fd = before.inode =>
                           \A b \in 1..Blocks : b < block \/ pc = "check" =>
                               got[b] = disk'[fd].data[b]
    BY <1>2 DEF OpenInv, Walking, Unstamped, Old, walk
  <2>1. before.inode \in Inodes /\ cur \in Paths BY DEF WalkInv, TypeOK
  <2>2. disk'[before.inode] = disk[before.inode]
        /\ (tree'[cur] = before.inode <=> tree[cur] = before.inode)
    BY <1>6, <2>1
  <2> QED BY <2>2 DEF OpenInv, Unstamped
<1>10. FreshMeansUnchanged' BY <1>2 DEF FreshMeansUnchanged
<1> QED BY <1>4, <1>5, <1>8, <1>9, <1>10

-----------------------------------------------------------------------------
LEMMA StepIInv == IInv /\ [Next]_vars => IInv'
<1> SUFFICES ASSUME IInv, [Next]_vars
             PROVE  (StampInv /\ WalkInv /\ ListInv /\ OpenInv /\ FreshMeansUnchanged)'
  BY StepTypeOK DEF IInv, WalkInv, Opened
<1>1. CASE Begin
  <2> USE <1>1 DEF Begin, IInv, files
  <2>1. StampInv' BY DEF StampInv, TypeOK
  <2>2. WalkInv' BY DEF WalkInv
  <2>3. cur' = Index BY DEF WalkInv
  <2>4. ListInv' /\ OpenInv' BY <2>3, FilesArePaths DEF ListInv, OpenInv, Walking
  <2>5. FreshMeansUnchanged' BY DEF FreshMeansUnchanged
  <2> QED BY <2>1, <2>2, <2>4, <2>5
<1>2. CASE ReadHead
  <2>1. CASE \E r \in {"repository", "git"} : Stop(r)
    BY <1>2, <2>1, StopKeeps DEF ReadHead, Stop
  <2>2. CASE /\ pc' = "stat"
             /\ seen' = [seen EXCEPT !.head = head]
             /\ UNCHANGED <<cur, before, fd, got, block, token, result>>
    <3> USE <1>2, <2>2 DEF ReadHead, IInv, files
    <3>1. seen'.entry = seen.entry BY DEF TypeOK, Snapshots
    <3>2. StampInv' BY <3>1 DEF StampInv
    <3>3. WalkInv' BY <3>1 DEF WalkInv
    <3>4. cur' = Index BY DEF WalkInv
    <3>5. ListInv' /\ OpenInv' BY <3>4, FilesArePaths DEF ListInv, OpenInv, Walking
    <3>6. FreshMeansUnchanged' BY DEF FreshMeansUnchanged
    <3> QED BY <3>2, <3>3, <3>5, <3>6
  <2> QED BY <1>2, <2>1, <2>2 DEF ReadHead
<1>3. CASE List BY <1>3, ListKeeps
<1>4. CASE Stat BY <1>4, StatKeeps
<1>5. CASE Open BY <1>5, OpenKeeps
<1>6. CASE Read BY <1>6, ReadKeeps
<1>7. CASE Check BY <1>7, CheckKeeps
<1>8. CASE Environment BY <1>8, EnvironmentKeeps
<1>9. CASE UNCHANGED vars
  <2> USE <1>9 DEF vars, files, walk, IInv
  <2>1. StampInv' /\ WalkInv' BY DEF StampInv, WalkInv
  <2>2. \A i \in Files : FileAt(i)' = FileAt(i) BY DEF FileAt, Meta
  <2>3. ListInv' BY <2>2 DEF ListInv, Walking, Old
  <2>4. OpenInv' BY DEF OpenInv, Walking, Unstamped, Old
  <2>5. FreshMeansUnchanged' BY DEF FreshMeansUnchanged
  <2> QED BY <2>1, <2>3, <2>4, <2>5
<1> QED BY <1>1, <1>2, <1>3, <1>4, <1>5, <1>6, <1>7, <1>8, <1>9 DEF Next, Walk

\* The invariant of the walk, at every step.
THEOREM IInvHolds == Spec => []IInv
BY InitIInv, StepIInv, PTL DEF Spec

\* A revalidation succeeds only if the tree, when Git listed it, was the one
\* the proposal was made for: for any number of files, inodes, blocks, writes
\* and ticks.
THEOREM FreshIsUnchanged == Spec => []FreshMeansUnchanged
<1>1. IInv => FreshMeansUnchanged BY DEF IInv
<1> QED BY <1>1, IInvHolds, PTL
-----------------------------------------------------------------------------
(* No false alarm: while nobody writes, every entry of the walk and of the *)
(* token is what a look at this moment would give.                         *)

EntryNow(p) ==
    IF tree[p] = NoInode THEN Missing
    ELSE Hashed(IF p = Index THEN NoMeta ELSE Meta(tree[p]), disk[tree[p]].data)
Now == [head |-> head, names |-> Listed, entry |-> [p \in Paths |-> EntryNow(p)]]

\* The paths up to upto have been looked at.
LooksLike(shot, upto) ==
    /\ shot \in Snapshots
    /\ shot.head = head
    /\ shot.names = IF cur = Index THEN {} ELSE Listed
    /\ \A p \in Paths : shot.entry[p] = IF p <= upto THEN EntryNow(p) ELSE Missing

QuietInv ==
    /\ result \notin {"stale", "unstable"}
    /\ token.taken => token.shot = Now
    /\ pc \in {"stat", "open", "read", "check"} => LooksLike(seen, cur - 1)
    /\ pc = "list" => LooksLike(seen, cur)
    /\ pc \in {"open", "read", "check"} =>
           tree[cur] # NoInode /\ before = Meta(tree[cur])
    /\ pc \in {"read", "check"} =>
           /\ fd = tree[cur]
           /\ \A b \in 1..Blocks :
                  b < block \/ pc = "check" => got[b] = disk[fd].data[b]

AlarmInv ==
    /\ pc \in {"none", "head"} => seen = NoSnapshot
    /\ ~touched => QuietInv

\* What is now stays so while the tree does.
LEMMA NowStays ==
    ASSUME UNCHANGED <<tree, disk, head>>
    PROVE  /\ \A p \in Paths : EntryNow(p)' = EntryNow(p)
           /\ Listed' = Listed
           /\ Now' = Now
<1>1. \A p \in Paths : EntryNow(p)' = EntryNow(p)
  BY DEF EntryNow, Meta
<1>2. Listed' = Listed BY DEF Listed
<1> QED BY <1>1, <1>2 DEF Now

LEMMA StopIsQuiet ==
    ASSUME QuietInv, NEW r \in {"repository", "git", "too_large", "io"}, Stop(r),
           UNCHANGED files
    PROVE  (seen = NoSnapshot)' /\ QuietInv'
<1>1. Now' = Now BY NowStays DEF files
<1> QED BY <1>1 DEF QuietInv, Stop, Return

\* A walk that went through sees the present.
LEMMA AllSeenIsNow ==
    ASSUME NEW shot, LooksLike(shot, N), cur \in Files
    PROVE  shot = Now
<1>1. \A p \in Paths : p <= N BY DEF Paths, Files, Index
<1>2. shot.names = Listed BY FilesArePaths DEF LooksLike
<1>3. shot.entry = [p \in Paths |-> EntryNow(p)]
  BY <1>1 DEF LooksLike, Snapshots
<1> QED BY <1>2, <1>3 DEF LooksLike, Snapshots, Now

LEMMA AdvanceIsQuiet ==
    ASSUME TypeOK, QuietInv, NEW shot, LooksLike(shot, cur), Advance(shot),
           UNCHANGED files, result = "none"
    PROVE  (pc \in {"none", "head"} => seen = NoSnapshot)' /\ QuietInv'
<1>1. /\ \A p \in Paths : EntryNow(p)' = EntryNow(p)
      /\ Listed' = Listed
      /\ Now' = Now
  BY NowStays DEF files
<1>2. head' = head BY DEF files
<1>3. CASE cur = Index
  <2>1. Continue("list", cur, shot) BY <1>3, FilesArePaths DEF Advance, Files
  <2>2. LooksLike(shot, cur)' BY <1>1, <1>2, <2>1 DEF LooksLike, Continue
  <2> QED BY <1>1, <2>1, <2>2 DEF Continue, QuietInv
<1>4. CASE cur \in Files \ {N}
  <2>1. Continue("stat", cur + 1, shot) BY <1>4, FilesArePaths DEF Advance
  <2>2. cur + 1 # Index /\ cur # Index /\ cur' = cur + 1 /\ cur' - 1 = cur
    BY <1>4, <2>1 DEF Files, Index, Continue
  <2>3. LooksLike(shot, cur - 1)' BY <1>1, <1>2, <2>1, <2>2 DEF LooksLike, Continue
  <2> QED BY <1>1, <2>1, <2>3 DEF Continue, QuietInv
<1>5. CASE cur = N
  <2>1. cur \in Files BY <1>5 DEF Files
  <2>2. Complete(shot) BY <1>5, <2>1, FilesArePaths DEF Advance
  <2>3. shot = Now BY <1>5, <2>1, AllSeenIsNow
  <2>4. CASE token.taken
    BY <1>1, <2>2, <2>3, <2>4 DEF Complete, Return, QuietInv
  <2>5. CASE ~token.taken
    <3>1. token'.shot = shot BY <2>2, <2>5 DEF Complete
    <3> QED BY <1>1, <2>2, <2>3, <2>5, <3>1 DEF Complete, Return, QuietInv
  <2> QED BY <2>4, <2>5
<1> QED BY <1>3, <1>4, <1>5 DEF TypeOK, Paths

LEMMA WalkIsQuiet ==
    ASSUME IInv, AlarmInv, ~touched, Walk, pc # "none"
    PROVE  (pc \in {"none", "head"} => seen = NoSnapshot)' /\ QuietInv'
<1> USE DEF AlarmInv
<1>t. TypeOK /\ WalkInv /\ QuietInv /\ result = "none" /\ cur \in Paths
  BY DEF IInv, WalkInv, TypeOK
<1>1. CASE ReadHead
  <2>1. pc = "head" /\ UNCHANGED files /\ cur = Index /\ seen = NoSnapshot
    BY <1>1, <1>t DEF ReadHead, WalkInv
  <2>2. CASE \E r \in {"repository", "git"} : Stop(r)
    BY <2>1, <2>2, <1>t, StopIsQuiet
  <2>3. CASE /\ pc' = "stat"
             /\ seen' = [seen EXCEPT !.head = head]
             /\ UNCHANGED <<cur, before, fd, got, block, token, result>>
    <3>1. \A p \in Paths : ~(p <= cur - 1) BY <2>1 DEF Paths, Files, Index
    <3>2. seen \in Snapshots BY <1>t DEF TypeOK
    <3>3. seen' \in Snapshots /\ seen'.head = head /\ seen'.names = {}
          /\ seen'.entry = [p \in Paths |-> Missing]
      BY <1>t, <2>1, <2>3, <3>2 DEF Snapshots, NoSnapshot, TypeOK
    <3>4. LooksLike(seen, cur - 1)'
      BY <2>1, <2>3, <3>1, <3>3 DEF LooksLike, files
    <3>5. Now' = Now BY <2>1, NowStays DEF files
    <3> QED BY <1>t, <2>3, <3>4, <3>5 DEF QuietInv
  <2> QED BY <1>1, <2>2, <2>3 DEF ReadHead
<1>2. CASE List
  <2>1. pc = "list" /\ UNCHANGED files /\ cur = Index BY <1>2, <1>t DEF List, WalkInv
  <2>2. CASE Stop("git") \/ Stop("too_large") BY <2>1, <2>2, <1>t, StopIsQuiet
  <2>3. CASE /\ Continue("stat", 1, [seen EXCEPT !.names = Listed])
             /\ UNCHANGED <<before, fd, got, block>>
    <3>1. LooksLike(seen, cur) BY <1>t, <2>1 DEF QuietInv
    <3>2. seen' \in Snapshots /\ seen'.head = head /\ seen'.names = Listed
          /\ seen'.entry = seen.entry
      BY <2>3, <3>1 DEF Continue, LooksLike, Snapshots, Listed
    <3>3. /\ \A p \in Paths : EntryNow(p)' = EntryNow(p)
          /\ Listed' = Listed /\ Now' = Now
      BY <2>1, NowStays DEF files
    <3>4. cur' = 1 /\ cur' - 1 = cur /\ 1 # Index BY <2>1, <2>3 DEF Continue, Index
    <3>5. LooksLike(seen, cur - 1)'
      BY <2>1, <3>1, <3>2, <3>3, <3>4 DEF LooksLike, files
    <3> QED BY <1>t, <2>3, <3>3, <3>5 DEF QuietInv, Continue
  <2> QED BY <1>2, <2>2, <2>3 DEF List
<1>3. CASE Stat
  <2>1. pc = "stat" /\ UNCHANGED files BY <1>3 DEF Stat
  <2>2. LooksLike(seen, cur - 1) BY <1>t, <2>1 DEF QuietInv
  <2>3. CASE Stop("io") BY <2>1, <2>3, <1>t, StopIsQuiet
  <2>4. CASE cur \in Files /\ (cur \notin seen.names \/ tree[cur] = NoInode)
             /\ Advance(seen)
    <3>1. seen.names = Listed /\ cur # Index
      BY <2>2, <2>4, FilesArePaths DEF LooksLike
    <3>2. EntryNow(cur) = Missing BY <2>4, <3>1 DEF Listed, EntryNow
    <3>3. \A p \in Paths : p <= cur <=> (p <= cur - 1 \/ p = cur)
      BY <1>t DEF Paths, Files, Index
    <3>4. LooksLike(seen, cur) BY <2>2, <3>2, <3>3 DEF LooksLike
    <3> QED BY <1>t, <2>1, <2>4, <3>4, AdvanceIsQuiet
  <2>5. CASE /\ tree[cur] # NoInode
             /\ before' = Meta(tree[cur])
             /\ pc' = "open"
             /\ UNCHANGED <<cur, fd, got, block, seen, token, result>>
    <3>1. /\ \A p \in Paths : EntryNow(p)' = EntryNow(p)
          /\ Listed' = Listed /\ Now' = Now
      BY <2>1, NowStays DEF files
    <3>2. LooksLike(seen, cur - 1)' BY <2>1, <2>2, <2>5, <3>1 DEF LooksLike, files
    <3>3. (before = Meta(tree[cur]))' BY <2>1, <2>5 DEF Meta, files
    <3> QED BY <1>t, <2>1, <2>5, <3>1, <3>2, <3>3 DEF QuietInv, files
  <2> QED BY <1>3, <2>3, <2>4, <2>5 DEF Stat
<1>4. CASE Open
  <2>1. pc = "open" /\ UNCHANGED files BY <1>4 DEF Open
  <2>2. tree[cur] # NoInode /\ before = Meta(tree[cur]) /\ LooksLike(seen, cur - 1)
    BY <1>t, <2>1 DEF QuietInv
  <2>3. /\ fd' = tree[cur]
        /\ pc' = "read"
        /\ UNCHANGED <<cur, before, got, block, seen, token, result>>
    BY <1>4, <2>2 DEF Open
  <2>4. /\ \A p \in Paths : EntryNow(p)' = EntryNow(p)
        /\ Listed' = Listed /\ Now' = Now
    BY <2>1, NowStays DEF files
  <2>5. LooksLike(seen, cur - 1)' BY <2>1, <2>2, <2>3, <2>4 DEF LooksLike, files
  <2>6. block = 1 BY <1>t, <2>1 DEF WalkInv
  <2>7. (before = Meta(tree[cur]))' BY <2>1, <2>2, <2>3 DEF Meta, files
  <2> QED BY <1>t, <2>1, <2>2, <2>3, <2>4, <2>5, <2>6, <2>7 DEF QuietInv, files
<1>5. CASE Read
  <2>1. /\ pc = "read"
        /\ got' = [got EXCEPT ![block] = disk[fd].data[block]]
        /\ IF block < Blocks THEN block' = block + 1 /\ pc' = pc
           ELSE pc' = "check" /\ block' = block
        /\ UNCHANGED <<files, cur, before, fd, seen, token, result>>
    BY <1>5 DEF Read
  <2>2. /\ tree[cur] # NoInode /\ before = Meta(tree[cur]) /\ LooksLike(seen, cur - 1)
        /\ fd = tree[cur]
        /\ \A b \in 1..Blocks : b < block => got[b] = disk[fd].data[b]
    BY <1>t, <2>1 DEF QuietInv
  <2>3. /\ \A p \in Paths : EntryNow(p)' = EntryNow(p)
        /\ Listed' = Listed /\ Now' = Now
    BY <2>1, NowStays DEF files
  <2>4. LooksLike(seen, cur - 1)' BY <2>1, <2>2, <2>3 DEF LooksLike, files
  <2>5. (before = Meta(tree[cur]))' BY <2>1, <2>2 DEF Meta, files
  <2>6. ASSUME NEW b \in 1..Blocks, b < block' \/ pc' = "check"
        PROVE  got'[b] = disk[fd].data[b]
    <3>1. got \in Reads /\ block \in 1..Blocks BY <1>t DEF TypeOK
    <3>2. CASE b = block BY <2>1, <3>1, <3>2 DEF Reads
    <3>3. CASE b # block
      <4>1. b < block BY <2>1, <2>6, <3>1, <3>3
      <4> QED BY <2>1, <2>2, <3>1, <3>3, <4>1 DEF Reads
    <3> QED BY <3>2, <3>3
  <2> QED BY <1>t, <2>1, <2>2, <2>3, <2>4, <2>5, <2>6 DEF QuietInv, files
<1>6. CASE Check
  <2>1. pc = "check" /\ UNCHANGED files BY <1>6 DEF Check
  <2>2. /\ tree[cur] # NoInode /\ before = Meta(tree[cur]) /\ LooksLike(seen, cur - 1)
        /\ fd = tree[cur]
        /\ \A b \in 1..Blocks : got[b] = disk[fd].data[b]
    BY <1>t, <2>1 DEF QuietInv
  <2>3. fd \in Inodes BY <1>t, <2>1 DEF WalkInv
  <2>4. got = disk[fd].data
    <3>1. got \in Reads /\ disk[fd].data \in Content BY <1>t, <2>3 DEF TypeOK, InodeState
    <3> QED BY <2>2, <3>1 DEF Reads, Content
  <2> DEFINE new == HashedFile(before, got)
             shot == [seen EXCEPT !.entry[cur] = new]
  <2>5. new = EntryNow(cur) BY <2>2, <2>4 DEF EntryNow, HashedFile
  <2>6. new \in Entries BY <1>t, HashedType, NoneTypes DEF HashedFile, TypeOK
  <2>7. Advance(shot) BY <1>6, <2>2 DEF Check
  <2> HIDE DEF new
  <2>8. /\ shot \in Snapshots /\ shot.head = seen.head /\ shot.names = seen.names
        /\ shot.entry[cur] = new
        /\ \A p \in Paths : p # cur => shot.entry[p] = seen.entry[p]
    BY <1>t, <2>2, <2>6 DEF LooksLike, Snapshots
  <2> HIDE DEF shot
  <2>9. \A p \in Paths : p <= cur <=> (p <= cur - 1 \/ p = cur)
    BY <1>t DEF Paths, Files, Index
  <2>10. LooksLike(shot, cur) BY <2>2, <2>5, <2>8, <2>9 DEF LooksLike
  <2> QED BY <1>t, <2>1, <2>7, <2>10, AdvanceIsQuiet
<1>7. ~Begin BY DEF Begin
<1> QED BY <1>1, <1>2, <1>3, <1>4, <1>5, <1>6, <1>7 DEF Walk

\* Once somebody wrote, only the walk's own bookkeeping is left to say.
LEMMA WalkForgets ==
    ASSUME AlarmInv, Walk, pc # "none"
    PROVE  (pc \in {"none", "head"} => seen = NoSnapshot)' /\ touched' = touched
BY DEF AlarmInv, Walk, Begin, ReadHead, List, Stat, Open, Read, Check, Stop, Return,
       Advance, Continue, Complete

LEMMA StepAlarmInv == IInv /\ AlarmInv /\ [Next]_vars => AlarmInv'
<1> SUFFICES ASSUME IInv, AlarmInv, [Next]_vars PROVE AlarmInv'
  OBVIOUS
<1>1. CASE Begin
  <2>1. UNCHANGED <<tree, disk, head>> /\ UNCHANGED <<token, seen>>
        /\ pc = "none" /\ pc' = "head" /\ result' = "none"
        /\ touched' = (token.taken /\ touched)
    BY <1>1 DEF Begin, files
  <2>2. Now' = Now BY <2>1, NowStays
  <2> QED BY <2>1, <2>2 DEF AlarmInv, QuietInv
<1>2. CASE Walk /\ pc # "none"
  BY <1>2, WalkIsQuiet, WalkForgets DEF AlarmInv
<1>3. CASE Environment /\ ~Tick
  <2>1. touched' /\ UNCHANGED walk
    BY <1>3 DEF Environment, Write, Replace, Remove, MoveHead, Other
  <2> QED BY <2>1 DEF AlarmInv, walk
<1>4. CASE Tick \/ UNCHANGED vars
  <2>1. UNCHANGED <<tree, disk, head>>
        /\ UNCHANGED <<pc, cur, before, fd, got, block, seen, token, result, touched>>
    BY <1>4 DEF Tick, vars, files, walk
  <2>2. /\ \A p \in Paths : EntryNow(p)' = EntryNow(p)
        /\ Listed' = Listed /\ Now' = Now
    BY <2>1, NowStays
  <2>3. \A upto : LooksLike(seen, upto)' <=> LooksLike(seen, upto)
    BY <2>1, <2>2 DEF LooksLike
  <2>4. (before = Meta(tree[cur]))' <=> before = Meta(tree[cur]) BY <2>1 DEF Meta
  <2> QED BY <2>1, <2>2, <2>3, <2>4 DEF AlarmInv, QuietInv
<1>5. Walk => Begin \/ pc # "none"
  BY DEF Walk, ReadHead, List, Stat, Open, Read, Check
<1> QED BY <1>1, <1>2, <1>3, <1>4, <1>5 DEF Next

\* A proposal is called stale, or a walk unstable, only if somebody wrote since
\* its capture began, for any tree and any number of ticks.
THEOREM AlarmsAreTrue == Spec => []NoFalseAlarm
<1>1. Init => AlarmInv BY DEF Init, AlarmInv, QuietInv
<1>2. AlarmInv => NoFalseAlarm BY DEF AlarmInv, QuietInv, NoFalseAlarm
<1> QED BY <1>1, <1>2, IInvHolds, StepAlarmInv, PTL DEF Spec
=============================================================================
