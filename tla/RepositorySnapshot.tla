-------------------------- MODULE RepositorySnapshot --------------------------
(***************************************************************************)
(* RepositorySnapshot::capture and revalidate                              *)
(* (crates/premonition-core/src/snapshot.rs): a walk over HEAD, the index  *)
(* and every file Git lists, one system call per step, while editors and   *)
(* Git itself write to the same tree.                                      *)
(*                                                                         *)
(* A file is an inode: some blocks of data, and a stamp, which stands for  *)
(* all the metadata that is hashed: every write sets ctime to the present  *)
(* tick of the kernel's clock.  Writes within one tick leave equal stamps. *)
(***************************************************************************)
EXTENDS Naturals, FiniteSets

CONSTANTS
    N,         \* number of files of the tree, in the order of their names
    Tracked,   \* files that are in Git's index
    Inodes,
    Blocks,    \* reads it takes to read one file
    Data,      \* what a block may hold
    NoInode,
    MaxFiles,  \* MAX_SNAPSHOT_FILES
    MaxWrites, \* bound on writes by others
    MaxClock   \* bound on ticks

Files == 1..N
Index == 0
Paths == {Index} \cup Files

ASSUME SizeAssumption == N \in Nat \ {0} /\ Blocks \in Nat \ {0} /\ MaxFiles \in Nat
ASSUME BoundAssumption == MaxWrites \in Nat /\ MaxClock \in Nat
ASSUME TrackedAssumption == Tracked \subseteq Files
ASSUME InodeAssumption == NoInode \notin Inodes

VARIABLES
    tree,    \* the directory: the inode of each path, or NoInode
    disk,    \* what is in each inode
    head,    \* HEAD: the commit and the branch
    clock,   \* the kernel's clock
    pc,      \* the next system call of the walk
    cur,     \* the path it is at
    before,  \* lstat of that path
    fd,      \* the inode that is open
    got,     \* blocks read from it
    block,   \* the block it reads next
    seen,    \* what this walk has hashed so far
    token,   \* the snapshot the proposal is bound to, and whether there is one
    result,  \* what the last walk returned
    atList,  \* history: the files and the clock when revalidate listed them
    touched, \* history: somebody wrote since the capture began
    writes   \* history: number of writes

files == <<tree, disk, head, clock>>
walk == <<pc, cur, before, fd, got, block, seen>>
vars == <<files, walk, token, result, atList, touched, writes>>

Content == [1..Blocks -> Data]
InodeState == [data : Content, stamp : Nat]
Meta(n) == [inode |-> n, stamp |-> disk[n].stamp]
NoMeta == [inode |-> NoInode, stamp |-> 0]
Metas == [inode : Inodes \cup {NoInode}, stamp : Nat]
Reads == [1..Blocks -> Data \cup {"unread"}]
Unread == [b \in 1..Blocks |-> "unread"]

\* What is hashed of a path: "missing", or the file's metadata and data.
Missing == [there |-> FALSE]
Hashed(meta, data) == [there |-> TRUE, meta |-> meta, data |-> data]
Entries == {Missing} \cup [there : {TRUE}, meta : Metas, data : Reads]

Snapshots ==
    [head : Nat, names : SUBSET Files, entry : [Paths -> Entries]]
NoSnapshot == [head |-> 0, names |-> {}, entry |-> [p \in Paths |-> Missing]]

Results == {"none", "ok", "repository", "git", "too_large", "io", "unstable",
            "stale"}
PCs == {"none", "head", "stat", "open", "read", "check", "list"}

TypeOK ==
    /\ tree \in [Paths -> Inodes \cup {NoInode}]
    /\ disk \in [Inodes -> InodeState]
    /\ head \in Nat
    /\ clock \in Nat
    /\ pc \in PCs
    /\ cur \in Paths
    /\ before \in Metas
    /\ fd \in Inodes \cup {NoInode}
    /\ got \in Reads
    /\ block \in 1..Blocks
    /\ seen \in Snapshots
    /\ token \in [taken : BOOLEAN, at : Nat, shot : Snapshots]
    /\ result \in Results
    /\ atList \in [at : Nat, file : [Files -> Entries]]
    /\ touched \in BOOLEAN
    /\ writes \in Nat

Init ==
    /\ tree \in [Paths -> Inodes \cup {NoInode}]
    /\ tree[Index] # NoInode
    /\ \A p, q \in Paths : p # q /\ tree[p] = tree[q] => tree[p] = NoInode
    /\ \E d \in Data :
         disk = [n \in Inodes |-> [data |-> [b \in 1..Blocks |-> d], stamp |-> 1]]
    /\ head = 0
    /\ clock = 1
    /\ pc = "none"
    /\ cur = Index
    /\ before = NoMeta
    /\ fd = NoInode
    /\ got = Unread
    /\ block = 1
    /\ seen = NoSnapshot
    /\ token = [taken |-> FALSE, at |-> 0, shot |-> NoSnapshot]
    /\ result = "none"
    /\ atList = [at |-> 0, file |-> [i \in Files |-> Missing]]
    /\ touched = FALSE
    /\ writes = 0

-----------------------------------------------------------------------------
(* The walk.                                                               *)

\* The first walk of a proposal is its capture, every later one revalidates it.
\* A proposal takes an agent's run, so a later tick of the clock.
Begin ==
    /\ pc = "none"
    /\ token.taken => clock > token.at
    /\ pc' = "head"
    /\ result' = "none"
    /\ touched' = (token.taken /\ touched)
    /\ UNCHANGED <<files, cur, before, fd, got, block, seen, token, atList, writes>>

\* No file is open.
Closed ==
    /\ before' = NoMeta
    /\ fd' = NoInode
    /\ got' = Unread
    /\ block' = 1

\* The walk is over.
Return(r) ==
    /\ pc' = "none"
    /\ cur' = Index
    /\ seen' = NoSnapshot
    /\ result' = r

Stop(r) ==
    /\ Return(r)
    /\ Closed
    /\ UNCHANGED token

\* assert_operation_safe, and rev-parse for the commit and the branch.
ReadHead ==
    /\ pc = "head"
    /\ \/ \E r \in {"repository", "git"} : Stop(r)
       \/ /\ pc' = "stat"
          /\ seen' = [seen EXCEPT !.head = head]
          /\ UNCHANGED <<cur, before, fd, got, block, token, result>>
    /\ UNCHANGED <<files, atList, touched, writes>>

\* The snapshot is complete: the first becomes the token, a later one is
\* compared with it.
Complete(shot) ==
    IF token.taken
    THEN /\ Return(IF shot = token.shot THEN "ok" ELSE "stale")
         /\ UNCHANGED token
    ELSE /\ Return("ok")
         /\ token' = [taken |-> TRUE, at |-> clock, shot |-> shot]

Continue(p, i, shot) ==
    /\ pc' = p
    /\ cur' = i
    /\ seen' = shot
    /\ UNCHANGED <<token, result>>

\* Mutant of Advance: the loop runs one path too far.
AdvanceTooFar(shot) ==
    /\ \/ cur = Index /\ Continue("list", cur, shot)
       \/ cur \in Files /\ Continue("stat", cur + 1, shot)
    /\ Closed

\* On to the next path: after the index the files are listed.
Advance(shot) ==
    /\ \/ cur = Index /\ Continue("list", cur, shot)
       \/ cur \in Files \ {N} /\ Continue("stat", cur + 1, shot)
       \/ cur = N /\ Complete(shot)
    /\ Closed

\* git ls-files --cached --others, and the ceiling on the number of files.
Listed == {i \in Files : i \in Tracked \/ tree[i] # NoInode}
FileAt(i) ==
    IF tree[i] = NoInode THEN Missing
    ELSE Hashed(Meta(tree[i]), disk[tree[i]].data)
List ==
    /\ pc = "list"
    /\ \/ Stop("git")
       \/ Cardinality(Listed) > MaxFiles /\ Stop("too_large")
       \/ /\ Cardinality(Listed) <= MaxFiles
          /\ Continue("stat", 1, [seen EXCEPT !.names = Listed])
          /\ UNCHANGED <<before, fd, got, block>>
    /\ atList' = IF token.taken
                 THEN [at |-> clock, file |-> [i \in Files |-> FileAt(i)]]
                 ELSE atList
    /\ UNCHANGED <<files, touched, writes>>

\* symlink_metadata; the index has to be there.
Stat ==
    /\ pc = "stat"
    /\ \/ /\ cur \in Files
          /\ cur \notin seen.names \/ tree[cur] = NoInode
          /\ Advance(seen)
       \/ cur = Index /\ tree[cur] = NoInode /\ Stop("io")
       \/ /\ cur = Index \/ cur \in seen.names
          /\ tree[cur] # NoInode
          /\ before' = Meta(tree[cur])
          /\ pc' = "open"
          /\ UNCHANGED <<cur, fd, got, block, seen, token, result>>
    /\ UNCHANGED <<files, atList, touched, writes>>

\* File::open follows the path again: it may be another inode by now.
Open ==
    /\ pc = "open"
    /\ \/ tree[cur] = NoInode /\ Stop("io")
       \/ /\ tree[cur] # NoInode
          /\ fd' = tree[cur]
          /\ pc' = "read"
          /\ UNCHANGED <<cur, before, got, block, seen, token, result>>
    /\ UNCHANGED <<files, atList, touched, writes>>

\* One read of the open inode.
Read ==
    /\ pc = "read"
    /\ got' = [got EXCEPT ![block] = disk[fd].data[block]]
    /\ IF block < Blocks THEN block' = block + 1 /\ UNCHANGED pc
       ELSE pc' = "check" /\ UNCHANGED block
    /\ UNCHANGED <<files, cur, before, fd, seen, token, result, atList, touched,
                   writes>>

\* Mutant of HashedFile: the access time is hashed with the rest.
HashedAccess(meta, data) ==
    Hashed(IF cur = Index THEN NoMeta ELSE [meta EXCEPT !.stamp = clock], data)

\* Of the index only the data is hashed, of a file its metadata too.
HashedFile(meta, data) == Hashed(IF cur = Index THEN NoMeta ELSE meta, data)

\* Mutant of Check: what was opened is not compared with what was there.
CheckNothing ==
    /\ pc = "check"
    /\ Advance([seen EXCEPT !.entry[cur] = HashedFile(before, got)])
    /\ UNCHANGED <<files, atList, touched, writes>>

\* fstat of what is open; a file that changed since lstat is Unstable.
Check ==
    /\ pc = "check"
    /\ \/ before # Meta(fd) /\ Stop("unstable")
       \/ /\ before = Meta(fd)
          /\ Advance([seen EXCEPT !.entry[cur] = HashedFile(before, got)])
    /\ UNCHANGED <<files, atList, touched, writes>>

Walk == Begin \/ ReadHead \/ List \/ Stat \/ Open \/ Read \/ Check

-----------------------------------------------------------------------------
(* The others: editors, Git, the kernel's clock.                           *)

Linked(n) == \E p \in Paths : tree[p] = n

Other ==
    /\ writes < MaxWrites
    /\ writes' = writes + 1
    /\ touched' = TRUE
    /\ UNCHANGED <<clock, walk, token, result, atList>>

\* One block is written in place.
Write(p, b, d) ==
    /\ tree[p] # NoInode
    /\ disk' = [disk EXCEPT ![tree[p]] =
           [data |-> [@.data EXCEPT ![b] = d], stamp |-> clock]]
    /\ Other
    /\ UNCHANGED <<tree, head>>

\* Losing its last name changes the ctime of an inode that somebody has open.
Unlinked(p) ==
    IF tree[p] = NoInode THEN disk
    ELSE [disk EXCEPT ![tree[p]].stamp = clock]

\* A new file is renamed over the path; its inode may have been another's.
Replace(p, n, c) ==
    /\ ~Linked(n)
    /\ n # fd
    /\ tree' = [tree EXCEPT ![p] = n]
    /\ disk' = [Unlinked(p) EXCEPT ![n] = [data |-> c, stamp |-> clock]]
    /\ Other
    /\ UNCHANGED head

Remove(p) ==
    /\ tree[p] # NoInode
    /\ tree' = [tree EXCEPT ![p] = NoInode]
    /\ disk' = Unlinked(p)
    /\ Other
    /\ UNCHANGED head

\* A commit or a checkout; its changes of files are writes like any other.
MoveHead ==
    /\ head' = head + 1
    /\ Other
    /\ UNCHANGED <<tree, disk>>

Tick ==
    /\ clock < MaxClock
    /\ clock' = clock + 1
    /\ UNCHANGED <<tree, disk, head, walk, token, result, atList, touched, writes>>

Environment ==
    \/ \E p \in Paths, b \in 1..Blocks, d \in Data : Write(p, b, d)
    \/ \E p \in Paths, n \in Inodes, c \in Content : Replace(p, n, c)
    \/ \E p \in Paths : Remove(p)
    \/ MoveHead
    \/ Tick

Next == Walk \/ Environment

Spec == Init /\ [][Next]_vars

-----------------------------------------------------------------------------
\* A revalidation that succeeds found one moment, when Git listed the files,
\* at which the tree was what the proposal was made for: every file the token
\* holds was there with that metadata and data, and no file was there that the
\* token does not name.  The walks are not atomic, a read may be torn, and
\* writes within a tick leave no trace; none of this gets through.  Absence has
\* no ctime, so of a file the token has as missing nothing is said.
FreshMeansUnchanged ==
    result = "ok" /\ token.at < atList.at =>
        \A i \in Files :
            /\ token.shot.entry[i].there => atList.file[i] = token.shot.entry[i]
            /\ atList.file[i].there => i \in token.shot.names

\* A proposal is never called stale, or a walk unstable, when nobody wrote
\* anything since the capture began.
NoFalseAlarm == result \in {"stale", "unstable"} => touched
=============================================================================
