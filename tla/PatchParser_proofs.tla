-------------------------- MODULE PatchParser_proofs --------------------------
(***************************************************************************)
(* Whatever the paths, the ceilings and the counts, Git changes exactly    *)
(* the files ParsedPatch::parse found in a patch it accepts.               *)
(***************************************************************************)
EXTENDS PatchParser, FiniteSetTheorems, TLAPS

-----------------------------------------------------------------------------
(* The inductive invariant.                                                *)

\* A section has a safe path.
PathInv == state # "header" => path \in Paths

\* As long as the hunk is not longer than announced, both readers are at the
\* same place of the same file; once it is longer, parse() can only reject.
SameHunk ==
    done.old <= want.old /\ done.new <= want.new =>
        /\ git = "body"
        /\ gitChange = Change(path, declared)
        /\ left = Pair(want.old - done.old, want.new - done.new)
        /\ touched = Sections

SameView ==
    verdict = "reading" =>
        /\ state = "header" => git = "find" /\ touched = files
        /\ state \in {"metadata", "names", "hunks"} =>
               git = "header" /\ gitChange = Change(path, declared) /\ touched = files
        /\ state = "body" => SameHunk

IInv == TypeOK /\ PathInv /\ SameView /\ GitAgrees

-----------------------------------------------------------------------------
(* Types.                                                                  *)

ParserTypes ==
    /\ verdict \in {"reading", "accepted", "rejected"}
    /\ state \in {"header", "metadata", "names", "hunks", "body"}
    /\ path \in Paths \cup {Foreign}
    /\ declared \in Kinds
    /\ indexed \in BOOLEAN
    /\ old \in Names
    /\ want \in Pairs
    /\ done \in Pairs
    /\ hunks \in Nat
    /\ files \subseteq [path : Paths, kind : Kinds]
    /\ PathInv

ReaderTypes ==
    /\ git \in {"find", "header", "---", "+++", "body", "corrupt"}
    /\ gitChange \in [path : Names, kind : Kinds]
    /\ left \in Pairs
    /\ touched \subseteq [path : Names, kind : Kinds]

LEMMA TypesSplit == TypeOK /\ PathInv <=> ParserTypes /\ ReaderTypes
BY DEF TypeOK, ParserTypes, ReaderTypes

\* The fields of a line have the types the two readers rely on.
LEMMA LineTypes ==
    ASSUME NEW l \in Lines
    PROVE  /\ l.type = "diff" =>
                  l.old \in Paths \cup {Foreign} /\ l.new \in Paths \cup {Foreign}
           /\ l.type \in {"---", "+++"} => l.name \in Names
           /\ l.type = "@@" => l.old \in Nat /\ l.new \in Nat
<1>1. CASE l \in [type : {"diff"}, old : Paths \cup {Foreign}, new : Paths \cup {Foreign}]
  BY <1>1
<1>2. CASE l \in [type : {"---", "+++"}, name : Names]
  BY <1>2
<1>3. CASE l \in [type : {"@@"}, old : Counts, new : Counts]
  BY <1>3, LimitAssumption DEF Counts
<1>4. CASE l \in [type : {"new mode", "deleted mode", "index", "context", "-", "+",
                          "no newline", "other"}]
  BY <1>4
<1> QED BY <1>1, <1>2, <1>3, <1>4 DEF Lines

LEMMA ParseTypes ==
    ASSUME ParserTypes, NEW l \in Lines, Parse(l)
    PROVE  ParserTypes'
<1>t. /\ l.type = "diff" => l.old \in Paths \cup {Foreign} /\ l.new \in Paths \cup {Foreign}
      /\ l.type \in {"---", "+++"} => l.name \in Names
      /\ l.type = "@@" => l.old \in Nat /\ l.new \in Nat
  BY LineTypes
<1> USE <1>t DEF ParserTypes, PathInv, Reject, parser
<1>1. CASE FirstFile(l)
  BY <1>1 DEF FirstFile, OpenFile, SafeHeader, Kinds
<1>2. CASE Metadata(l) BY <1>2 DEF Metadata, Kinds
<1>3. CASE NewName(l) BY <1>3 DEF NewName
<1>4. CASE FirstHunk(l) BY <1>4 DEF FirstHunk, OpenHunk, Pair, Pairs
<1>5. CASE Body(l)
  <2>1. CASE CountLine(l)
    <3>1. done' \in Pairs BY <2>1 DEF CountLine, Pair, Pairs, Plus
    <3> QED BY <1>5, <2>1, <3>1 DEF CountLine
  <2>2. CASE l.type = "@@" /\ OpenHunk(l, hunks + 1)
    <3>1. want' \in Pairs /\ done' \in Pairs /\ hunks' \in Nat
      BY <2>2 DEF OpenHunk, Pair, Pairs
    <3>2. state = "body" BY <1>5 DEF Body
    <3> QED BY <2>2, <3>1, <3>2 DEF OpenHunk
  <2>3. CASE OpenFile(l, Sections, hunks + 1)
    <3>1. state = "body" BY <1>5 DEF Body
    <3>2. Sections \subseteq [path : Paths, kind : Kinds]
      BY <3>1 DEF Sections, Change
    <3>3. CASE Reject BY <3>3
    <3>4. CASE /\ SafeHeader(l)
               /\ state' = "metadata"
               /\ path' = l.old
               /\ declared' = "modify"
               /\ indexed' = FALSE
               /\ files' = Sections
               /\ hunks' = hunks + 1
               /\ UNCHANGED <<verdict, old, want, done>>
      <4>1. l.old \in Paths BY <3>4 DEF SafeHeader
      <4>2. hunks' \in Nat BY <3>4
      <4>3. files' \subseteq [path : Paths, kind : Kinds] BY <3>2, <3>4
      <4> QED BY <3>4, <4>1, <4>2, <4>3 DEF Kinds
    <3> QED BY <2>3, <3>3, <3>4 DEF OpenFile
  <2>4. CASE Reject BY <2>4
  <2> QED BY <1>5, <2>1, <2>2, <2>3, <2>4 DEF Body
<1> QED BY <1>1, <1>2, <1>3, <1>4, <1>5 DEF Parse

LEMMA GitTypes ==
    ASSUME ReaderTypes, NEW l \in Lines, Git(l)
    PROVE  ReaderTypes'
<1>t. /\ l.type = "diff" => l.old \in Paths \cup {Foreign} /\ l.new \in Paths \cup {Foreign}
      /\ l.type \in {"---", "+++"} => l.name \in Names
      /\ l.type = "@@" => l.old \in Nat /\ l.new \in Nat
  BY LineTypes
<1> USE <1>t DEF ReaderTypes, reader, Names
<1>1. CASE GitFind(l) BY <1>1 DEF GitFind, Change, Kinds
<1>2. CASE GitHunk(l) /\ l.type = "@@" BY <1>2 DEF GitHunk, Pair, Pairs
<1>3. CASE UNCHANGED reader BY <1>3
<1>4. CASE git = "header"
  <2>1. CASE /\ gitChange' = Change(gitChange.path,
                     IF l.type = "new mode" THEN "add" ELSE "delete")
             /\ UNCHANGED <<git, left, touched>>
    BY <2>1 DEF Change, Kinds
  <2>2. GitHeader(l) BY <1>4 DEF Git
  <2> QED BY <1>1, <1>2, <1>3, <2>1, <2>2 DEF GitHeader
<1>5. CASE git \in {"---", "+++"}
  BY <1>1, <1>2, <1>3, <1>5 DEF Git, GitNames, Change, Kinds
<1>6. CASE git = "body"
  <2>1. CASE /\ BodyLine(l)
             /\ Plus(Deletes(l)) <= left.old
             /\ Plus(Adds(l)) <= left.new
             /\ left' = Pair(left.old - Plus(Deletes(l)), left.new - Plus(Adds(l)))
             /\ UNCHANGED <<git, gitChange, touched>>
    BY <2>1 DEF Pair, Pairs, Plus
  <2>2. CASE git' = "corrupt" /\ UNCHANGED <<gitChange, left, touched>>
    BY <2>2
  <2> QED BY <1>1, <1>2, <1>3, <1>6, <2>1, <2>2 DEF Git, GitBody
<1> QED BY <1>1, <1>3, <1>4, <1>5, <1>6 DEF Git

LEMMA StepTypes == ParserTypes /\ ReaderTypes /\ [Next]_vars => ParserTypes' /\ ReaderTypes'
<1> SUFFICES ASSUME ParserTypes, ReaderTypes, [Next]_vars
             PROVE  ParserTypes' /\ ReaderTypes'
  OBVIOUS
<1>1. CASE End
  <2>1. state = "body" => Sections \subseteq [path : Paths, kind : Kinds]
    BY DEF Sections, Change, ParserTypes, PathInv
  <2> QED BY <1>1, <2>1
          DEF End, ParseEnd, Reject, parser, reader, ParserTypes, ReaderTypes, PathInv
<1>2. ASSUME NEW l \in Lines, Line(l) PROVE ParserTypes' /\ ReaderTypes'
  BY <1>2, ParseTypes, GitTypes DEF Line
<1>3. CASE UNCHANGED vars
  BY <1>3 DEF vars, parser, reader, ParserTypes, ReaderTypes, PathInv
<1> QED BY <1>1, <1>2, <1>3 DEF Next

-----------------------------------------------------------------------------
(* The two readers agree.                                                  *)

\* Where both readers are after a complete hunk.
AtHunkEnd ==
    /\ git = "body"
    /\ gitChange = Change(path, declared)
    /\ left = Pair(0, 0)
    /\ touched = Sections

LEMMA EndOfHunk ==
    ASSUME ParserTypes, SameHunk, CountsMatch
    PROVE  AtHunkEnd
BY DEF ParserTypes, SameHunk, CountsMatch, AtHunkEnd, Pairs, Pair

LEMMA HunkStart ==
    ASSUME ParserTypes, NEW l \in Lines, NEW n, OpenHunk(l, n), GitHunk(l),
           verdict = "reading", l.type = "@@",
           gitChange = Change(path, declared),
           touched \cup {gitChange} = Sections
    PROVE  SameView'
<1>1. l.old \in Nat /\ l.new \in Nat BY LineTypes
<1>2. left' = Pair(want'.old - done'.old, want'.new - done'.new)
  BY <1>1 DEF OpenHunk, GitHunk, Pair
<1>3. SameHunk'
  BY <1>2 DEF SameHunk, OpenHunk, GitHunk, Sections
<1> QED BY <1>3 DEF SameView, OpenHunk

LEMMA CountKeepsHunk ==
    ASSUME ParserTypes, ReaderTypes, SameHunk, NEW l \in Lines, CountLine(l),
           BodyLine(l), Git(l)
    PROVE  SameHunk'
<1> SUFFICES ASSUME done'.old <= want'.old, done'.new <= want'.new
             PROVE  /\ git' = "body"
                    /\ gitChange' = Change(path', declared')
                    /\ left' = Pair(want'.old - done'.old, want'.new - done'.new)
                    /\ touched' = Sections'
  BY DEF SameHunk
<1>1. /\ done.old \in Nat /\ done.new \in Nat
      /\ want.old \in Nat /\ want.new \in Nat
  BY DEF ParserTypes, Pairs
<1>2. /\ done'.old = done.old + Plus(Deletes(l))
      /\ done'.new = done.new + Plus(Adds(l))
      /\ want' = want /\ path' = path /\ declared' = declared /\ files' = files
  BY DEF CountLine, Pair
<1>3. Plus(Deletes(l)) \in {0, 1} /\ Plus(Adds(l)) \in {0, 1}
  BY DEF Plus
<1>4. done.old <= want.old /\ done.new <= want.new
  BY <1>1, <1>2, <1>3
<1>5. /\ git = "body" /\ gitChange = Change(path, declared) /\ touched = Sections
      /\ left = Pair(want.old - done.old, want.new - done.new)
  BY <1>4 DEF SameHunk
<1>6. left.old = want.old - done.old /\ left.new = want.new - done.new
  BY <1>5 DEF Pair
<1>7. Sections' = Sections BY <1>2 DEF Sections
<1>8. GitBody(l) BY <1>5 DEF Git
<1>9. CASE l.type = "no newline"
  <2>1. Plus(Deletes(l)) = 0 /\ Plus(Adds(l)) = 0
    BY <1>9 DEF Plus, Deletes, Adds
  <2>2. done'.old = done.old /\ done'.new = done.new BY <1>1, <1>2, <2>1
  <2>3. UNCHANGED reader BY <1>8, <1>9 DEF GitBody
  <2> QED BY <1>2, <1>5, <1>7, <2>2, <2>3 DEF reader
<1>10. CASE l.type # "no newline"
  <2>1. Plus(Deletes(l)) = 1 \/ Plus(Adds(l)) = 1
    BY <1>10 DEF BodyLine, Plus
  <2>2. Plus(Deletes(l)) <= left.old /\ Plus(Adds(l)) <= left.new
    BY <1>1, <1>2, <1>3, <1>6
  <2>3. left # Pair(0, 0)
    BY <1>1, <1>3, <1>6, <2>1, <2>2 DEF Pair
  <2>4. /\ left' = Pair(left.old - Plus(Deletes(l)), left.new - Plus(Adds(l)))
        /\ UNCHANGED <<git, gitChange, touched>>
    BY <1>8, <1>10, <2>2, <2>3 DEF GitBody
  <2>5. /\ left.old - Plus(Deletes(l)) = want'.old - done'.old
        /\ left.new - Plus(Adds(l)) = want'.new - done'.new
    BY <1>1, <1>2, <1>3, <1>6
  <2> QED BY <1>2, <1>5, <1>7, <2>4, <2>5
<1> QED BY <1>9, <1>10

LEMMA LineKeepsView ==
    ASSUME ParserTypes, ReaderTypes, SameView, NEW l \in Lines, Line(l)
    PROVE  SameView'
<1> USE DEF ParserTypes, ReaderTypes, SameView, parser, reader, Reject, Pairs
<1>a. verdict = "reading" /\ Parse(l) /\ Git(l) BY DEF Line
<1>1. CASE FirstFile(l)
  BY <1>1, <1>a DEF FirstFile, OpenFile, SafeHeader, Git, GitFind, Change
<1>2. CASE Metadata(l)
  <2>1. state = "metadata" /\ git = "header" /\ GitHeader(l)
    BY <1>2, <1>a DEF Metadata, Git
  <2>2. gitChange = Change(path, declared) /\ gitChange.path = path /\ touched = files
    BY <2>1, <1>a DEF Change
  <2>3. CASE l.type = "---" BY <1>2, <2>1, <2>2, <2>3 DEF Metadata, GitHeader
  <2>4. CASE l.type \in {"new mode", "deleted mode"}
    BY <1>2, <2>1, <2>2, <2>4 DEF Metadata, GitHeader
  <2>5. CASE l.type = "index" BY <1>2, <2>1, <2>2, <2>5 DEF Metadata, GitHeader
  <2>6. CASE l.type \notin {"---", "new mode", "deleted mode", "index"}
    BY <1>2, <2>6 DEF Metadata
  <2> QED BY <2>3, <2>4, <2>5, <2>6
<1>3. CASE NewName(l)
  BY <1>3, <1>a DEF NewName, Git, GitHeader
<1>4. CASE FirstHunk(l)
  <2>1. CASE l.type = "@@"
    <3>1. /\ state = "hunks" /\ git = "header"
          /\ gitChange = Change(path, declared) /\ touched = files
      BY <1>4, <1>a DEF FirstHunk
    <3>2. OpenHunk(l, hunks) /\ GitHunk(l)
      BY <1>4, <1>a, <2>1, <3>1 DEF FirstHunk, Git, GitHeader
    <3>3. touched \cup {gitChange} = Sections BY <3>1 DEF Sections
    <3> HIDE DEF SameView
    <3> QED BY <2>1, <3>1, <3>2, <3>3, HunkStart, <1>a DEF ParserTypes
  <2>2. CASE l.type # "@@" BY <1>4, <2>2 DEF FirstHunk
  <2> QED BY <2>1, <2>2
<1>5. CASE Body(l)
  <2>a. state = "body" /\ SameHunk BY <1>5, <1>a DEF Body
  <2>1. CASE CountLine(l) /\ BodyLine(l)
    <3>1. verdict' = verdict /\ state' = "body" BY <2>1, <2>a DEF CountLine
    <3>2. SameHunk' BY <2>1, <2>a, <1>a, CountKeepsHunk
    <3> QED BY <3>1, <3>2
  <2>2. CASE l.type = "@@" /\ HunkFits /\ OpenHunk(l, hunks + 1)
    <3>1. AtHunkEnd BY <2>2, <2>a, EndOfHunk DEF HunkFits
    <3>2. GitHunk(l) BY <2>2, <3>1, <1>a DEF Git, GitBody, AtHunkEnd
    <3>3. touched \cup {gitChange} = Sections BY <3>1 DEF AtHunkEnd, Sections
    <3> QED BY <2>2, <3>1, <3>2, <3>3, HunkStart, <1>a DEF AtHunkEnd
  <2>3. CASE l.type = "diff" /\ SectionFits /\ OpenFile(l, Sections, hunks + 1)
    <3>1. AtHunkEnd BY <2>3, <2>a, EndOfHunk DEF SectionFits, HunkFits
    <3>2. GitFind(l) BY <2>3, <3>1, <1>a DEF Git, GitBody, AtHunkEnd
    <3> QED BY <2>3, <3>1, <3>2 DEF OpenFile, SafeHeader, GitFind, AtHunkEnd
  <2>4. CASE Reject BY <2>4
  <2> QED BY <1>5, <2>1, <2>2, <2>3, <2>4 DEF Body
<1> QED BY <1>a, <1>1, <1>2, <1>3, <1>4, <1>5 DEF Parse

-----------------------------------------------------------------------------
(* The theorems.                                                           *)

LEMMA InitIInv == Init => IInv
<1> SUFFICES ASSUME Init PROVE IInv
  OBVIOUS
<1>1. ParserTypes
  BY DEF Init, ParserTypes, PathInv, Names, Kinds, Pairs, Pair
<1>2. ReaderTypes
  <2>1. gitChange \in [path : Names, kind : Kinds]
    BY DEF Init, Names, Kinds, Change
  <2>2. left \in Pairs BY DEF Init, Pairs, Pair
  <2> QED BY <2>1, <2>2 DEF Init, ReaderTypes
<1>3. SameView /\ GitAgrees BY DEF Init, SameView, GitAgrees
<1> QED BY <1>1, <1>2, <1>3, TypesSplit DEF IInv

LEMMA StepIInv == IInv /\ [Next]_vars => IInv'
<1> SUFFICES ASSUME IInv, [Next]_vars PROVE IInv'
  OBVIOUS
<1>a. ParserTypes /\ ReaderTypes /\ SameView /\ GitAgrees
  BY TypesSplit DEF IInv
<1>b. ParserTypes' /\ ReaderTypes' BY <1>a, StepTypes
<1>c. TypeOK' /\ PathInv' BY <1>b, TypesSplit DEF TypeOK, PathInv, ParserTypes, ReaderTypes
<1>1. CASE End
  <2>1. verdict = "reading" /\ UNCHANGED reader BY <1>1 DEF End
  <2>2. CASE state = "body" /\ SectionFits
    <3>1. AtHunkEnd
      BY <1>a, <2>1, <2>2, EndOfHunk DEF SameView, SectionFits, HunkFits
    <3>2. verdict' = "accepted" /\ files' = Sections
      BY <1>1, <2>2 DEF End, ParseEnd
    <3> QED BY <1>c, <2>1, <3>1, <3>2 DEF IInv, SameView, GitAgrees, AtHunkEnd, reader
  <2>3. CASE ~(state = "body" /\ SectionFits)
    <3>1. verdict' = "rejected" BY <1>1, <2>3 DEF End, ParseEnd, Reject
    <3> QED BY <1>c, <3>1 DEF IInv, SameView, GitAgrees
  <2> QED BY <2>2, <2>3
<1>2. ASSUME NEW l \in Lines, Line(l) PROVE IInv'
  <2>1. SameView' BY <1>a, <1>2, LineKeepsView
  <2>2. verdict' # "accepted"
    BY <1>2 DEF Line, Parse, FirstFile, OpenFile, Metadata, NewName, FirstHunk,
       OpenHunk, Body, CountLine, Reject
  <2> QED BY <1>c, <2>1, <2>2 DEF IInv, GitAgrees
<1>3. CASE UNCHANGED vars
  BY <1>a, <1>c, <1>3
     DEF vars, parser, reader, IInv, SameView, SameHunk, GitAgrees, Sections
<1> QED BY <1>1, <1>2, <1>3 DEF Next

\* Every state of the two readers is well typed; in particular no finished
\* section has an unsafe path, and Git's counts never become negative.
THEOREM TypeCorrect == Spec => []TypeOK
<1>1. IInv => TypeOK BY DEF IInv
<1> QED BY <1>1, InitIInv, StepIInv, PTL DEF Spec

\* Of an accepted patch Git changes the files parse() found and no other.
THEOREM AcceptedIsWhatGitReads == Spec => []GitAgrees
<1>1. IInv => GitAgrees BY DEF IInv
<1> QED BY <1>1, InitIInv, StepIInv, PTL DEF Spec
-----------------------------------------------------------------------------
(* The ceilings.                                                           *)

Named == {f.path : f \in files}

\* Finished sections have different paths and a hunk each, within the ceilings;
\* the path of the open section is none of theirs.
Counted ==
    /\ IsFiniteSet(files) /\ IsFiniteSet(Named)
    /\ Cardinality(Named) = Cardinality(files)
    /\ Cardinality(files) <= MaxFiles
    /\ Cardinality(files) <= hunks
    /\ hunks <= MaxHunks
CeilingInv == verdict = "reading" => Counted /\ (state # "header" => path \notin Named)

CInv == ParserTypes /\ ReaderTypes /\ CeilingInv /\ WithinCeilings

\* Finishing a section: one file and one hunk more.
LEMMA SectionEnds ==
    ASSUME ParserTypes, Counted, path \notin Named, SectionFits,
           files' = Sections, hunks' = hunks + 1
    PROVE  Counted' /\ Cardinality(files') >= 1 /\ Named' = Named \cup {path}
<1> USE LimitAssumption
<1> DEFINE new == Change(path, declared)
<1>1. Named' = Named \cup {path}
  <2>1. new.path = path BY DEF Change
  <2>2. files' = files \cup {new} BY DEF Sections
  <2> HIDE DEF new
  <2>3. \A x : x \in Named' <=> x \in Named \/ x = path BY <2>1, <2>2 DEF Named
  <2> QED BY <2>3
<1>2. new \notin files
  <2>1. new.path = path BY DEF Change
  <2> QED BY <2>1 DEF Named
<1>3. /\ IsFiniteSet(files')
      /\ Cardinality(files') = Cardinality(files) + 1
  BY <1>2, FS_AddElement DEF Counted, Sections
<1>4. /\ IsFiniteSet(Named')
      /\ Cardinality(Named') = Cardinality(Named) + 1
  BY <1>1, FS_AddElement DEF Counted
<1>5. Cardinality(files) \in Nat /\ hunks \in Nat
  BY FS_CardinalityType DEF Counted, ParserTypes
<1>6. Cardinality(files) < MaxFiles /\ hunks < MaxHunks
  BY DEF SectionFits, HunkFits
<1> QED BY <1>1, <1>3, <1>4, <1>5, <1>6 DEF Counted

\* Nothing but verdicts and places changes.
LEMMA SameCount == ASSUME Counted, UNCHANGED <<files, hunks>> PROVE Counted' /\ Named' = Named
BY DEF Counted, Named

LEMMA LineKeepsCeiling ==
    ASSUME ParserTypes, CeilingInv, NEW l \in Lines, Line(l)
    PROVE  CeilingInv'
<1> USE DEF CeilingInv, Reject
<1>a. verdict = "reading" /\ Parse(l) /\ Counted BY DEF Line
<1> SUFFICES ASSUME verdict' = "reading"
             PROVE  Counted' /\ (state' # "header" => path' \notin Named')
  OBVIOUS
<1>1. CASE FirstFile(l)
  <2>1. path' \notin Seen /\ state = "header" /\ UNCHANGED <<files, hunks>>
    BY <1>1 DEF FirstFile, OpenFile
  <2> QED BY <1>a, <2>1, SameCount DEF Seen, Named
<1>2. CASE Metadata(l)
  BY <1>a, <1>2, SameCount DEF Metadata
<1>3. CASE NewName(l) BY <1>a, <1>3, SameCount DEF NewName
<1>4. CASE FirstHunk(l) BY <1>a, <1>4, SameCount DEF FirstHunk, OpenHunk
<1>5. CASE Body(l)
  <2>a. state = "body" /\ path \notin Named BY <1>5, <1>a DEF Body
  <2>1. CASE CountLine(l) BY <1>a, <2>1, <2>a, SameCount DEF CountLine
  <2>2. CASE HunkFits /\ OpenHunk(l, hunks + 1)
    <3>1. UNCHANGED <<files, path>> /\ hunks' = hunks + 1 BY <2>2 DEF OpenHunk
    <3>2. Cardinality(files) \in Nat /\ hunks \in Nat /\ hunks < MaxHunks
      BY <1>a, <2>2, FS_CardinalityType DEF Counted, ParserTypes, HunkFits
    <3>3. Named' = Named BY <3>1 DEF Named
    <3> QED BY <1>a, <2>a, <3>1, <3>2, <3>3, LimitAssumption DEF Counted
  <2>3. CASE SectionFits /\ OpenFile(l, Sections, hunks + 1)
    <3>1. path' \notin Seen /\ files' = Sections /\ hunks' = hunks + 1
      BY <2>3 DEF OpenFile
    <3>2. Counted' /\ Named' = Named \cup {path} BY <1>a, <2>a, <2>3, <3>1, SectionEnds
    <3> QED BY <2>a, <3>1, <3>2 DEF Seen, Named
  <2>4. CASE Reject BY <2>4
  <2> QED BY <1>5, <2>1, <2>2, <2>3, <2>4 DEF Body
<1> QED BY <1>a, <1>1, <1>2, <1>3, <1>4, <1>5 DEF Parse

LEMMA StepCInv == CInv /\ [Next]_vars => CInv'
<1> SUFFICES ASSUME CInv, [Next]_vars PROVE CInv'
  OBVIOUS
<1>a. ParserTypes' /\ ReaderTypes' BY StepTypes DEF CInv
<1>1. CASE End
  <2>1. CASE state = "body" /\ SectionFits
    <3>1. verdict = "reading" /\ files' = Sections /\ hunks' = hunks + 1
          /\ verdict' = "accepted"
      BY <1>1, <2>1 DEF End, ParseEnd
    <3>2. Counted' /\ Cardinality(files') >= 1
      BY <2>1, <3>1, SectionEnds DEF CInv, CeilingInv
    <3> QED BY <1>a, <3>1, <3>2 DEF CInv, CeilingInv, WithinCeilings, Counted, Named
  <2>2. CASE ~(state = "body" /\ SectionFits)
    <3>1. verdict' = "rejected" BY <1>1, <2>2 DEF End, ParseEnd, Reject
    <3> QED BY <1>a, <3>1 DEF CInv, CeilingInv, WithinCeilings
  <2> QED BY <2>1, <2>2
<1>2. ASSUME NEW l \in Lines, Line(l) PROVE CInv'
  <2>1. CeilingInv' BY <1>2, LineKeepsCeiling DEF CInv
  <2>2. verdict' # "accepted"
    BY <1>2 DEF Line, Parse, FirstFile, OpenFile, Metadata, NewName, FirstHunk,
       OpenHunk, Body, CountLine, Reject
  <2> QED BY <1>a, <2>1, <2>2 DEF CInv, WithinCeilings
<1>3. CASE UNCHANGED vars
  BY <1>a, <1>3 DEF vars, parser, CInv, CeilingInv, Counted, Named, WithinCeilings
<1> QED BY <1>1, <1>2, <1>3 DEF Next

\* An accepted patch names each of its files once and keeps both ceilings,
\* whatever the ceilings are.
THEOREM AcceptedFits == Spec => []WithinCeilings
<1>1. Init => CInv
  <2> SUFFICES ASSUME Init PROVE CInv
    OBVIOUS
  <2>1. ParserTypes /\ ReaderTypes BY InitIInv, TypesSplit DEF IInv
  <2>2. files = {} /\ Named = {} /\ hunks = 0 BY DEF Init, Named
  <2>3. Counted BY <2>2, FS_EmptySet, LimitAssumption DEF Counted
  <2> QED BY <2>1, <2>3 DEF Init, CInv, CeilingInv, WithinCeilings
<1>2. CInv => WithinCeilings BY DEF CInv
<1> QED BY <1>1, <1>2, StepCInv, PTL DEF Spec
=============================================================================
