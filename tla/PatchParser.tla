----------------------------- MODULE PatchParser ------------------------------
(***************************************************************************)
(* ParsedPatch::parse (crates/premonition-core/src/diff.rs) decides which  *)
(* files a candidate touches; every path check, the stage directory and    *)
(* the journal of Apply rest on that answer.  `git apply` then reads the   *)
(* same text in its own way: the parser ends a hunk at the next line that  *)
(* looks like a header, Git ends it when the counts of its header are used *)
(* up and then looks for another header, even one without `diff --git`.    *)
(*                                                                         *)
(* Both read one line per step.  A line is abstract: its role, and the     *)
(* names or counts in it.  Inside a hunk "--- x" is a deleted line "-- x". *)
(***************************************************************************)
EXTENDS Naturals, FiniteSets

CONSTANTS
    Paths,     \* paths SafePath::parse accepts
    DevNull,   \* /dev/null
    Foreign,   \* any other name: unsafe, or without its a/ or b/
    MaxFiles,  \* MAX_FILES
    MaxHunks,  \* MAX_HUNKS
    MaxCount   \* bound on the counts in a hunk header

ASSUME NameAssumption ==
    /\ DevNull \notin Paths
    /\ Foreign \notin Paths \cup {DevNull}
ASSUME LimitAssumption ==
    /\ MaxFiles \in Nat
    /\ MaxHunks \in Nat
    /\ MaxCount \in Nat

Names == Paths \cup {DevNull, Foreign}
Counts == 0..MaxCount
Lines ==
    [type : {"diff"}, old : Paths \cup {Foreign}, new : Paths \cup {Foreign}]
        \cup [type : {"---", "+++"}, name : Names]
        \cup [type : {"@@"}, old : Counts, new : Counts]
        \cup [type : {"new mode", "deleted mode", "index", "context", "-", "+",
                      "no newline", "other"}]

VARIABLES
    verdict,   \* what parse() returns
    state,     \* where parse() is in a file section
    path,      \* the path of the section
    declared,  \* declared_add, declared_delete
    indexed,   \* saw_index
    old,       \* the name after "---"
    want,      \* old_count and new_count of the hunk
    done,      \* old_seen and new_seen
    hunks,     \* total_hunks: finished hunks
    files,     \* finished sections
    git,       \* where Git is
    gitChange, \* the file whose header Git has read
    left,      \* lines Git still expects of the hunk
    touched    \* what Git changes

parser == <<state, path, declared, indexed, old, want, done, hunks, files>>
reader == <<git, gitChange, left, touched>>
vars == <<verdict, parser, reader>>

Kinds == {"modify", "add", "delete"}
Change(p, k) == [path |-> p, kind |-> k]
Pair(o, n) == [old |-> o, new |-> n]
Pairs == [old : Nat, new : Nat]

TypeOK ==
    /\ verdict \in {"reading", "accepted", "rejected"}
    /\ state \in {"header", "metadata", "names", "hunks", "body"}
    /\ path \in Paths \cup {Foreign}
    /\ declared \in Kinds
    /\ indexed \in BOOLEAN
    /\ old \in Names
    /\ want \in Pairs
    /\ done \in Pairs
    /\ hunks \in Nat
    /\ files \subseteq [path : Paths, kind : Kinds]
    /\ git \in {"find", "header", "---", "+++", "body", "corrupt"}
    /\ gitChange \in [path : Names, kind : Kinds]
    /\ left \in Pairs
    /\ touched \subseteq [path : Names, kind : Kinds]

Init ==
    /\ verdict = "reading"
    /\ state = "header"
    /\ path = Foreign
    /\ declared = "modify"
    /\ indexed = FALSE
    /\ old = Foreign
    /\ want = Pair(0, 0)
    /\ done = Pair(0, 0)
    /\ hunks = 0
    /\ files = {}
    /\ git = "find"
    /\ gitChange = Change(Foreign, "modify")
    /\ left = Pair(0, 0)
    /\ touched = {}

-----------------------------------------------------------------------------
(* ParsedPatch::parse.                                                     *)

\* Any Err: the caller treats all of them alike.
Reject == verdict' = "rejected" /\ UNCHANGED parser

Seen == {f.path : f \in files} \cup (IF state = "header" THEN {} ELSE {path})

\* Mutant of SafeHeader: the names agree but are not parsed as a SafePath.
AnyHeader(l) == l.old = l.new

SafeHeader(l) == l.old = l.new /\ l.old \in Paths

\* parse_diff_header and `seen`; sections and n: what is finished before it.
OpenFile(l, sections, n) ==
    IF l.type = "diff" /\ SafeHeader(l) /\ l.old \notin Seen
    THEN /\ state' = "metadata"
         /\ path' = l.old
         /\ declared' = "modify"
         /\ indexed' = FALSE
         /\ files' = sections
         /\ hunks' = n
         /\ UNCHANGED <<verdict, old, want, done>>
    ELSE Reject

FirstFile(l) == state = "header" /\ OpenFile(l, files, hunks)

\* The lines between the header and "---", each at most once.
Metadata(l) ==
    /\ state = "metadata"
    /\ CASE l.type = "---" ->
              /\ old' = l.name
              /\ state' = "names"
              /\ UNCHANGED <<verdict, declared, indexed>>
         [] l.type \in {"new mode", "deleted mode"} /\ declared = "modify" ->
              /\ declared' = IF l.type = "new mode" THEN "add" ELSE "delete"
              /\ UNCHANGED <<verdict, state, indexed, old>>
         [] l.type = "index" /\ ~indexed ->
              indexed' = TRUE /\ UNCHANGED <<verdict, state, declared, old>>
         [] OTHER ->
              verdict' = "rejected" /\ UNCHANGED <<state, declared, indexed, old>>
    /\ UNCHANGED <<path, want, done, hunks, files>>

\* The kind of the change: what is declared and both names have to agree.
NamesAgree(new) ==
    CASE declared = "add" -> old = DevNull /\ new = path
      [] declared = "delete" -> old = path /\ new = DevNull
      [] OTHER -> old = path /\ new = path

NewName(l) ==
    /\ state = "names"
    /\ IF l.type = "+++" /\ NamesAgree(l.name)
       THEN /\ state' = "hunks"
            /\ UNCHANGED <<verdict, path, declared, indexed, old, want, done,
                           hunks, files>>
       ELSE Reject

OpenHunk(l, n) ==
    /\ state' = "body"
    /\ want' = Pair(l.old, l.new)
    /\ done' = Pair(0, 0)
    /\ hunks' = n
    /\ UNCHANGED <<verdict, path, declared, indexed, old, files>>

FirstHunk(l) ==
    /\ state = "hunks"
    /\ IF l.type = "@@" THEN OpenHunk(l, hunks) ELSE Reject

\* In a hunk only the first byte of a line counts.
Deletes(l) == l.type \in {"context", "-", "---"}
Adds(l) == l.type \in {"context", "+", "+++"}
BodyLine(l) == Deletes(l) \/ Adds(l) \/ l.type = "no newline"
Plus(b) == IF b THEN 1 ELSE 0

CountLine(l) ==
    /\ done' = Pair(done.old + Plus(Deletes(l)), done.new + Plus(Adds(l)))
    /\ UNCHANGED <<verdict, state, path, declared, indexed, old, want, hunks,
                   files>>

\* Mutant of CountsMatch: a hunk may be longer than its header says.
CountsReached == done.old >= want.old /\ done.new >= want.new

CountsMatch == done = want

\* Mutant of HunkFits: the ceiling is tested before the hunk is counted.
HunkFitsLate == CountsMatch /\ hunks <= MaxHunks

\* The end of a hunk and of a section, with the ceilings tested there.
HunkFits == CountsMatch /\ hunks < MaxHunks
SectionFits == HunkFits /\ Cardinality(files) < MaxFiles
Sections == files \cup {Change(path, declared)}

\* "@@" ends the hunk, "diff --git" the section too.
Body(l) ==
    /\ state = "body"
    /\ CASE BodyLine(l) -> CountLine(l)
         [] l.type = "@@" /\ HunkFits -> OpenHunk(l, hunks + 1)
         [] l.type = "diff" /\ SectionFits -> OpenFile(l, Sections, hunks + 1)
         [] OTHER -> Reject

Parse(l) ==
    FirstFile(l) \/ Metadata(l) \/ NewName(l) \/ FirstHunk(l) \/ Body(l)

\* The text ends: only after the last line of a complete hunk.
ParseEnd ==
    IF state = "body" /\ SectionFits
    THEN /\ verdict' = "accepted"
         /\ files' = Sections
         /\ hunks' = hunks + 1
         /\ UNCHANGED <<state, path, declared, indexed, old, want, done>>
    ELSE Reject

-----------------------------------------------------------------------------
(* Git: not part of this repository.  apply.rs hands the same text to      *)
(* `git apply --check` and `git apply` (apply.rs:149-162).                 *)

\* It looks for a header and passes over anything else; without "diff --git"
\* the names of the file are taken from "---" and "+++".
GitFind(l) ==
    /\ git' = CASE l.type = "diff" -> "header"
                [] l.type = "---" -> "---"
                [] OTHER -> "find"
    /\ gitChange' = CASE l.type = "diff" -> Change(l.new, "modify")
                      [] l.type = "---" -> Change(l.name, "modify")
                      [] OTHER -> gitChange
    /\ UNCHANGED <<left, touched>>

\* A hunk changes the file of the header before it.
GitHunk(l) ==
    /\ git' = "body"
    /\ left' = Pair(l.old, l.new)
    /\ touched' = touched \cup {gitChange}
    /\ UNCHANGED gitChange

GitHeader(l) ==
    CASE l.type = "@@" -> GitHunk(l)
      [] l.type \in {"new mode", "deleted mode"} ->
           /\ gitChange' = Change(gitChange.path,
                  IF l.type = "new mode" THEN "add" ELSE "delete")
           /\ UNCHANGED <<git, left, touched>>
      [] l.type \in {"index", "---", "+++"} -> UNCHANGED reader
      [] OTHER -> GitFind(l)

GitNames(l) ==
    CASE git = "---" /\ l.type = "+++" ->
           /\ git' = "+++"
           /\ gitChange' =
                  CASE gitChange.path = DevNull -> Change(l.name, "add")
                    [] gitChange.path # DevNull /\ l.name = DevNull ->
                         Change(gitChange.path, "delete")
                    [] OTHER -> Change(l.name, "modify")
           /\ UNCHANGED <<left, touched>>
      [] git = "+++" /\ l.type = "@@" -> GitHunk(l)
      [] OTHER -> GitFind(l)

\* Lines belong to the hunk until both its counts are used up.
GitBody(l) ==
    CASE l.type = "no newline" -> UNCHANGED reader
      [] l.type # "no newline" /\ left = Pair(0, 0) ->
           IF l.type = "@@" THEN GitHunk(l) ELSE GitFind(l)
      [] OTHER ->
           IF /\ BodyLine(l)
              /\ Plus(Deletes(l)) <= left.old
              /\ Plus(Adds(l)) <= left.new
           THEN /\ left' = Pair(left.old - Plus(Deletes(l)),
                                left.new - Plus(Adds(l)))
                /\ UNCHANGED <<git, gitChange, touched>>
           ELSE git' = "corrupt" /\ UNCHANGED <<gitChange, left, touched>>

Git(l) ==
    CASE git = "find" -> GitFind(l)
      [] git = "header" -> GitHeader(l)
      [] git \in {"---", "+++"} -> GitNames(l)
      [] git = "body" -> GitBody(l)
      [] OTHER -> UNCHANGED reader

-----------------------------------------------------------------------------
\* Longer hunks than any header announces teach nothing: the bound of TLC.
InBound == done.old <= MaxCount /\ done.new <= MaxCount

Line(l) ==
    /\ verdict = "reading"
    /\ InBound
    /\ Parse(l)
    /\ Git(l)

End ==
    /\ verdict = "reading"
    /\ ParseEnd
    /\ UNCHANGED reader

Next == End \/ \E l \in Lines : Line(l)

Spec == Init /\ [][Next]_vars

-----------------------------------------------------------------------------
\* Validation and review see what Git will do: of an accepted patch Git
\* changes exactly the files the parser found, in the way it found, and has
\* read the last hunk to its end.
GitAgrees ==
    verdict = "accepted" =>
        git = "body" /\ left = Pair(0, 0) /\ touched = files

\* An accepted patch names each file once, within both ceilings.
WithinCeilings ==
    verdict = "accepted" =>
        /\ 1 <= Cardinality(files) /\ Cardinality(files) <= MaxFiles
        /\ Cardinality(files) <= hunks /\ hunks <= MaxHunks
        /\ Cardinality({f.path : f \in files}) = Cardinality(files)
=============================================================================
