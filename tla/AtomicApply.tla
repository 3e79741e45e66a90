----------------------------- MODULE AtomicApply ------------------------------
(***************************************************************************)
(* What Apply promises to somebody who cannot see its journal              *)
(* (docs/threat-model.md, "Apply and crash semantics"): the tree is all    *)
(* pre-images or all post-images, it changes once, in one step, and only   *)
(* while the caller waits; after a crash it never changes again, because   *)
(* recovery settles what the crash found.                                  *)
(***************************************************************************)

VARIABLES
    tree,   \* "pre" or "post": the changed files taken together
    reply,  \* what the caller has been told
    life    \* "waiting", "running", "returned", "dead" or "recovered"

vars == <<tree, reply, life>>

Init ==
    /\ tree = "pre"
    /\ reply = "none"
    /\ life = "waiting"

Begin ==
    /\ life = "waiting"
    /\ life' = "running"
    /\ UNCHANGED <<tree, reply>>

Commit ==
    /\ life = "running"
    /\ tree = "pre"
    /\ tree' = "post"
    /\ UNCHANGED <<reply, life>>

\* Success is told only of a new tree, a refusal only of the old one; a
\* failing file system or a needed recovery says nothing about the tree.
Return ==
    /\ life \in {"waiting", "running"}
    /\ \/ reply' = "ok" /\ tree = "post"
       \/ reply' \in {"stale", "git", "repository"} /\ tree = "pre"
       \/ reply' \in {"state", "recovery"} /\ life = "running"
    /\ life' = "returned"
    /\ UNCHANGED tree

Crash ==
    /\ life # "waiting"
    /\ life' = "dead"
    /\ reply' = "none"
    /\ UNCHANGED tree

Recover ==
    /\ life = "dead"
    /\ life' = "recovered"
    /\ UNCHANGED <<tree, reply>>

Next == Begin \/ Commit \/ Return \/ Crash \/ Recover

Spec == Init /\ [][Next]_vars

FairSpec ==
    /\ Spec
    /\ WF_vars(life = "running" /\ Return)
    /\ WF_vars(Recover)
=============================================================================
