------------------------------ MODULE MCSyncGit -----------------------------
(***************************************************************************)
(* Instances of SyncGit for TLC: a root repository with one child.         *)
(***************************************************************************)
EXTENDS SyncGit, TLC

CONSTANTS root, child

TwoRepos     == {root, child}
PostOrder    == <<child, root>>
ChildInRoot  == (root :> {child}) @@ (child :> {})
OwnMirrors   == (root :> root) @@ (child :> child)
SharedMirror == (root :> root) @@ (child :> root)

(* Syncs and file contents are interchangeable.                            *)
Symmetry == Permutations(Procs) \cup Permutations(Content)
=============================================================================
