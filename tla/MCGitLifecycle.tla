--------------------------- MODULE MCGitLifecycle ---------------------------
(* Model checking of GitLifecycle on a worktree of two files.              *)
EXTENDS GitLifecycle

F1F2       == {"f1", "f2"}
TwoScopes  == {{"f1"}, {"f1", "f2"}}
=============================================================================
