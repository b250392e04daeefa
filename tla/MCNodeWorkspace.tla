---------------------------- MODULE MCNodeWorkspace ----------------------------
(* An instance of NodeWorkspace for TLC: the manifest is copied first. *)
EXTENDS NodeWorkspace

MCRank == [f \in File |-> CASE f = "manifest" -> 1 [] f = "lockfile" -> 2 [] f = "policy" -> 3]
=============================================================================
