---------------------------- MODULE GitLifecycle ----------------------------
(* Both git skills in one session on one worktree, with everyone else at   *)
(* work: any step of the other actors may come between two of a script's.  *)
EXTENDS PrPublish, WorkspaceCleanup

Next == OthersMove \/ PublishStep \/ CleanupStep
Spec == Init /\ [][Next]_vars

\* What a script reports as done is so: a pushed commit is at the remote, what
\* is called removed is gone, a pull request is open.  Others may change it
\* after the script's last look.
ReportIsTrue ==
  [][ (pc # "idle" /\ pc' = "idle") =>
        /\ report'.status \in {"pushed", "already-pushed", "pushed-existing-head"} =>
             \/ report'.sha \in History(remote)'
             \/ "head" \in since
        /\ report'.status \in {"created", "existing-pr"} => openPr'
        /\ "worktree" \in report'.gone => head' = "gone"
        /\ "local" \in report'.gone => local' = None
        /\ "remote" \in report'.gone => (remote' = None \/ "remote" \in since) ]_vars
=============================================================================
