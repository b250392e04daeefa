------------------------------ MODULE PrPublish ------------------------------
(***************************************************************************)
(* The scripts of git-pr-publish: a read-only preview that the user        *)
(* approves, then publish_commit.py or push_existing.py, then a preview    *)
(* of the pull request and create_pr.py.  One step per git or gh command   *)
(* whose answer a later step relies on.                                    *)
(* What is abstracted: the fingerprint is the values it hashes; a commit   *)
(* message is valid; a pathspec is a set of files.                         *)
(***************************************************************************)
EXTENDS GitRepo

CONSTANT Scopes  \* the pathspecs a user may give with --include

ASSUME ScopeAssumption == Scopes \subseteq SUBSET Files

-----------------------------------------------------------------------------
\* One row of git status --porcelain: staged or not, changed since or not, and
\* whether the diff shows other line ends.
Row(f) == [staged |-> index[f] # HeadTree[f], unstaged |-> files[f] # index[f], crlf |-> f \in noise]

Fingerprint(scope) ==
  [branch |-> head, head |-> HeadCommit,
   rows |-> [f \in Semantic(scope) |-> [row |-> Row(f), content |-> files[f]]]]

\* The tree that a user approves with a fingerprint.
ApprovedTree(fp) ==
  [f \in Files |-> IF f \in DOMAIN fp.rows THEN fp.rows[f].content
                                           ELSE commits[fp.head].tree[f]]

\* git push of the branch, never forced.
FastForward == local # None /\ (remote = None \/ remote \in History(local))
PushAllowed == https => gh
Pushes      == /\ PushAllowed /\ FastForward
               /\ remote' = local

-----------------------------------------------------------------------------
\* prepare_publish.py: what to publish, or that only the head is left to push.
PreparePublish(scope) ==
  /\ pc = "idle" /\ head = "feature" /\ gh
  /\ approval' = IF Semantic(scope) # {}
                 THEN [kind |-> "publish", scope |-> scope, fp |-> Fingerprint(scope)]
                 ELSE [kind |-> "push", scope |-> scope, head |-> HeadCommit]
  /\ report' = NoReport
  /\ UNCHANGED <<repo, pc, seen, since, excused>>

\* publish_commit.py starts: still the branch and the changes of the preview?
CheckApproval ==
  /\ pc = "idle" /\ approval.kind = "publish"
  /\ IF head = "feature" /\ Fingerprint(approval.scope) = approval.fp
     THEN /\ pc' = "scope" /\ since' = {}
          /\ UNCHANGED <<approval, seen, report>>
     ELSE Blocked({})
  /\ UNCHANGED <<repo, excused>>

CheckScopeMutant ==  \* mutant: staged changes outside the scope are let through
  /\ pc = "scope"
  /\ IF Semantic(approval.scope) = {}
     THEN Blocked({})
     ELSE /\ pc' = "add" /\ seen' = [seen EXCEPT !.paths = Semantic(approval.scope)]
          /\ UNCHANGED <<approval, report, since>>
  /\ UNCHANGED <<repo, excused>>

\* Nothing is staged outside the scope, and there is something to commit.
CheckScope ==
  /\ pc = "scope"
  /\ IF \/ \E f \in Files \ approval.scope : index[f] # HeadTree[f]
        \/ Semantic(approval.scope) = {}
     THEN Blocked({})
     ELSE /\ pc' = "add" /\ seen' = [seen EXCEPT !.paths = Semantic(approval.scope)]
          /\ UNCHANGED <<approval, report, since>>
  /\ UNCHANGED <<repo, excused>>

\* git add -A of the paths just classified.
Add ==
  /\ pc = "add"
  /\ \/ /\ index' = [f \in Files |-> IF f \in seen.paths THEN files[f] ELSE index[f]]
        /\ noise' = noise \ seen.paths
        /\ pc' = "commit"
        /\ UNCHANGED <<approval, seen, report, since>>
     \/ /\ Blocked({})
        /\ UNCHANGED <<index, noise>>
  /\ UNCHANGED <<refs, pulls, head, switched, elsewhere, locked, files, ignored, account, moves, excused>>

\* git commit, on whatever branch the worktree is on now.
MakeCommit ==
  /\ pc = "commit"
  /\ \/ /\ index # HeadTree
        /\ Commit({HeadCommit}, index)
        /\ IF head = "feature" THEN local' = NewCommit /\ UNCHANGED lbase
                               ELSE lbase' = NewCommit /\ UNCHANGED local
        /\ pc' = "push" /\ seen' = [seen EXCEPT !.sha = NewCommit]
        /\ UNCHANGED <<approval, report, since>>
     \/ /\ Blocked({})
        /\ UNCHANGED <<commits, local, lbase>>
  /\ UNCHANGED <<remote, base, rbase, pulls, worktree, account, moves, excused>>

PushCommitMutant ==  \* mutant: the answer of git push is ignored
  /\ pc = "push"
  /\ (Pushes \/ UNCHANGED remote)
  /\ End([status |-> "pushed", sha |-> seen.sha, gone |-> {}])
  /\ UNCHANGED <<commits, local, lbase, base, rbase, pulls, worktree, account, moves, excused>>

\* The push succeeds; or it fails, or its answer is lost: the commit stays.
PushCommit ==
  /\ pc = "push"
  /\ \/ /\ Pushes
        /\ End([status |-> "pushed", sha |-> seen.sha, gone |-> {}])
     \/ /\ (Pushes \/ UNCHANGED remote)
        /\ End([status |-> "push-failed", sha |-> seen.sha, gone |-> {}])
  /\ UNCHANGED <<commits, local, lbase, base, rbase, pulls, worktree, account, moves, excused>>

-----------------------------------------------------------------------------
\* push_existing.py: the same head as in the preview, and nothing uncommitted.
CheckHead ==
  /\ pc = "idle" /\ approval.kind = "push"
  /\ IF head = "feature" /\ local = approval.head /\ Semantic(approval.scope) = {}
     THEN /\ pc' = "compare" /\ since' = {}
          /\ UNCHANGED <<approval, seen, report>>
     ELSE Blocked({})
  /\ UNCHANGED <<repo, excused>>

Compare ==
  /\ pc = "compare"
  /\ \/ /\ remote = approval.head
        /\ End([status |-> "already-pushed", sha |-> approval.head, gone |-> {}])
     \/ /\ remote # approval.head
        /\ pc' = "pushHead"
        /\ UNCHANGED <<approval, seen, report, since>>
  /\ UNCHANGED <<repo, excused>>

PushHead ==
  /\ pc = "pushHead"
  /\ \/ /\ Pushes
        /\ pc' = "verify"
        /\ UNCHANGED <<approval, seen, report, since>>
     \/ /\ (Pushes \/ UNCHANGED remote)
        /\ End([status |-> "push-failed", sha |-> None, gone |-> {}])
  /\ UNCHANGED <<commits, local, lbase, base, rbase, pulls, worktree, account, moves, excused>>

Verify ==
  /\ pc = "verify"
  /\ IF remote = approval.head
     THEN End([status |-> "pushed-existing-head", sha |-> approval.head, gone |-> {}])
     ELSE Blocked({})
  /\ UNCHANGED <<repo, excused>>

-----------------------------------------------------------------------------
\* prepare_pr.py and the first half of create_pr.py: what is published is what
\* is here.
Published == head = "feature" /\ remote # None /\ remote = local

PreparePr ==
  /\ pc = "idle" /\ Published /\ gh /\ ~openPr
  /\ approval' = [kind |-> "pr", head |-> local]
  /\ report' = NoReport
  /\ UNCHANGED <<repo, pc, seen, since, excused>>

CheckPublished ==
  /\ pc = "idle" /\ approval.kind = "pr"
  /\ IF Published
     THEN /\ pc' = "list" /\ since' = {}
          /\ UNCHANGED <<approval, seen, report>>
     ELSE Blocked({})
  /\ UNCHANGED <<repo, excused>>

ListPrs ==
  /\ pc = "list"
  /\ \/ /\ gh /\ openPr
        /\ End([status |-> "existing-pr", sha |-> None, gone |-> {}])
     \/ /\ gh /\ ~openPr /\ pc' = "create"
        /\ UNCHANGED <<approval, seen, report, since>>
     \/ /\ ~gh /\ Blocked({})
  /\ UNCHANGED <<repo, excused>>

\* GitHub opens a pull request for the remote branch as it is now, unless one
\* is open; the answer may be lost.
CreatePr ==
  /\ pc = "create"
  /\ \/ /\ gh /\ remote # None /\ ~openPr
        /\ openPr' = TRUE
        /\ \/ End([status |-> "created", sha |-> None, gone |-> {}])
           \/ Blocked({})
     \/ /\ Blocked({})
        /\ UNCHANGED openPr
  /\ UNCHANGED <<refs, merged, worktree, account, moves, excused>>

PublishStep ==
  \/ \E scope \in Scopes : PreparePublish(scope)
  \/ CheckApproval \/ CheckScope \/ Add \/ MakeCommit \/ PushCommit
  \/ CheckHead \/ Compare \/ PushHead \/ Verify
  \/ PreparePr \/ CheckPublished \/ ListPrs \/ CreatePr

-----------------------------------------------------------------------------
\* A commit that publish_commit.py makes has exactly the parent and the tree
\* of the approved preview, unless somebody wrote to the worktree or switched
\* its branch after the fingerprint was compared.
CommitIsApproved ==
  [][ (pc = "commit" /\ pc' = "push") =>
        \/ commits'[NewCommit] = [parents |-> {approval.fp.head}, tree |-> ApprovedTree(approval.fp)]
        \/ since \intersect {"tree", "head"} # {} ]_vars
==============================================================================
