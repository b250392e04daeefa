--------------------------- MODULE WorkspaceCleanup ---------------------------
(***************************************************************************)
(* The scripts of git-workspace-cleanup: prepare_cleanup.py inspects a     *)
(* linked worktree and proves its branch merged, the user approves, and    *)
(* cleanup_workspace.py inspects again and removes the worktree, the local *)
(* branch and, if asked, the remote branch, one after the other.           *)
(* A worktree that was switched to the base branch is removed in the same  *)
(* way; the branch it was switched from is the one to delete then.         *)
(* What is abstracted: the fingerprint is the values it hashes; the remote *)
(* is at GitHub; the base branch is known.                                 *)
(***************************************************************************)
EXTENDS GitRepo

-----------------------------------------------------------------------------
\* list_worktrees.py: what the user is shown of the worktree, and whether it
\* may be selected.
CleanState == IF Semantic(Files) # {} THEN "DIRTY"
              ELSE IF \E f \in Files : EolOnly(f) THEN "EOL_ONLY" ELSE "CLEAN"
Selectable == head # "gone"

EvidenceMutant(c) ==  \* mutant: any merged pull request of the branch will do
  IF gh /\ merged # {} THEN "github-pr-merged"
  ELSE IF c \in History(base) THEN "git-ancestor" ELSE "none"

\* The proof that commit c is merged: a merged pull request of exactly this
\* head, as far as GitHub can be asked, or the history of the fetched base.
Evidence(c) ==
  IF gh /\ c \in merged THEN "github-pr-merged"
  ELSE IF c \in History(base) THEN "git-ancestor" ELSE "none"

OpenPrSeen      == gh /\ openPr
RemoteDeletable == remote # None /\ (https => gh)

\* What stands against removing this worktree at all.
WorktreeProtected == ignored \/ Semantic(Files) # {} \/ locked

\* What both inspections read and hash.
Snapshot == [head |-> HeadCommit, base |-> base, gh |-> gh, elsewhere |-> elsewhere,
             eol |-> {f \in Files : EolOnly(f)}]

\* inspect_cleanup: the worktree is on the branch, which is to be deleted.
FeatureAllowed ==
  /\ ~WorktreeProtected
  /\ remote \in {None, local}
  /\ ~OpenPrSeen
  /\ Evidence(local) # "none"

FeatureInspection ==
  [kind |-> "cleanup", on |-> head, snapshot |-> Snapshot, branch |-> TRUE, target |-> local,
   remote |-> remote, remoteDelete |-> RemoteDeletable, evidence |-> Evidence(local)]

\* try_inspect_base_worktree: the worktree is on base, which is kept; the
\* branch that the reflog names may be deleted.
TrackedAllowed ==
  /\ switched /\ local # None
  /\ ~elsewhere /\ gh /\ ~openPr
  /\ Evidence(local) # "none"

BaseInspection ==
  [kind |-> "cleanup", on |-> head, snapshot |-> Snapshot, branch |-> TrackedAllowed,
   target |-> IF switched THEN local ELSE None,
   remote |-> IF TrackedAllowed THEN remote ELSE None,
   remoteDelete |-> TrackedAllowed /\ remote = local /\ RemoteDeletable,
   evidence |-> IF TrackedAllowed THEN Evidence(local) ELSE "none"]

InspectionAllowed == IF head = "feature" THEN FeatureAllowed ELSE ~WorktreeProtected
Inspection        == IF head = "feature" THEN FeatureInspection ELSE BaseInspection

\* What the user may ask for.  A branch under the worktree goes with it; a
\* tracked branch and a remote branch only if asked.
Requests(i) ==
  {r \in [branch : BOOLEAN, remote : BOOLEAN] :
     /\ (i.on = "feature" => r.branch)
     /\ (r.branch => i.branch)
     /\ (r.remote => r.branch)
     /\ ((r.remote /\ i.remote # None) => i.remoteDelete)}

PrepareCleanup ==
  /\ pc = "idle" /\ Selectable /\ CleanState # "DIRTY"
  /\ InspectionAllowed
  /\ \E r \in Requests(Inspection) :
       approval' = [kind |-> "cleanup", seen |-> Inspection, ask |-> r]
  /\ report' = NoReport
  /\ UNCHANGED <<repo, pc, seen, since, excused>>

-----------------------------------------------------------------------------
\* The state whose fingerprint was approved, and what was asked for with it.
Seen == approval.seen
Ask  == approval.ask

\* An intermediate step that removes nothing: on to step p, or end.
Go(p) == /\ pc' = p
         /\ UNCHANGED <<approval, seen, report>>

InspectAgainMutant ==  \* mutant: the fingerprint is not compared
  /\ pc = "idle" /\ approval.kind = "cleanup"
  /\ IF Selectable THEN Go("ignored") /\ since' = {} ELSE Blocked({})
  /\ UNCHANGED <<repo, excused>>

\* The inspection must find what the user has seen, down to the last commit.
InspectAgain ==
  /\ pc = "idle" /\ approval.kind = "cleanup"
  /\ IF Selectable /\ InspectionAllowed /\ Inspection = Seen
     THEN Go("ignored") /\ since' = {}
     ELSE Blocked({})
  /\ UNCHANGED <<repo, excused>>

ProtectIgnoredMutant ==  \* mutant: the second look for ignored files is left out
  /\ pc = "ignored"
  /\ Go("remove") /\ since' = since \ {"ignored"}
  /\ UNCHANGED <<repo, excused>>

\* git worktree remove would discard ignored files: look for them once more.
ProtectIgnored ==
  /\ pc = "ignored"
  /\ IF ignored THEN Blocked({})
                ELSE Go("remove") /\ since' = since \ {"ignored"}
  /\ UNCHANGED <<repo, excused>>

\* git worktree remove refuses a locked worktree and, unless forced, one with
\* changes.  Force is used where line-end noise is all there is.
RemoveWorktree ==
  /\ pc = "remove"
  /\ \/ /\ ~locked /\ (Seen.snapshot.eol # {} \/ Clean)
        /\ head' = "gone" /\ switched' = FALSE /\ noise' = {} /\ ignored' = FALSE
        /\ Go("registered") /\ UNCHANGED since
     \/ /\ Blocked({})
        /\ UNCHANGED <<head, switched, noise, ignored>>
  /\ UNCHANGED <<refs, pulls, elsewhere, locked, files, index, account, moves, excused>>

\* The list of worktrees is read once more, which may fail; then the branch's
\* turn comes, if it is to be deleted.
StillRegistered ==
  /\ pc = "registered"
  /\ \/ /\ IF Ask.branch THEN Go("local") ELSE End([status |-> "cleaned", sha |-> None, gone |-> {"worktree"}])
        /\ (Ask.branch => UNCHANGED since)
     \/ Blocked({})
  /\ UNCHANGED <<repo, excused>>

Partial(gone) == End([status |-> "partial", sha |-> None, gone |-> gone])

\* The local branch is deleted only while it is at the approved commit.
CompareLocal ==
  /\ pc = "local"
  /\ CASE local = None        -> Go("remote") /\ UNCHANGED since
       [] local = Seen.target -> Go("deleteLocal") /\ UNCHANGED since
       [] OTHER               -> Partial({"worktree"})
  /\ UNCHANGED <<repo, excused>>

\* git update-ref -d with the old value
DeleteLocal ==
  /\ pc = "deleteLocal"
  /\ \/ /\ local = Seen.target
        /\ local' = None
        /\ Go("remote") /\ UNCHANGED since
     \/ /\ Partial({"worktree"})
        /\ UNCHANGED local
  /\ UNCHANGED <<commits, remote, lbase, base, rbase, pulls, worktree, account, moves, excused>>

Cleaned(gone) == End([status |-> "cleaned", sha |-> None, gone |-> {"worktree", "local"} \union gone])

\* The remote branch is looked up before its turn; git ls-remote may fail.  A
\* tracked branch that had no remote branch when inspected is not looked up.
CompareRemote ==
  /\ pc = "remote"
  /\ \/ /\ ~Ask.remote \/ Seen.remote = None
        /\ Cleaned(IF Ask.remote /\ Seen.on = "base" THEN {"remote"} ELSE {})
     \/ /\ Ask.remote /\ Seen.remote # None
        /\ CASE remote = None        -> Cleaned({"remote"})
             [] remote = Seen.remote -> Go("deleteRemote") /\ since' = since \ {"remote"}
             [] OTHER                -> Partial({"worktree", "local"})
     \/ /\ Ask.remote /\ Seen.remote # None
        /\ Blocked(IF Seen.on = "base" THEN {"worktree"} ELSE {"worktree", "local"})
  /\ UNCHANGED <<repo, excused>>

\* git push --delete names no commit: whatever the branch is at by now goes.
\* The push may fail, or its answer be lost.
DeleteRemote ==
  /\ pc = "deleteRemote"
  /\ \/ /\ (https => gh)
        /\ remote' = None /\ openPr' = FALSE
        /\ excused' = IF "remote" \in since THEN excused \union History(remote) ELSE excused
        /\ (Cleaned({"remote"}) \/ Partial({"worktree", "local"}))
     \/ /\ Partial({"worktree", "local"})
        /\ UNCHANGED <<remote, openPr, excused>>
  /\ UNCHANGED <<commits, local, lbase, base, rbase, merged, worktree, account, moves>>

CleanupStep ==
  \/ PrepareCleanup \/ InspectAgain \/ ProtectIgnored \/ RemoveWorktree \/ StillRegistered
  \/ CompareLocal \/ DeleteLocal \/ CompareRemote \/ DeleteRemote

-----------------------------------------------------------------------------
\* No commit becomes unreachable: a branch is deleted only where base, the
\* other side or a merged pull request has all of it.  What somebody pushes
\* between the last look at the remote branch and its deletion is excused.
NoCommitLost == 1..Len(commits) \subseteq Reachable \union excused

\* Removing the worktree discards no change that means something and no
\* ignored file, unless it was made after the script's last look.
NothingDiscarded ==
  [][ (head # "gone" /\ head' = "gone") =>
        /\ Semantic(Files) = {} \/ "tree" \in since
        /\ ~ignored \/ "ignored" \in since ]_vars

\* No branch is deleted under another worktree, unless that was made while the
\* script was at work.
NoWorktreeOrphaned ==
  [][ (local # None /\ local' = None) => (~elsewhere \/ "elsewhere" \in since) ]_vars
==============================================================================
