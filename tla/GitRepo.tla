------------------------------- MODULE GitRepo -------------------------------
(***************************************************************************)
(* What the git skills work on: one linked worktree of a clone, the        *)
(* branch "feature" and the base branch it is merged into, their           *)
(* counterparts at the remote, and the pull requests of the branch.        *)
(* The actions of this module are those of everyone else: an editor, a     *)
(* user of git in the same clone, other clones, and GitHub.                *)
(*                                                                         *)
(* Commits are numbered in the order they are made.  A file's content is a *)
(* number; that its lines end in CRLF is kept apart (noise).  The session  *)
(* variables belong to the scripts, which PrPublish and WorkspaceCleanup   *)
(* model; since notes what others did after the script's last look.        *)
(***************************************************************************)
EXTENDS Naturals, Sequences, FiniteSets

CONSTANTS
  Files,       \* the tracked files
  Contents,    \* what a file may contain
  MaxCommits,  \* bound: commits in a behaviour
  MaxMoves     \* bound: moves of the others in a behaviour

ASSUME RepoAssumption == {0, 1} \subseteq Contents /\ MaxCommits \in Nat \ {0, 1} /\ MaxMoves \in Nat

VARIABLES
  commits,    \* all commits, each with its parents and its tree
  local,      \* refs/heads/feature
  remote,     \* feature at the remote
  lbase,      \* refs/heads/<base>
  base,       \* refs/remotes/origin/<base>, as last fetched
  rbase,      \* <base> at the remote
  openPr,     \* a pull request of feature into base is open
  merged,     \* the heads of merged pull requests
  head,       \* the branch the worktree is on, "gone" once it is removed
  switched,   \* the reflog of HEAD says that base was checked out from feature
  elsewhere,  \* another worktree has feature checked out
  locked,     \* git worktree lock
  files,      \* the worktree
  index,      \* the staging area
  noise,      \* files that differ from the index in their line ends
  ignored,    \* the worktree has ignored files
  gh,         \* gh is authenticated
  https,      \* the remote's URL is https, so that pushing needs gh
  moves,      \* moves of the others so far
  pc, approval, seen, report,  \* the session: where it is, what the user has
                               \* approved, what the script remembers, its output
  since,      \* history: what others did since the script last looked
  excused     \* history: commits a remote branch lost within that window

refs     == <<commits, local, remote, lbase, base, rbase>>
pulls    == <<openPr, merged>>
worktree == <<head, switched, elsewhere, locked, files, index, noise, ignored>>
account  == <<gh, https>>
session  == <<pc, approval, seen, report>>
repo     == <<refs, pulls, worktree, account, moves>>
vars     == <<repo, session, since, excused>>

-----------------------------------------------------------------------------
None == 0
Tree == [Files -> Contents]

\* The commits reachable from c.
History(c) ==
  LET reach[n \in 0..Len(commits)] ==
        IF n = None THEN {} ELSE {n} \union UNION {reach[p] : p \in commits[n].parents}
  IN  reach[c]

Reachable == UNION {History(c) : c \in {local, remote, lbase, base, rbase} \union merged}

HeadCommit == IF head = "feature" THEN local ELSE lbase
HeadTree   == commits[HeadCommit].tree
NewCommit  == Len(commits) + 1

Differs(f) == files[f] # index[f] \/ index[f] # HeadTree[f]

NoApproval == [kind |-> "none"]
Nothing    == [paths |-> {}, sha |-> None, gone |-> {}]
NoReport   == [status |-> "none", sha |-> None, gone |-> {}]

\* A commit is made, with the parents ps and the tree t.
Commit(ps, t) ==
  /\ Len(commits) < MaxCommits
  /\ commits' = Append(commits, [parents |-> ps, tree |-> t])

\* The worktree shows the tree of commit c.
CheckedOut(c) ==
  /\ files' = commits[c].tree /\ index' = commits[c].tree
  /\ noise' = {}

Clean == \A f \in Files : ~Differs(f) /\ f \notin noise

-----------------------------------------------------------------------------
\* The first commit is on base; the branch may have one of its own, published
\* with an open pull request.
Init ==
  /\ \E published \in BOOLEAN :
       LET t0 == [f \in Files |-> 0]
           t1 == [t0 EXCEPT ![CHOOSE f \in Files : TRUE] = 1]
           c  == IF published THEN 2 ELSE 1
       IN  /\ commits = SubSeq(<<[parents |-> {}, tree |-> t0],
                                 [parents |-> {1}, tree |-> t1]>>, 1, c)
           /\ local = c /\ remote = IF published THEN c ELSE None
           /\ files = commits[c].tree /\ index = commits[c].tree
           /\ openPr = published
  /\ lbase = 1 /\ base = 1 /\ rbase = 1 /\ merged = {}
  /\ head = "feature" /\ switched = FALSE /\ elsewhere = FALSE /\ locked = FALSE
  /\ noise = {} /\ ignored = FALSE
  /\ gh = TRUE /\ https \in BOOLEAN /\ moves = 0
  /\ pc = "idle" /\ approval = NoApproval /\ seen = Nothing /\ report = NoReport
  /\ since = {} /\ excused = {}

-----------------------------------------------------------------------------
\* Somebody else makes a move of the given kind.  Between two commands there
\* is nothing the script could have missed.
Move(kind) ==
  /\ moves < MaxMoves
  /\ moves' = moves + 1
  /\ since' = IF pc = "idle" THEN {} ELSE since \union {kind}
  /\ UNCHANGED <<session, account, excused>>

Edit(f) ==
  /\ head # "gone"
  /\ \E c \in Contents \ {files[f]} : files' = [files EXCEPT ![f] = c]
  /\ Move("tree")
  /\ UNCHANGED <<refs, pulls, head, switched, elsewhere, locked, index, noise, ignored>>

Stage(f) ==
  /\ head # "gone" /\ index[f] # files[f]
  /\ index' = [index EXCEPT ![f] = files[f]]
  /\ Move("tree")
  /\ UNCHANGED <<refs, pulls, head, switched, elsewhere, locked, files, noise, ignored>>

ConvertLineEnds(f) ==
  /\ head # "gone" /\ f \notin noise
  /\ noise' = noise \union {f}
  /\ Move("tree")
  /\ UNCHANGED <<refs, pulls, head, switched, elsewhere, locked, files, index, ignored>>

AddIgnoredFile ==
  /\ head # "gone" /\ ~ignored
  /\ ignored' = TRUE
  /\ Move("ignored")
  /\ UNCHANGED <<refs, pulls, head, switched, elsewhere, locked, files, index, noise>>

CommitByHand ==
  /\ head = "feature" /\ index # HeadTree
  /\ Commit({local}, index) /\ local' = NewCommit
  /\ Move("tree")
  /\ UNCHANGED <<remote, lbase, base, rbase, pulls, worktree>>

\* git switch between the two branches, in a clean worktree.
Switch ==
  /\ Clean
  /\ \/ /\ head = "feature" /\ head' = "base" /\ switched' = TRUE
        /\ CheckedOut(lbase)
     \/ /\ head = "base" /\ local # None /\ ~elsewhere
        /\ head' = "feature" /\ switched' = FALSE
        /\ CheckedOut(local)
  /\ Move("head")
  /\ UNCHANGED <<refs, pulls, elsewhere, locked, ignored>>

\* git worktree add, git worktree lock
CheckOutElsewhere ==
  /\ head # "feature" /\ local # None /\ ~elsewhere
  /\ elsewhere' = TRUE
  /\ Move("elsewhere")
  /\ UNCHANGED <<refs, pulls, head, switched, locked, files, index, noise, ignored>>

Lock ==
  /\ head # "gone" /\ ~locked
  /\ locked' = TRUE
  /\ Move("locked")
  /\ UNCHANGED <<refs, pulls, head, switched, elsewhere, files, index, noise, ignored>>

\* A new commit on top of c that changes one file.
CommitOnTop(c) ==
  \E f \in Files, v \in Contents :
    /\ v # commits[c].tree[f]
    /\ Commit({c}, [commits[c].tree EXCEPT ![f] = v])

CommitElsewhere ==
  /\ elsewhere /\ local # None
  /\ CommitOnTop(local) /\ local' = NewCommit
  /\ Move("elsewhere")
  /\ UNCHANGED <<remote, lbase, base, rbase, pulls, worktree>>

\* Another clone publishes a commit on the remote branch, or makes the branch.
PushByOther ==
  /\ CommitOnTop(IF remote = None THEN rbase ELSE remote)
  /\ remote' = NewCommit
  /\ Move("remote")
  /\ UNCHANGED <<local, lbase, base, rbase, pulls, worktree>>

PullFeature ==
  /\ head = "feature" /\ Clean
  /\ remote # None /\ remote # local /\ local \in History(remote)
  /\ local' = remote /\ CheckedOut(remote)
  /\ Move("head")
  /\ UNCHANGED <<commits, remote, lbase, base, rbase, pulls, head, switched, elsewhere, locked, ignored>>

\* The pull request is merged at GitHub, with a merge commit or squashed; the
\* branch may be deleted there with it.
MergePr ==
  /\ openPr
  /\ \E squash, delete \in BOOLEAN :
       /\ Commit(IF squash THEN {rbase} ELSE {rbase, remote}, commits[remote].tree)
       /\ remote' = IF delete THEN None ELSE remote
  /\ rbase' = NewCommit
  /\ openPr' = FALSE /\ merged' = merged \union {remote}
  /\ Move("remote")
  /\ UNCHANGED <<local, lbase, base, worktree>>

\* git fetch, and a fast-forward of the local base where that is possible
FetchBase ==
  /\ base # rbase
  /\ base' = rbase
  /\ IF lbase \in History(rbase) /\ (head = "base" => Clean)
     THEN /\ lbase' = rbase
          /\ IF head = "base" THEN CheckedOut(rbase) ELSE UNCHANGED <<files, index, noise>>
     ELSE UNCHANGED <<lbase, files, index, noise>>
  /\ Move("base")
  /\ UNCHANGED <<commits, local, remote, rbase, pulls, head, switched, elsewhere, locked, ignored>>

\* The login of gh expires, or is renewed.
GhLogin ==
  /\ moves < MaxMoves /\ moves' = moves + 1
  /\ gh' = ~gh
  /\ UNCHANGED <<refs, pulls, worktree, https, session, since, excused>>

OthersMove ==
  \/ \E f \in Files : Edit(f) \/ Stage(f) \/ ConvertLineEnds(f)
  \/ AddIgnoredFile \/ CommitByHand \/ Switch \/ CheckOutElsewhere \/ CommitElsewhere \/ Lock
  \/ PushByOther \/ PullFeature \/ MergePr \/ FetchBase \/ GhLogin

-----------------------------------------------------------------------------
\* Every branch is at a commit that exists, the worktree is on one that does,
\* and an open pull request has a remote branch.
TypeOK ==
  /\ \A c \in 1..Len(commits) : commits[c].parents \subseteq 1..(c - 1) /\ commits[c].tree \in Tree
  /\ {lbase, base, rbase} \union merged \subseteq 1..Len(commits)
  /\ {local, remote} \subseteq 0..Len(commits)
  /\ files \in Tree /\ index \in Tree /\ noise \subseteq Files
  /\ head \in {"feature", "base", "gone"}
  /\ (head = "feature" => local # None)
  /\ (openPr => remote # None)

-----------------------------------------------------------------------------
\* What both families of scripts decide from git status: rows that are only
\* line-end noise are told apart from those that mean something.  A row is
\* noise only if the file is unstaged and otherwise as in the index.
Changed(f)  == Differs(f) \/ f \in noise
EolOnly(f)  == f \in noise /\ ~Differs(f)
Semantic(S) == {f \in S : Changed(f) /\ ~EolOnly(f)}

\* The script ends with the given report; an approval serves once.
End(r) ==
  /\ pc' = "idle" /\ report' = r
  /\ approval' = NoApproval /\ seen' = Nothing /\ since' = {}

Blocked(gone) == End([status |-> "blocked", sha |-> None, gone |-> gone])
==============================================================================
