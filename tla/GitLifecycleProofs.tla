------------------------- MODULE GitLifecycleProofs -------------------------
(***************************************************************************)
(* Machine-checked proofs about the git skills, for any worktree, any      *)
(* scopes and any number of commits and moves.                             *)
(*                                                                         *)
(* History is a recursive function over the commits.  The provers cannot   *)
(* instantiate an induction theorem that takes an operator; the lemmas     *)
(* below use the least element of the set of counterexamples instead.      *)
(*                                                                         *)
(* The invariant Inv says of every step of a script what it may still rely *)
(* on: what the user has approved, as long as nobody wrote to it (since),  *)
(* and that a branch to be deleted is proved merged.  The moves of the     *)
(* others are summed up in Noted: each leaves alone what a script relies   *)
(* on, or a note in since.                                                 *)
(***************************************************************************)
EXTENDS GitLifecycle, SequenceTheorems, WellFoundedInduction, TLAPS

-----------------------------------------------------------------------------
(* Induction, in the form of the least element of a set of numbers *)

\* Every set of natural numbers that is not empty has a least element.
LEMMA Least ==
  ASSUME NEW T, T \subseteq Nat, T # {}
  PROVE  \E x \in T : \A y \in T : x <= y
<1> DEFINE R == OpToRel(<, Nat)
<1>1. IsWellFoundedOn(R, Nat)
  BY NatLessThanWellFounded
<1> HIDE DEF R
<1>2. PICK x \in T : \A y \in T : ~ (<<y, x>> \in R)
  BY <1>1, WFMin
<1>3. \A y \in Nat : y < x => <<y, x>> \in R
  BY DEF R, OpToRel
<1>4. \A y \in T : ~ (y < x)
  BY <1>2, <1>3
<1>5. \A y \in T : x <= y
  BY <1>4
<1> QED
  BY <1>5

-----------------------------------------------------------------------------
(* The history of a commit *)

\* A commit's parents are older than it is.
Log(C) == /\ Len(C) \in Nat
          /\ \A c \in 1..Len(C) : C[c].parents \subseteq 1..(c - 1)

\* History, as an operator of the commits.
Hist(C, c) ==
  LET reach[n \in 0..Len(C)] ==
        IF n = 0 THEN {} ELSE {n} \union UNION {reach[p] : p \in C[n].parents}
  IN  reach[c]

\* f is the function that History defines, up to commit m.
Reaches(C, m, f) ==
  f = [n \in 0..m |-> IF n = 0 THEN {} ELSE {n} \union UNION {f[p] : p \in C[n].parents}]

\* The equations of the recursive function, one commit at a time.
LEMMA ReachesAt ==
  ASSUME NEW C, NEW m \in Nat, NEW f, Reaches(C, m, f)
  PROVE  /\ f[0] = {}
         /\ \A n \in 1..m : \A x :
              x \in f[n] <=> x = n \/ \E p \in C[n].parents : x \in f[p]
<1>1. f[0] = {}
  BY DEF Reaches
<1>2. ASSUME NEW n \in 1..m
      PROVE  \A x : x \in f[n] <=> x = n \/ \E p \in C[n].parents : x \in f[p]
  <2>1. n \in 0..m /\ n # 0
    OBVIOUS
  <2>2. f[n] = IF n = 0 THEN {} ELSE {n} \union UNION {f[p] : p \in C[n].parents}
    BY <2>1, Zenon DEF Reaches
  <2>3. f[n] = {n} \union UNION {f[p] : p \in C[n].parents}
    BY <2>1, <2>2, Zenon
  <2> QED
    BY <2>3
<1> QED
  BY <1>1, <1>2

\* There is such a function: from the one up to m - 1 one up to m is made.
LEMMA ReachExists ==
  ASSUME NEW C, Log(C)
  PROVE  \E f : Reaches(C, Len(C), f)
<1> DEFINE Bad == {m \in 0..Len(C) : \A f : ~Reaches(C, m, f)}
<1>1. SUFFICES ASSUME Bad # {} PROVE FALSE
  BY DEF Log
<1>2. Bad \subseteq Nat
  BY DEF Log
<1>3. PICK m \in Bad : \A k \in Bad : m <= k
  BY <1>1, <1>2, Least
<1>4. m \in 0..Len(C) /\ \A f : ~Reaches(C, m, f)
  BY <1>3
<1>5. \A k \in 0..Len(C) : k < m => \E f : Reaches(C, k, f)
  BY <1>3, <1>4 DEF Log
<1> HIDE DEF Bad
<1>6. CASE m = 0
  <2>1. Reaches(C, 0, [n \in 0..0 |-> {}])
    BY DEF Reaches
  <2> QED
    BY <1>4, <1>6, <2>1
<1>7. CASE m # 0
  <2>1. m - 1 \in 0..Len(C) /\ m - 1 < m
    BY <1>4, <1>7 DEF Log
  <2>2. PICK f : Reaches(C, m - 1, f)
    BY <1>5, <2>1
  <2> DEFINE top == {m} \union UNION {f[p] : p \in C[m].parents}
             g   == [n \in 0..m |-> IF n = m THEN top ELSE f[n]]
  <2>3. ASSUME NEW n \in 0..m
        PROVE  g[n] = IF n = 0 THEN {} ELSE {n} \union UNION {g[p] : p \in C[n].parents}
    <3>1. CASE n = 0
      BY <1>4, <1>7, <2>2, <3>1 DEF Reaches, Log
    <3>2. CASE n # 0
      <4>1. n \in 1..Len(C) /\ C[n].parents \subseteq 1..(n - 1)
        BY <1>4, <2>3, <3>2 DEF Log
      <4>2. \A p \in C[n].parents : p \in 0..m /\ p # m
        BY <1>4, <2>3, <4>1 DEF Log
      <4>3. \A p \in C[n].parents : g[p] = f[p]
        BY <4>2
      <4>4. {g[p] : p \in C[n].parents} = {f[p] : p \in C[n].parents}
        BY <4>3
      <4>5. CASE n = m
        BY <3>2, <4>4, <4>5
      <4>6. CASE n # m
        <5>1. n \in 0..(m - 1)
          BY <1>4, <4>1, <4>6 DEF Log
        <5>2. f[n] = {n} \union UNION {f[p] : p \in C[n].parents}
          BY <2>2, <3>2, <5>1 DEF Reaches
        <5> QED
          BY <3>2, <4>4, <4>6, <5>2
      <4> QED
        BY <4>5, <4>6
    <3> QED
      BY <3>1, <3>2
  <2>4. Reaches(C, m, g)
    BY <2>3 DEF Reaches
  <2> QED
    BY <1>4, <2>4
<1> QED
  BY <1>6, <1>7

\* So the recursive definition means what it says.
LEMMA HistMember ==
  ASSUME NEW C, Log(C)
  PROVE  /\ Hist(C, 0) = {}
         /\ \A c \in 1..Len(C) : \A x :
              x \in Hist(C, c) <=> x = c \/ \E p \in C[c].parents : x \in Hist(C, p)
<1>1. PICK reach : Reaches(C, Len(C), reach) /\ \A c : Hist(C, c) = reach[c]
  <2>1. Reaches(C, Len(C), CHOOSE f : Reaches(C, Len(C), f))
    BY ReachExists
  <2>2. \A c : Hist(C, c) = (CHOOSE f : Reaches(C, Len(C), f))[c]
    BY DEF Hist, Reaches
  <2> QED
    BY <2>1, <2>2
<1>2. Len(C) \in Nat
  BY DEF Log
<1>3. /\ reach[0] = {}
      /\ \A n \in 1..Len(C) : \A x :
           x \in reach[n] <=> x = n \/ \E p \in C[n].parents : x \in reach[p]
  BY <1>1, <1>2, ReachesAt
<1> QED
  BY <1>1, <1>3

\* A history consists of commits that are no newer.
LEMMA HistWithin ==
  ASSUME NEW C, Log(C)
  PROVE  \A c \in 0..Len(C) : Hist(C, c) \subseteq 1..c
<1> DEFINE Bad == {c \in 0..Len(C) : ~(Hist(C, c) \subseteq 1..c)}
<1>1. SUFFICES ASSUME Bad # {} PROVE FALSE
  OBVIOUS
<1>2. Bad \subseteq Nat
  BY DEF Log
<1>3. PICK c \in Bad : \A k \in Bad : c <= k
  BY <1>1, <1>2, Least
<1>4. c # 0
  BY <1>3, HistMember
<1>5. c \in 1..Len(C)
  BY <1>3, <1>4 DEF Log
<1>6. ASSUME NEW p \in C[c].parents PROVE Hist(C, p) \subseteq 1..c
  <2>1. p \in 1..(c - 1)
    BY <1>5 DEF Log
  <2>2. p \in 0..Len(C) /\ p < c
    BY <1>5, <2>1 DEF Log
  <2>3. p \notin Bad
    BY <1>3, <1>5, <2>1, <2>2 DEF Log
  <2>4. Hist(C, p) \subseteq 1..p
    BY <2>2, <2>3
  <2> QED
    BY <2>1, <2>4, <1>5 DEF Log
<1>7. Hist(C, c) \subseteq 1..c
  BY <1>5, <1>6, HistMember DEF Log
<1> QED
  BY <1>3, <1>7

\* The history of an ancestor is part of the history.
LEMMA HistTransitive ==
  ASSUME NEW C, Log(C)
  PROVE  \A c \in 0..Len(C) : \A x \in Hist(C, c) : Hist(C, x) \subseteq Hist(C, c)
<1> DEFINE Bad == {c \in 0..Len(C) : \E x \in Hist(C, c) : ~(Hist(C, x) \subseteq Hist(C, c))}
<1>1. SUFFICES ASSUME Bad # {} PROVE FALSE
  OBVIOUS
<1>2. Bad \subseteq Nat
  BY DEF Log
<1>3. PICK c \in Bad : \A k \in Bad : c <= k
  BY <1>1, <1>2, Least
<1>4. c # 0
  BY <1>3, HistMember
<1>5. c \in 1..Len(C)
  BY <1>3, <1>4 DEF Log
<1>6. ASSUME NEW x \in Hist(C, c) PROVE Hist(C, x) \subseteq Hist(C, c)
  <2>1. CASE x = c
    BY <2>1
  <2>2. ASSUME NEW p \in C[c].parents, x \in Hist(C, p) PROVE Hist(C, x) \subseteq Hist(C, c)
    <3>1. p \in 1..(c - 1)
      BY <1>5 DEF Log
    <3>2. p \in 0..Len(C) /\ p < c
      BY <1>5, <3>1 DEF Log
    <3>3. p \notin Bad
      BY <1>3, <1>5, <3>1, <3>2 DEF Log
    <3>4. Hist(C, x) \subseteq Hist(C, p)
      BY <2>2, <3>2, <3>3
    <3>5. Hist(C, p) \subseteq Hist(C, c)
      BY <1>5, HistMember
    <3> QED
      BY <3>4, <3>5
  <2> QED
    BY <1>5, <2>1, <2>2, HistMember
<1> QED
  BY <1>3, <1>6

\* A commit that is made changes no history of an older one.
LEMMA HistAppended ==
  ASSUME NEW C, NEW D, Log(C), Log(D), Len(C) <= Len(D), \A n \in 1..Len(C) : D[n] = C[n]
  PROVE  \A c \in 0..Len(C) : Hist(D, c) = Hist(C, c)
<1> DEFINE Bad == {c \in 0..Len(C) : Hist(D, c) # Hist(C, c)}
<1>1. SUFFICES ASSUME Bad # {} PROVE FALSE
  OBVIOUS
<1>2. Bad \subseteq Nat
  BY DEF Log
<1>3. PICK c \in Bad : \A k \in Bad : c <= k
  BY <1>1, <1>2, Least
<1>4. c # 0
  BY <1>3, HistMember
<1>5. c \in 1..Len(C) /\ c \in 1..Len(D)
  BY <1>3, <1>4 DEF Log
<1>6. ASSUME NEW p \in C[c].parents PROVE Hist(D, p) = Hist(C, p)
  <2>1. p \in 1..(c - 1)
    BY <1>5 DEF Log
  <2>2. p \in 0..Len(C) /\ p < c
    BY <1>5, <2>1 DEF Log
  <2>3. p \notin Bad
    BY <1>3, <1>5, <2>1, <2>2 DEF Log
  <2> QED
    BY <2>2, <2>3
<1>7. D[c].parents = C[c].parents
  BY <1>5
<1>8. \A x : x \in Hist(D, c) <=> x \in Hist(C, c)
  BY <1>5, <1>6, <1>7, HistMember
<1>9. Hist(D, c) = Hist(C, c)
  BY <1>8
<1> QED
  BY <1>3, <1>9

-----------------------------------------------------------------------------
(* The invariant *)

Removing   == {"ignored", "remove"}
Removed    == {"registered", "local", "deleteLocal", "remote", "deleteRemote"}
Committing == {"scope", "add", "commit"}
Pushing    == {"compare", "pushHead", "verify"}

Commits == [parents: SUBSET Nat, tree: Tree]

Typed ==
  /\ commits \in Seq(Commits) /\ Log(commits)
  /\ {lbase, base, rbase} \union merged \subseteq 1..Len(commits)
  /\ {local, remote} \subseteq 0..Len(commits)
  /\ files \in Tree /\ index \in Tree /\ noise \subseteq Files
  /\ head \in {"feature", "base", "gone"}
  /\ openPr => remote # None
  /\ seen \in [paths: SUBSET Files, sha: 0..Len(commits), gone: {{}}]

\* The worktree is on a branch that exists and that no other worktree is on;
\* it is gone once a cleanup has removed it.
OnOneBranch ==
  /\ head = "feature" => local # None /\ ~elsewhere
  /\ pc \in Removed => head = "gone"
  /\ pc \in {"remote", "deleteRemote"} => local = None

\* What the user approved, the scripts at work rely on.
ApprovedCleanup ==
  approval.kind = "cleanup" =>
    /\ Ask.branch => Seen.branch
    /\ Ask.remote => Ask.branch
    /\ Ask.remote /\ Seen.remote # None => Seen.remote = Seen.target

Approved ==
  /\ ApprovedCleanup
  /\ approval.kind = "publish" => approval.scope \subseteq Files
  /\ approval.kind = "push" => approval.head \in 1..Len(commits)
  /\ pc \in Removing \union Removed => approval.kind = "cleanup"
  /\ pc \in Committing => approval.kind = "publish"
  /\ pc \in Pushing => approval.kind = "push"
  /\ pc \in {"local", "deleteLocal"} => Ask.branch
  /\ pc = "deleteRemote" => Ask.remote /\ Seen.remote # None

\* A commit is proved merged for good.
Proven(c) == c \in merged \/ c \in Hist(commits, base)

\* The branch to be deleted is merged, and the remote branch is where it was
\* unless somebody moved it.
Deletable ==
  pc \in Removing \union Removed =>
    /\ Ask.branch => Proven(Seen.target)
    /\ Seen.branch => remote = Seen.remote \/ "remote" \in since

Tips == {local, remote, lbase, base, rbase} \union merged
Covered(C, T, E) == 1..Len(C) \subseteq (UNION {Hist(C, t) : t \in T}) \union E
AllKept ==
  /\ Covered(commits, Tips, excused)
  /\ base \in Hist(commits, rbase)

Discardable ==
  pc \in Removing /\ head # "gone" =>
    /\ Semantic(Files) = {} \/ "tree" \in since
    /\ pc = "remove" => ~ignored \/ "ignored" \in since

Unshared ==
  pc \in Removing \union {"registered", "local", "deleteLocal"} /\ Ask.branch =>
    ~elsewhere \/ "elsewhere" \in since

Undisturbed == since \intersect {"tree", "head"} = {}

\* Until somebody else writes, the scripts see what the user approved.
AsApproved ==
  pc \in Committing /\ Undisturbed =>
    /\ head = "feature" /\ local = approval.fp.head
    /\ pc \in {"scope", "add"} => Fingerprint(approval.scope) = approval.fp
    /\ pc = "add" => /\ seen.paths = Semantic(approval.scope)
                     /\ \A f \in Files \ approval.scope : index[f] = HeadTree[f]
    /\ pc = "commit" => index = ApprovedTree(approval.fp)

OnBranch ==
  /\ pc \in Committing \union {"push"} => head = "feature" \/ "head" \in since
  /\ pc = "push" => seen.sha \in Hist(commits, local) \/ "head" \in since

-----------------------------------------------------------------------------
(* What a step does to the commits *)

\* One commit is made, the others stay.
LEMMA CommitMade ==
  ASSUME Typed, NEW ps \in SUBSET (1..Len(commits)), NEW t \in Tree, Commit(ps, t)
  PROVE  /\ commits' \in Seq(Commits) /\ Log(commits')
         /\ Len(commits') = NewCommit /\ NewCommit = Len(commits) + 1
         /\ \A n \in 1..Len(commits) : commits'[n] = commits[n]
         /\ commits'[NewCommit] = [parents |-> ps, tree |-> t]
         /\ \A c \in 0..Len(commits) : Hist(commits', c) = Hist(commits, c)
         /\ NewCommit \in Hist(commits', NewCommit)
         /\ \A p \in ps : Hist(commits, p) \subseteq Hist(commits', NewCommit)
<1> DEFINE e == [parents |-> ps, tree |-> t]
<1>1. commits \in Seq(Commits) /\ e \in Commits /\ commits' = Append(commits, e)
  BY DEF Typed, Commit, Commits
<1>2. Len(commits) \in Nat /\ NewCommit = Len(commits) + 1
  BY <1>1 DEF NewCommit
<1>3. /\ commits' \in Seq(Commits) /\ Len(commits') = NewCommit
      /\ \A n \in 1..Len(commits) : commits'[n] = commits[n]
      /\ commits'[NewCommit] = e
  BY <1>1, <1>2, AppendProperties
<1> HIDE DEF e
<1>4. e.parents = ps
  BY DEF e
<1>5. Log(commits)
  BY DEF Typed
<1>6. Log(commits')
  <2>1. ASSUME NEW c \in 1..Len(commits') PROVE commits'[c].parents \subseteq 1..(c - 1)
    <3>1. CASE c = NewCommit
      <4>1. commits'[c].parents = ps
        BY <1>3, <1>4, <3>1
      <4>2. c - 1 = Len(commits)
        BY <1>2, <3>1
      <4> QED
        BY <4>1, <4>2
    <3>2. CASE c # NewCommit
      BY <1>2, <1>3, <1>5, <3>2 DEF Log
    <3> QED
      BY <3>1, <3>2
  <2> QED
    BY <1>2, <1>3, <2>1 DEF Log
<1>7. \A c \in 0..Len(commits) : Hist(commits', c) = Hist(commits, c)
  BY <1>2, <1>3, <1>5, <1>6, HistAppended
<1>8. NewCommit \in 1..Len(commits')
  BY <1>2, <1>3
<1>9. NewCommit \in Hist(commits', NewCommit)
  BY <1>6, <1>8, HistMember
<1>10. ASSUME NEW p \in ps PROVE Hist(commits, p) \subseteq Hist(commits', NewCommit)
  <2>1. Hist(commits', p) = Hist(commits, p)
    BY <1>2, <1>7
  <2>2. p \in commits'[NewCommit].parents
    BY <1>3, <1>4
  <2> QED
    BY <1>6, <1>8, <2>1, <2>2, HistMember
<1> QED
  BY <1>2, <1>3, <1>6, <1>7, <1>9, <1>10 DEF e

\* Every commit has a tree, the worktree's included.
LEMMA Trees ==
  ASSUME Typed
  PROVE  /\ Len(commits) \in Nat /\ Len(commits) >= 1
         /\ \A c \in 1..Len(commits) : commits[c].tree \in Tree
         /\ lbase \in 1..Len(commits)
         /\ HeadCommit \in 0..Len(commits)
         /\ head # "feature" \/ local # None => HeadCommit \in 1..Len(commits)
<1>1. commits \in Seq(Commits) /\ lbase \in 1..Len(commits) /\ local \in 0..Len(commits)
  BY DEF Typed
<1>2. Len(commits) \in Nat /\ \A c \in 1..Len(commits) : commits[c] \in Commits
  BY <1>1
<1>3. Len(commits) >= 1
  BY <1>1, <1>2
<1>4. HeadCommit \in 0..Len(commits)
      /\ (head # "feature" \/ local # None => HeadCommit \in 1..Len(commits))
  BY <1>1, <1>2 DEF HeadCommit, None
<1> QED
  BY <1>1, <1>2, <1>3, <1>4 DEF Commits

\* What is kept stays kept, if every tip lives on in another or is excused.
LEMMA CoverKept ==
  ASSUME NEW C, NEW D, Log(C), Log(D), NEW T, NEW S, NEW E, NEW F, E \subseteq F,
         Covered(C, T, E),
         \A t \in T : (\E s \in S : Hist(C, t) \subseteq Hist(D, s)) \/ Hist(C, t) \subseteq F,
         \A n \in 1..Len(D) : n \in 1..Len(C) \/ \E s \in S : n \in Hist(D, s)
  PROVE  Covered(D, S, F)
<1> DEFINE Had == UNION {Hist(C, t) : t \in T}
           Has == UNION {Hist(D, s) : s \in S}
<1>1. \A n : n \in Had => \E t \in T : n \in Hist(C, t)
  BY Zenon
<1>2. \A n : (\E s \in S : n \in Hist(D, s)) => n \in Has
  BY Zenon
<1>3. 1..Len(C) \subseteq Had \union E
  BY Zenon DEF Covered
<1> HIDE DEF Had, Has
<1>4. ASSUME NEW n \in 1..Len(C) PROVE n \in F \/ \E s \in S : n \in Hist(D, s)
  BY <1>1, <1>3
<1>5. 1..Len(D) \subseteq Has \union F
  BY <1>2, <1>4
<1> QED
  BY <1>5, Zenon DEF Covered, Has

\* The model's History is Hist, before and after a step.
LEMMA HistoryIs ==
  /\ \A c : History(c) = Hist(commits, c)
  /\ \A c : History(c)' = Hist(commits', c)
BY DEF History, Hist, None

-----------------------------------------------------------------------------
(* The moves of the others *)

\* What every move of another actor leaves alone, or leaves a note of while a
\* script is at work.
Noted ==
  /\ UNCHANGED <<session, excused>>
  /\ (head = "gone") <=> (head' = "gone")
  /\ local # None => local' # None
  /\ local = None => local' = None
  /\ Log(commits') /\ Len(commits) <= Len(commits')
  /\ \A n \in 1..Len(commits) : commits'[n] = commits[n]
  /\ merged \subseteq merged'
  /\ base' \in {base, rbase}
  /\ pc # "idle" =>
       /\ since \subseteq since'
       /\ "remote" \in since' \/ remote' = remote
       /\ "elsewhere" \in since' \/ elsewhere' = elsewhere
       /\ "ignored" \in since' \/ ignored' = ignored
       /\ "head" \in since' \/ head' = head
       /\ "head" \in since' \/ head # "feature" \/ Hist(commits, local) \subseteq Hist(commits', local')
       /\ "tree" \in since' \/ head = "gone" \/ Semantic(Files) # {} \/ Semantic(Files)' = {}
       /\ head = "feature" /\ since' \intersect {"tree", "head"} = {} =>
            /\ UNCHANGED <<local, files, index, noise>>
            /\ HeadTree' = HeadTree

\* The worktree after a move that leaves the branches and the files alone.
LEMMA SameTree ==
  ASSUME Typed, head # "feature" \/ local # None,
         Len(commits) <= Len(commits'), \A n \in 1..Len(commits) : commits'[n] = commits[n],
         HeadCommit' = HeadCommit
  PROVE  HeadTree' = HeadTree
BY Trees DEF HeadTree

\* What counts as changed depends on the files, the index, the noise and HEAD
\* alone.
LEMMA SameSemantic ==
  ASSUME UNCHANGED <<files, index, noise>>, HeadTree' = HeadTree
  PROVE  /\ Semantic(Files)' = Semantic(Files)
         /\ \A f : Row(f)' = Row(f) /\ Changed(f)' = Changed(f) /\ EolOnly(f)' = EolOnly(f)
BY DEF Semantic, Changed, EolOnly, Differs, Row

\* A fresh checkout has no changes.
LEMMA FreshTree ==
  ASSUME NEW c, CheckedOut(c), HeadCommit' = c, commits' = commits
  PROVE  Semantic(Files)' = {}
BY DEF CheckedOut, Semantic, Changed, EolOnly, Differs, HeadTree

\* The moves of the others that leave every branch where it is and check
\* nothing out.
Plain ==
  \/ \E f \in Files : Edit(f) \/ Stage(f) \/ ConvertLineEnds(f)
  \/ AddIgnoredFile \/ CheckOutElsewhere \/ Lock \/ GhLogin

\* A move that only writes files, the index or the like leaves every branch alone.
LEMMA PlainMove ==
  ASSUME Typed, OnOneBranch, Plain
  PROVE  /\ Typed' /\ OnOneBranch'
         /\ UNCHANGED <<refs, pulls, session, head, excused>>
<1> USE DEF refs, pulls, session, account, Move, Typed, OnOneBranch
<1>1. ASSUME NEW f \in Files, Edit(f)
      PROVE  Typed' /\ OnOneBranch' /\ UNCHANGED <<refs, pulls, session, head, excused>>
  <2>1. files \in [Files -> Contents]
    BY DEF Tree
  <2>2. PICK c \in Contents : files' = [files EXCEPT ![f] = c]
    BY <1>1 DEF Edit
  <2>3. files' \in [Files -> Contents]
    BY <2>1, <2>2
  <2> QED
    BY <1>1, <2>3 DEF Edit, Tree
<1>2. ASSUME NEW f \in Files, Stage(f)
      PROVE  Typed' /\ OnOneBranch' /\ UNCHANGED <<refs, pulls, session, head, excused>>
  <2>1. index \in [Files -> Contents] /\ files \in [Files -> Contents]
    BY DEF Tree
  <2>2. index' = [index EXCEPT ![f] = files[f]]
    BY <1>2 DEF Stage
  <2>3. index' \in [Files -> Contents]
    BY <2>1, <2>2
  <2> QED
    BY <1>2, <2>3 DEF Stage, Tree
<1>3. ASSUME NEW f \in Files, ConvertLineEnds(f)
      PROVE  Typed' /\ OnOneBranch' /\ UNCHANGED <<refs, pulls, session, head, excused>>
  BY <1>3 DEF ConvertLineEnds
<1>4. ASSUME AddIgnoredFile \/ CheckOutElsewhere \/ Lock \/ GhLogin
      PROVE  Typed' /\ OnOneBranch' /\ UNCHANGED <<refs, pulls, session, head, excused>>
  BY <1>4 DEF AddIgnoredFile, CheckOutElsewhere, Lock, GhLogin, worktree
<1> QED
  BY <1>1, <1>2, <1>3, <1>4 DEF Plain

\* A commit is made that changes one file.
LEMMA OnTopIsCommit ==
  ASSUME Typed, NEW c \in 1..Len(commits), CommitOnTop(c)
  PROVE  \E t \in Tree : Commit({c}, t)
<1>1. commits[c].tree \in [Files -> Contents]
  BY Trees DEF Tree
<1>2. PICK f \in Files, v \in Contents : Commit({c}, [commits[c].tree EXCEPT ![f] = v])
  BY DEF CommitOnTop
<1>3. [commits[c].tree EXCEPT ![f] = v] \in Tree
  BY <1>1 DEF Tree
<1> QED
  BY <1>2, <1>3

\* The moves of the others keep the types.
LEMMA OthersTyped ==
  ASSUME Typed, OnOneBranch, OthersMove
  PROVE  Typed' /\ OnOneBranch'
<1> USE DEF refs, pulls, session, account, worktree, None
<1>1. CASE Plain
  BY <1>1, PlainMove
<1>2. CASE CommitByHand
  <2>1. Commit({local}, index) /\ {local} \in SUBSET (1..Len(commits)) /\ index \in Tree
    <3>1. local \in 1..Len(commits)
      BY <1>2, Trees DEF CommitByHand, Typed, OnOneBranch
    <3> QED
      BY <1>2, <3>1 DEF CommitByHand, Typed
  <2>2. commits' \in Seq(Commits) /\ Log(commits') /\ Len(commits') = Len(commits) + 1
        /\ NewCommit = Len(commits) + 1
    BY <2>1, CommitMade
  <2> QED
    BY <1>2, <2>2, Trees DEF CommitByHand, Move, Typed, OnOneBranch
<1>3. CASE CommitElsewhere
  <2>1. local \in 1..Len(commits)
    BY <1>3, Trees DEF CommitElsewhere, Typed
  <2>2. PICK t \in Tree : Commit({local}, t)
    BY <1>3, <2>1, OnTopIsCommit DEF CommitElsewhere
  <2>3. commits' \in Seq(Commits) /\ Log(commits') /\ Len(commits') = Len(commits) + 1
        /\ NewCommit = Len(commits) + 1
    BY <2>1, <2>2, CommitMade
  <2>4. Typed'
    <3>1. /\ local' = NewCommit
          /\ UNCHANGED <<remote, lbase, base, rbase, merged, openPr, files, index, noise, head, seen>>
      BY <1>3, Zenon DEF CommitElsewhere, Move
    <3> QED
      BY <2>3, <3>1, Trees DEF Typed
  <2>5. head # "feature" /\ pc \notin {"remote", "deleteRemote"}
    BY <1>3, Zenon DEF CommitElsewhere, OnOneBranch
  <2>6. head' = head /\ pc' = pc
    BY <1>3 DEF CommitElsewhere, Move
  <2> QED
    BY <2>4, <2>5, <2>6 DEF OnOneBranch
<1>4. CASE PushByOther
  <2> DEFINE c == IF remote = None THEN rbase ELSE remote
  <2>1. c \in 1..Len(commits)
    BY Trees DEF Typed
  <2>2. CommitOnTop(c)
    BY <1>4 DEF PushByOther
  <2> HIDE DEF c
  <2>3. PICK t \in Tree : Commit({c}, t)
    BY <2>1, <2>2, OnTopIsCommit
  <2>4. commits' \in Seq(Commits) /\ Log(commits') /\ Len(commits') = Len(commits) + 1
        /\ NewCommit = Len(commits) + 1
    BY <2>1, <2>3, CommitMade
  <2> QED
    BY <1>4, <2>4, Trees DEF PushByOther, Move, Typed, OnOneBranch
<1>5. CASE MergePr
  <2>1. remote \in 1..Len(commits) /\ rbase \in 1..Len(commits)
    BY <1>5, Trees DEF MergePr, Typed
  <2>2. commits[remote].tree \in Tree
    BY <2>1, Trees
  <2>3. PICK ps \in SUBSET (1..Len(commits)) : Commit(ps, commits[remote].tree)
    BY <1>5, <2>1 DEF MergePr
  <2>4. commits' \in Seq(Commits) /\ Log(commits') /\ Len(commits') = Len(commits) + 1
        /\ NewCommit = Len(commits) + 1
    BY <2>2, <2>3, CommitMade
  <2>5. remote' \in {None, remote}
    BY <1>5 DEF MergePr
  <2> QED
    BY <1>5, <2>1, <2>4, <2>5, Trees DEF MergePr, Move, Typed, OnOneBranch
<1>6. CASE Switch
  <2>1. HeadCommit' \in 1..Len(commits) /\ CheckedOut(HeadCommit')
    BY <1>6, Trees DEF Switch, HeadCommit, Typed
  <2>2. files' \in Tree /\ index' \in Tree /\ noise' = {}
    BY <2>1, Trees DEF CheckedOut
  <2> QED
    BY <1>6, <2>2 DEF Switch, Move, Typed, OnOneBranch
<1>7. CASE PullFeature
  <2>1. remote \in 1..Len(commits) /\ CheckedOut(remote)
    BY <1>7, Trees DEF PullFeature, Typed
  <2>2. files' \in Tree /\ index' \in Tree /\ noise' = {}
    BY <2>1, Trees DEF CheckedOut
  <2> QED
    BY <1>7, <2>1, <2>2 DEF PullFeature, Move, Typed, OnOneBranch
<1>8. CASE FetchBase
  <2>1. rbase \in 1..Len(commits) /\ (CheckedOut(rbase) \/ UNCHANGED <<files, index, noise>>)
    BY <1>8 DEF FetchBase, Typed
  <2>2. files' \in Tree /\ index' \in Tree /\ noise' \subseteq Files
    BY <2>1, Trees DEF CheckedOut, Typed
  <2> QED
    BY <1>8, <2>1, <2>2 DEF FetchBase, Move, Typed, OnOneBranch
<1> QED
  BY <1>1, <1>2, <1>3, <1>4, <1>5, <1>6, <1>7, <1>8 DEF OthersMove, Plain

\* Each move of the others leaves alone what a script relies on, or a note in
\* since.
LEMMA OthersNoted ==
  ASSUME Typed, OnOneBranch, OthersMove
  PROVE  Noted
<1> USE DEF None
<1>0. head # "feature" \/ local # None
  BY DEF OnOneBranch
<1>1. CASE \E f \in Files : Edit(f) \/ Stage(f) \/ ConvertLineEnds(f)
  <2>1. PICK f \in Files : Edit(f) \/ Stage(f) \/ ConvertLineEnds(f)
    BY <1>1
  <2>2. /\ UNCHANGED <<session, excused, refs, pulls, head, elsewhere, ignored>>
        /\ pc # "idle" => since' = since \union {"tree"}
    BY <2>1, Zenon DEF Edit, Stage, ConvertLineEnds, Move
  <2> QED
    BY <2>2 DEF Noted, refs, pulls, session, Typed
<1>2. CASE AddIgnoredFile \/ CheckOutElsewhere \/ Lock \/ GhLogin
  <2>1. /\ UNCHANGED <<session, excused, refs, pulls, head, files, index, noise>>
    BY <1>2, Zenon DEF AddIgnoredFile, CheckOutElsewhere, Lock, GhLogin, Move, worktree
  <2>2. pc # "idle" =>
          /\ since \subseteq since'
          /\ "elsewhere" \in since' \/ elsewhere' = elsewhere
          /\ "ignored" \in since' \/ ignored' = ignored
    <3>1. CASE GhLogin
      BY <3>1 DEF GhLogin, worktree
    <3>2. CASE AddIgnoredFile
      BY <3>2 DEF AddIgnoredFile, Move
    <3>3. CASE CheckOutElsewhere
      BY <3>3 DEF CheckOutElsewhere, Move
    <3>4. CASE Lock
      BY <3>4 DEF Lock, Move
    <3> QED
      BY <1>2, <3>1, <3>2, <3>3, <3>4
  <2>3. HeadTree' = HeadTree
    BY <2>1 DEF HeadTree, HeadCommit, refs
  <2>4. Semantic(Files)' = Semantic(Files)
    BY <2>1, <2>3, SameSemantic
  <2> QED
    BY <2>1, <2>2, <2>3, <2>4 DEF Noted, refs, pulls, session, Typed
<1>3. CASE CommitByHand
  <2>1. /\ local \in 1..Len(commits) /\ index \in Tree
        /\ Commit({local}, index)
    BY <1>3, <1>0 DEF CommitByHand, Typed
  <2>2. /\ Log(commits') /\ Len(commits') = Len(commits) + 1 /\ NewCommit = Len(commits) + 1
        /\ \A n \in 1..Len(commits) : commits'[n] = commits[n]
        /\ Hist(commits, local) \subseteq Hist(commits', NewCommit)
    BY <2>1, CommitMade
  <2>3. /\ local' = NewCommit
        /\ UNCHANGED <<session, excused, remote, lbase, base, rbase, pulls, head, elsewhere, ignored>>
        /\ pc # "idle" => since' = since \union {"tree"}
    BY <1>3, Zenon DEF CommitByHand, Move, worktree
  <2> QED
    BY <2>1, <2>2, <2>3, Trees DEF Noted, pulls, session
<1>4. CASE CommitElsewhere
  <2>1. local \in 1..Len(commits)
    BY <1>4, Trees DEF CommitElsewhere, Typed
  <2>2. PICK t \in Tree : Commit({local}, t)
    BY <1>4, <2>1, OnTopIsCommit DEF CommitElsewhere
  <2>3. /\ Log(commits') /\ Len(commits') = Len(commits) + 1 /\ NewCommit = Len(commits) + 1
        /\ \A n \in 1..Len(commits) : commits'[n] = commits[n]
    BY <2>1, <2>2, CommitMade
  <2>4. /\ local' = NewCommit
        /\ UNCHANGED <<session, excused, remote, lbase, base, rbase, pulls, head, elsewhere, ignored,
                       files, index, noise>>
        /\ pc # "idle" => since' = since \union {"elsewhere"}
    BY <1>4, Zenon DEF CommitElsewhere, Move, worktree
  <2>5. head # "feature"
    BY <1>4, Zenon DEF CommitElsewhere, OnOneBranch
  <2>6. HeadTree' = HeadTree
    BY <2>3, <2>4, <2>5, SameTree, Trees DEF HeadCommit
  <2>7. Semantic(Files)' = Semantic(Files)
    BY <2>4, <2>6, SameSemantic
  <2> QED
    BY <2>1, <2>3, <2>4, <2>5, <2>7, Trees DEF Noted, pulls, session
<1>5. CASE PushByOther \/ MergePr
  <2>1. \E ps \in SUBSET (1..Len(commits)), t \in Tree : Commit(ps, t)
    <3>1. CASE PushByOther
      <4> DEFINE c == IF remote = None THEN rbase ELSE remote
      <4>1. c \in 1..Len(commits)
        BY Trees DEF Typed
      <4>2. CommitOnTop(c)
        BY <3>1 DEF PushByOther
      <4> HIDE DEF c
      <4>3. PICK t \in Tree : Commit({c}, t)
        BY <4>1, <4>2, OnTopIsCommit
      <4> QED
        BY <4>1, <4>3
    <3>2. CASE MergePr
      <4>1. remote \in 1..Len(commits) /\ rbase \in 1..Len(commits)
        BY <3>2, Trees DEF MergePr, Typed
      <4>2. commits[remote].tree \in Tree
        BY <4>1, Trees
      <4> QED
        BY <3>2, <4>1, <4>2 DEF MergePr
    <3> QED
      BY <1>5, <3>1, <3>2
  <2>2. /\ Log(commits') /\ Len(commits') = Len(commits) + 1
        /\ \A n \in 1..Len(commits) : commits'[n] = commits[n]
        /\ \A c \in 0..Len(commits) : Hist(commits', c) = Hist(commits, c)
    BY <2>1, CommitMade
  <2>3. /\ UNCHANGED <<local, session, excused, base, lbase, head, elsewhere, ignored, files, index, noise>>
        /\ pc # "idle" => since' = since \union {"remote"}
        /\ merged' = merged \/ merged' = merged \union {remote}
    BY <1>5, Zenon DEF PushByOther, MergePr, Move, worktree, pulls
  <2>4. HeadTree' = HeadTree
    BY <1>0, <2>2, <2>3, SameTree, Trees DEF HeadCommit
  <2>5. Semantic(Files)' = Semantic(Files)
    BY <2>3, <2>4, SameSemantic
  <2>6. Hist(commits', local') = Hist(commits, local)
    BY <2>2, <2>3 DEF Typed
  <2> QED
    BY <2>2, <2>3, <2>4, <2>5, <2>6, Trees DEF Noted, session
<1>6. CASE Switch
  <2>1. /\ UNCHANGED <<session, excused, refs, pulls, elsewhere, ignored>>
        /\ pc # "idle" => since' = since \union {"head"}
        /\ head # "gone" /\ head' # "gone"
        /\ HeadCommit' \in 1..Len(commits) /\ CheckedOut(HeadCommit')
    BY <1>6, Trees DEF Switch, Move, refs, HeadCommit, Typed
  <2>2. Semantic(Files)' = {}
    BY <2>1, FreshTree DEF refs
  <2> QED
    BY <2>1, <2>2 DEF Noted, refs, pulls, session, Typed
<1>7. CASE PullFeature
  <2>1. /\ UNCHANGED <<session, excused, commits, base, merged, remote, head, elsewhere, ignored>>
        /\ pc # "idle" => since' = since \union {"head"}
        /\ local # None /\ local' # None
        /\ HeadCommit' = remote /\ CheckedOut(remote)
    BY <1>7, <1>0 DEF PullFeature, Move, refs, pulls, HeadCommit, Typed
  <2>2. Semantic(Files)' = {}
    BY <2>1, FreshTree
  <2> QED
    BY <2>1, <2>2 DEF Noted, session, Typed
<1>8. CASE FetchBase
  <2>1. /\ UNCHANGED <<session, excused, commits, local, remote, merged, head, elsewhere, ignored>>
        /\ pc # "idle" => since' = since \union {"base"}
        /\ base' = rbase
    BY <1>8 DEF FetchBase, Move, pulls
  <2>2. head = "feature" => UNCHANGED <<files, index, noise>> /\ HeadTree' = HeadTree
    BY <1>8, <2>1 DEF FetchBase, HeadTree, HeadCommit
  <2>3. head = "gone" \/ Semantic(Files) # {} \/ Semantic(Files)' = {}
    <3>1. CASE head = "feature"
      BY <2>2, <3>1, SameSemantic
    <3>2. CASE head # "feature" /\ head # "gone"
      <4>1. CASE lbase' = rbase /\ CheckedOut(rbase)
        <5>1. HeadCommit' = rbase
          BY <2>1, <3>2, <4>1 DEF HeadCommit
        <5> QED
          BY <2>1, <4>1, <5>1, FreshTree
      <4>2. CASE UNCHANGED <<lbase, files, index, noise>>
        <5>1. HeadTree' = HeadTree
          BY <2>1, <4>2 DEF HeadTree, HeadCommit
        <5> QED
          BY <4>2, <5>1, SameSemantic
      <4> QED
        BY <1>8, <3>2, <4>1, <4>2 DEF FetchBase, Typed
    <3> QED
      BY <3>1, <3>2
  <2> QED
    BY <2>1, <2>2, <2>3 DEF Noted, session, Typed
<1> QED
  BY <1>1, <1>2, <1>3, <1>4, <1>5, <1>6, <1>7, <1>8 DEF OthersMove

\* A commit is kept where every tip lives on in a tip.
LEMMA TipsKept ==
  ASSUME Typed, AllKept, Log(commits'), excused \subseteq excused',
         \A t \in Tips : (\E s \in Tips' : Hist(commits, t) \subseteq Hist(commits', s))
                           \/ Hist(commits, t) \subseteq excused',
         \A n \in 1..Len(commits') : n \in 1..Len(commits) \/ \E s \in Tips' : n \in Hist(commits', s),
         base' \in Hist(commits', rbase')
  PROVE  AllKept'
<1>1. Log(commits)
  BY DEF Typed
<1>2. Covered(commits, Tips, excused)
  BY DEF AllKept
<1>3. Covered(commits', Tips', excused')
  BY <1>1, <1>2, CoverKept
<1> QED
  BY <1>3 DEF AllKept

\* A commit on top of a tip keeps everything.
LEMMA CommitKept ==
  ASSUME Typed, AllKept, NEW ps \in SUBSET (1..Len(commits)), NEW t \in Tree, Commit(ps, t),
         NewCommit \in Tips', excused' = excused,
         \A x \in Tips : x = None \/ x \in Tips' \/ x \in ps,
         \/ base' = base /\ rbase' = rbase
         \/ base' = base /\ rbase' = NewCommit /\ rbase \in ps
  PROVE  AllKept'
<1> USE DEF None
<1>1. /\ Log(commits) /\ Log(commits') /\ Len(commits) \in Nat
      /\ Len(commits') = Len(commits) + 1 /\ NewCommit = Len(commits) + 1
      /\ \A c \in 0..Len(commits) : Hist(commits', c) = Hist(commits, c)
      /\ NewCommit \in Hist(commits', NewCommit)
      /\ \A p \in ps : Hist(commits, p) \subseteq Hist(commits', NewCommit)
  BY CommitMade DEF Typed, Log
<1>2. Tips \subseteq 0..Len(commits)
  BY Trees DEF Tips, Typed
<1>3. Hist(commits, 0) = {}
  BY <1>1, HistMember
<1>4. ASSUME NEW x \in Tips
      PROVE  \E s \in Tips' : Hist(commits, x) \subseteq Hist(commits', s)
  <2>1. CASE x = None
    BY <1>3, <2>1
  <2>2. CASE x \in Tips'
    BY <1>1, <1>2, <2>2
  <2>3. CASE x \in ps
    BY <1>1, <2>3
  <2> QED
    BY <2>1, <2>2, <2>3
<1>5. \A n \in 1..Len(commits') : n \in 1..Len(commits) \/ n = NewCommit
  BY <1>1
<1>6. base \in Hist(commits, rbase)
  BY DEF AllKept
<1>8. rbase \in 0..Len(commits)
  BY DEF Typed
<1>7. base' \in Hist(commits', rbase')
  BY <1>1, <1>6, <1>8
<1> QED
  BY <1>1, <1>4, <1>5, <1>7, TipsKept

\* Where no commit is made, every branch must live on or be somewhere else.
LEMMA MoveKept ==
  ASSUME Typed, AllKept, commits' = commits, excused \subseteq excused',
         \A x \in Tips : (\E s \in Tips' : Hist(commits, x) \subseteq Hist(commits, s))
                           \/ Hist(commits, x) \subseteq excused',
         rbase' = rbase, base' \in {base, rbase}
  PROVE  AllKept'
<1>1. Log(commits) /\ rbase \in 1..Len(commits)
  BY DEF Typed
<1>2. base' \in Hist(commits, rbase)
  BY <1>1, HistMember DEF AllKept
<1> QED
  BY <1>1, <1>2, TipsKept

\* The others lose no commit: what they move or delete lives on elsewhere.
LEMMA OthersKeep ==
  ASSUME Typed, OnOneBranch, AllKept, OthersMove
  PROVE  AllKept'
<1> USE DEF None
<1>1. CASE Plain
  <2>1. UNCHANGED <<commits, local, remote, lbase, base, rbase, merged, excused>>
    BY <1>1, PlainMove DEF refs, pulls
  <2>2. Tips' = Tips
    BY <2>1 DEF Tips
  <2> QED
    BY <2>1, <2>2, MoveKept
<1>2. CASE CommitByHand
  <2>1. local \in 1..Len(commits) /\ index \in Tree
    BY <1>2 DEF CommitByHand, OnOneBranch, Typed
  <2>2. Commit({local}, index) /\ local' = NewCommit
        /\ UNCHANGED <<remote, lbase, base, rbase, merged, excused>>
    BY <1>2, Zenon DEF CommitByHand, Move, pulls
  <2> QED
    BY <2>1, <2>2, CommitKept DEF Tips
<1>3. CASE CommitElsewhere
  <2>1. local \in 1..Len(commits)
    BY <1>3 DEF CommitElsewhere, Typed
  <2>2. PICK t \in Tree : Commit({local}, t)
    BY <1>3, <2>1, OnTopIsCommit DEF CommitElsewhere
  <2>3. local' = NewCommit /\ UNCHANGED <<remote, lbase, base, rbase, merged, excused>>
    BY <1>3, Zenon DEF CommitElsewhere, Move, pulls
  <2> QED
    BY <2>1, <2>2, <2>3, CommitKept DEF Tips
<1>4. CASE PushByOther
  <2> DEFINE c == IF remote = None THEN rbase ELSE remote
  <2>1. c \in 1..Len(commits) /\ (remote = None \/ remote = c)
    BY Trees DEF Typed
  <2>2. CommitOnTop(c)
    BY <1>4 DEF PushByOther
  <2> HIDE DEF c
  <2>3. PICK t \in Tree : Commit({c}, t)
    BY <2>1, <2>2, OnTopIsCommit
  <2>4. remote' = NewCommit /\ UNCHANGED <<local, lbase, base, rbase, merged, excused>>
    BY <1>4, Zenon DEF PushByOther, Move, pulls
  <2> QED
    BY <2>1, <2>3, <2>4, CommitKept DEF Tips
<1>5. CASE MergePr
  <2>1. remote \in 1..Len(commits) /\ rbase \in 1..Len(commits) /\ commits[remote].tree \in Tree
    BY <1>5, Trees DEF MergePr, Typed
  <2>2. PICK ps \in SUBSET (1..Len(commits)) : rbase \in ps /\ Commit(ps, commits[remote].tree)
    BY <1>5, <2>1 DEF MergePr
  <2>3. rbase' = NewCommit /\ merged' = merged \union {remote} /\ UNCHANGED <<local, lbase, base, excused>>
    BY <1>5, Zenon DEF MergePr, Move
  <2> QED
    BY <2>1, <2>2, <2>3, CommitKept DEF Tips
<1>6. CASE Switch
  <2>1. UNCHANGED <<commits, local, remote, lbase, base, rbase, merged, excused>>
    BY <1>6, Zenon DEF Switch, Move, refs, pulls
  <2>2. Tips' = Tips
    BY <2>1 DEF Tips
  <2> QED
    BY <2>1, <2>2, MoveKept
<1>7. CASE PullFeature
  <2>1. /\ UNCHANGED <<commits, remote, lbase, base, rbase, merged, excused>>
        /\ local' = remote /\ local \in Hist(commits, remote)
    BY <1>7, HistoryIs, Zenon DEF PullFeature, Move, pulls
  <2>2. Hist(commits, local) \subseteq Hist(commits, remote)
    BY <2>1, HistTransitive, Trees DEF Typed
  <2> QED
    BY <2>1, <2>2, MoveKept DEF Tips
<1>8. CASE FetchBase
  <2>1. /\ UNCHANGED <<commits, local, remote, rbase, merged, excused>>
        /\ base' = rbase
        /\ lbase' = lbase \/ (lbase' = rbase /\ lbase \in Hist(commits, rbase))
    BY <1>8, HistoryIs, Zenon DEF FetchBase, Move, pulls
  <2>2. /\ Hist(commits, base) \subseteq Hist(commits, rbase)
        /\ lbase' = rbase => lbase' = lbase \/ Hist(commits, lbase) \subseteq Hist(commits, rbase)
    BY <2>1, HistTransitive, Trees DEF Typed, AllKept
  <2> QED
    BY <2>1, <2>2, MoveKept DEF Tips
<1> QED
  BY <1>1, <1>2, <1>3, <1>4, <1>5, <1>6, <1>7, <1>8 DEF OthersMove, Plain

\* What is merged stays merged, whatever the others do.
LEMMA ProvenStays ==
  ASSUME Typed, AllKept, Noted
  PROVE  \A c : Proven(c) => Proven(c)'
<1>1. Log(commits) /\ Log(commits') /\ Len(commits) <= Len(commits')
      /\ \A n \in 1..Len(commits) : commits'[n] = commits[n]
  BY DEF Typed, Noted
<1>2. base \in Hist(commits, rbase)
  BY DEF AllKept
<1>3. base \in 0..Len(commits) /\ rbase \in 0..Len(commits)
  <2>1. base \in 1..Len(commits) /\ rbase \in 1..Len(commits)
    BY DEF Typed
  <2> QED
    BY <2>1
<1>4. Hist(commits, base) \subseteq Hist(commits, rbase)
  BY <1>1, <1>2, <1>3, HistTransitive
<1>5. \A c \in 0..Len(commits) : Hist(commits', c) = Hist(commits, c)
  BY <1>1, HistAppended
<1>6. Hist(commits, base) \subseteq Hist(commits', base')
  BY <1>3, <1>4, <1>5 DEF Noted
<1> QED
  BY <1>6 DEF Proven, Noted

\* A noted move leaves a cleanup all it relies on.
LEMMA OthersLeaveCleanup ==
  ASSUME Typed, AllKept, Noted, Approved, Deletable, Discardable, Unshared
  PROVE  Approved' /\ Deletable' /\ Discardable' /\ Unshared'
<1>1. UNCHANGED <<pc, approval, seen, report>>
  BY DEF Noted, session
<1>2. Approved'
  BY <1>1 DEF Approved, ApprovedCleanup, Ask, Seen, Noted, Committing, Pushing, Removing, Removed, Typed, Log
<1>3. Deletable'
  <2>1. Proven(Seen.target) => Proven(Seen.target)'
    BY <1>1, ProvenStays DEF Seen, Proven
  <2> QED
    BY <1>1, <2>1 DEF Deletable, Ask, Seen, Noted, Removing, Removed
<1>4. Discardable'
  BY <1>1 DEF Discardable, Noted, Removing
<1>5. Unshared'
  BY <1>1 DEF Unshared, Noted, Removing, Ask
<1> QED
  BY <1>2, <1>3, <1>4, <1>5

\* A noted move leaves a publish script all it relies on.
LEMMA OthersLeavePublish ==
  ASSUME Typed, Noted, AsApproved, OnBranch, OnOneBranch
  PROVE  AsApproved' /\ OnBranch'
<1>1. UNCHANGED <<pc, approval, seen, report>>
  BY DEF Noted, session
<1>2. OnBranch'
  BY <1>1 DEF OnBranch, Noted, Committing
<1>3. SUFFICES ASSUME (pc \in Committing /\ Undisturbed)'
               PROVE  AsApproved'
  BY <1>2 DEF AsApproved
<1>4. pc \in Committing /\ Undisturbed
  BY <1>1, <1>3 DEF Undisturbed, Noted, Committing
<1>5. head = "feature" /\ local = approval.fp.head
  BY <1>4 DEF AsApproved
<1>6. UNCHANGED <<head, local, files, index, noise>> /\ HeadTree' = HeadTree
  BY <1>3, <1>4, <1>5 DEF Undisturbed, Noted, Committing
<1>7. HeadCommit' = HeadCommit /\ HeadCommit = local
  BY <1>5, <1>6 DEF HeadCommit
<1>9. Semantic(approval.scope)' = Semantic(approval.scope)
  BY <1>1, <1>6 DEF Semantic, Changed, EolOnly, Differs
<1>10. Fingerprint(approval.scope)' = Fingerprint(approval.scope)
  BY <1>1, <1>6, <1>7, <1>9 DEF Fingerprint, Row
<1>11. ApprovedTree(approval.fp)' = ApprovedTree(approval.fp)
  <2>1. commits'[approval.fp.head].tree = commits[approval.fp.head].tree
    BY <1>5, <1>6, <1>7 DEF HeadTree
  <2> QED
    BY <1>1, <2>1 DEF ApprovedTree
<1> QED
  BY <1>1, <1>4, <1>5, <1>6, <1>9, <1>10, <1>11 DEF AsApproved

-----------------------------------------------------------------------------
(* The steps of the scripts *)

\* The inductive invariant.
Inv == /\ Typed /\ OnOneBranch /\ AllKept
       /\ Approved /\ Deletable /\ Discardable /\ Unshared
       /\ AsApproved /\ OnBranch

Session == [paths: SUBSET Files, sha: 0..Len(commits), gone: {{}}]

\* A script that ends leaves nothing to rely on.
LEMMA Ended ==
  ASSUME NEW r, End(r)
  PROVE  /\ pc' = "idle" /\ seen' = Nothing /\ report' = r /\ since' = {}
         /\ Approved' /\ Deletable' /\ Discardable' /\ Unshared' /\ AsApproved' /\ OnBranch'
BY DEF End, NoApproval, Approved, ApprovedCleanup, Deletable, Discardable, Unshared, AsApproved,
       OnBranch, Removing, Removed, Committing, Pushing

\* A step that only looks leaves the repository as it is.
LEMMA OnlyLooks ==
  ASSUME Typed, AllKept, OnOneBranch, UNCHANGED <<repo, excused>>, seen' \in Session \/ seen' = Nothing
  PROVE  /\ UNCHANGED <<commits, local, remote, lbase, base, rbase, merged, openPr, files, index,
                        noise, head, elsewhere, ignored, switched, locked, gh>>
         /\ Typed' /\ AllKept'
         /\ pc' \notin {"remote", "deleteRemote"} \union Removed => OnOneBranch'
<1>1. UNCHANGED <<commits, local, remote, lbase, base, rbase, merged, openPr, files, index,
                  noise, head, elsewhere, ignored, switched, locked, gh>>
  BY DEF repo, refs, pulls, worktree, account
<1>2. Nothing \in Session
  BY DEF Nothing, Session, None, Typed, Log
<1>3. seen' \in Session
  BY <1>2
<1>4. Typed'
  BY <1>1, <1>3 DEF Typed, Session
<1>5. Tips' = Tips /\ excused' = excused
  BY <1>1 DEF Tips
<1>6. AllKept'
  BY <1>1, <1>5 DEF AllKept
<1>7. pc' \notin {"remote", "deleteRemote"} \union Removed => OnOneBranch'
  BY <1>1, Zenon DEF OnOneBranch, Removed
<1> QED
  BY <1>1, <1>4, <1>6, <1>7

\* A script that ends and has only looked.
LEMMA LooksAndEnds ==
  ASSUME Inv, UNCHANGED <<repo, excused>>, NEW r, End(r)
  PROVE  Inv'
<1>1. pc' = "idle" /\ seen' = Nothing
      /\ Approved' /\ Deletable' /\ Discardable' /\ Unshared' /\ AsApproved' /\ OnBranch'
  BY Ended
<1> QED
  BY <1>1, OnlyLooks DEF Inv, Removed

\* A preview only looks, and notes what is there for the approval.
LEMMA PreviewSteps ==
  ASSUME Inv, (\E scope \in Scopes : PreparePublish(scope)) \/ PreparePr \/ PrepareCleanup
  PROVE  Inv'
<1>1. UNCHANGED <<repo, pc, seen, since, excused>> /\ pc = "idle"
  BY DEF PreparePublish, PreparePr, PrepareCleanup
<1>2. seen' \in Session
  BY <1>1 DEF Inv, Typed, Session
<1>3. Typed' /\ AllKept' /\ OnOneBranch'
  BY <1>1, <1>2, OnlyLooks DEF Inv, Removed
<1>4. Deletable' /\ Discardable' /\ Unshared' /\ AsApproved' /\ OnBranch'
  BY <1>1 DEF Deletable, Discardable, Unshared, AsApproved, OnBranch, Removing, Removed, Committing
<1>5. /\ ApprovedCleanup'
      /\ (approval.kind = "publish" => approval.scope \subseteq Files)'
      /\ (approval.kind = "push" => approval.head \in 1..Len(commits))'
  <2>1. CASE \E scope \in Scopes : PreparePublish(scope)
    <3>1. head = "feature" /\ local \in 1..Len(commits)
      BY <2>1 DEF PreparePublish, Inv, Typed, OnOneBranch, None
    <3> QED
      BY <2>1, <3>1, <1>3, ScopeAssumption DEF PreparePublish, ApprovedCleanup, HeadCommit, repo, refs
  <2>2. CASE PreparePr
    BY <2>2 DEF PreparePr, ApprovedCleanup
  <2>3. CASE PrepareCleanup
    <3>1. PICK r \in Requests(Inspection) :
             approval' = [kind |-> "cleanup", seen |-> Inspection, ask |-> r]
      BY <2>3 DEF PrepareCleanup
    <3>2. /\ r \in [branch: BOOLEAN, remote: BOOLEAN]
          /\ r.branch => Inspection.branch
          /\ r.remote => r.branch
          /\ r.remote /\ Inspection.remote # None => Inspection.remoteDelete
      BY <3>1, Zenon DEF Requests
    <3>3. Inspection.remoteDelete /\ Inspection.remote # None => Inspection.remote = Inspection.target
      BY <2>3 DEF PrepareCleanup, Inspection, InspectionAllowed, FeatureAllowed, FeatureInspection,
                  BaseInspection, TrackedAllowed
    <3>4. approval'.kind = "cleanup" /\ approval'.seen = Inspection /\ approval'.ask = r
      BY <3>1
    <3> HIDE DEF Inspection
    <3>5. ApprovedCleanup'
      BY <3>2, <3>3, <3>4, Zenon DEF ApprovedCleanup, Ask, Seen
    <3> QED
      BY <3>4, <3>5
  <2> QED
    BY <2>1, <2>2, <2>3
<1> QED
  BY <1>1, <1>3, <1>4, <1>5 DEF Inv, Approved, Removing, Removed, Committing, Pushing

\* The part of the invariant that is about the cleanup means nothing elsewhere.
LEMMA NoCleanup ==
  ASSUME pc' \notin Removing \union Removed
  PROVE  Deletable' /\ Discardable' /\ Unshared'
BY DEF Deletable, Discardable, Unshared, Removing, Removed

\* The checks of the publish scripts change nothing but where the script is.
LEMMA PublishLooks ==
  ASSUME Inv, CheckApproval \/ CheckScope \/ CheckHead \/ Compare \/ Verify \/ CheckPublished \/ ListPrs
  PROVE  Inv'
<1>1. UNCHANGED <<repo, excused>>
  BY DEF CheckApproval, CheckScope, CheckHead, Compare, Verify, CheckPublished, ListPrs
<1>2. ASSUME NEW r, End(r) PROVE Inv'
  BY <1>1, <1>2, LooksAndEnds
<1>3. \A gone : Blocked(gone) => Inv'
  BY <1>2 DEF Blocked
<1> HIDE DEF Blocked
<1>4. CASE CheckApproval
  <2>1. SUFFICES ASSUME head = "feature", Fingerprint(approval.scope) = approval.fp,
                        pc' = "scope", since' = {}, UNCHANGED <<approval, seen, report>>,
                        approval.kind = "publish"
                 PROVE  Inv'
    BY <1>3, <1>4 DEF CheckApproval
  <2>2. Typed' /\ AllKept' /\ OnOneBranch' /\ head' = "feature" /\ local' = local
    BY <1>1, <2>1, OnlyLooks DEF Inv, Removed, Typed, Session
  <2>3. Deletable' /\ Discardable' /\ Unshared'
    BY <2>1, NoCleanup DEF Removing, Removed
  <2>4. local = approval.fp.head
    BY <2>1 DEF Fingerprint, HeadCommit
  <2>5. Fingerprint(approval.scope)' = approval'.fp
    BY <1>1, <2>1 DEF Fingerprint, HeadCommit, Row, Semantic, Changed, EolOnly, Differs, HeadTree,
                      repo, refs, worktree
  <2>6. AsApproved' /\ OnBranch'
    BY <2>1, <2>2, <2>4, <2>5 DEF AsApproved, OnBranch
  <2>7. Approved'
    BY <2>1 DEF Inv, Approved, ApprovedCleanup, Removing, Removed, Committing, Pushing
  <2> QED
    BY <2>2, <2>3, <2>6, <2>7 DEF Inv
<1>5. CASE CheckScope
  <2>1. SUFFICES ASSUME \A f \in Files \ approval.scope : index[f] = HeadTree[f],
                        pc = "scope", pc' = "add", seen' = [seen EXCEPT !.paths = Semantic(approval.scope)],
                        UNCHANGED <<approval, report, since>>
                 PROVE  Inv'
    BY <1>3, <1>5 DEF CheckScope
  <2>2. approval.kind = "publish" /\ approval.scope \subseteq Files
    BY <2>1 DEF Inv, Approved, Committing
  <2>3. Semantic(approval.scope) \in SUBSET Files
    BY <2>2 DEF Semantic
  <2>4. seen' \in Session /\ seen'.paths = Semantic(approval.scope)
    BY <2>1, <2>3 DEF Inv, Typed, Session
  <2>5. Typed' /\ AllKept' /\ OnOneBranch'
    BY <1>1, <2>1, <2>4, OnlyLooks DEF Inv, Removed
  <2>6. Deletable' /\ Discardable' /\ Unshared'
    BY <2>1, NoCleanup DEF Removing, Removed
  <2>7. Approved'
    BY <1>1, <2>1, OnlyLooks DEF Inv, Approved, ApprovedCleanup, Ask, Seen, Removing, Removed, Committing, Pushing
  <2>8. ASSUME Undisturbed PROVE AsApproved'
    <3>1. head = "feature" /\ local = approval.fp.head /\ Fingerprint(approval.scope) = approval.fp
      BY <2>1, <2>8 DEF Inv, AsApproved, Committing
    <3>2. Fingerprint(approval.scope)' = Fingerprint(approval.scope)
          /\ Semantic(approval.scope)' = Semantic(approval.scope)
          /\ HeadTree' = HeadTree /\ head' = head /\ local' = local /\ index' = index
      BY <1>1, <2>1 DEF Fingerprint, HeadCommit, Row, Semantic, Changed, EolOnly, Differs, HeadTree,
                        repo, refs, worktree
    <3> QED
      BY <2>1, <2>4, <3>1, <3>2 DEF AsApproved
  <2>9. AsApproved'
    BY <2>1, <2>8 DEF AsApproved, Undisturbed
  <2>10. OnBranch'
    BY <1>1, <2>1 DEF Inv, OnBranch, Committing, repo, worktree
  <2> QED
    BY <2>5, <2>6, <2>7, <2>9, <2>10 DEF Inv
<1>6. CASE CheckHead \/ Compare \/ Verify \/ CheckPublished \/ ListPrs
  <2>1. SUFFICES ASSUME pc \in {"idle", "compare", "list"}, pc' \in {"compare", "pushHead", "list", "create"},
                        pc' \in Pushing => approval.kind = "push",
                        since' = {} \/ since' = since, UNCHANGED <<approval, seen, report>>
                 PROVE  Inv'
    <3>1. CASE CheckHead
      BY <1>3, <3>1 DEF CheckHead, Pushing
    <3>2. CASE Compare
      BY <1>2, <3>2 DEF Compare, Pushing, Inv, Approved
    <3>3. CASE Verify
      BY <1>2, <1>3, <3>3 DEF Verify
    <3>4. CASE CheckPublished
      BY <1>3, <3>4 DEF CheckPublished, Pushing
    <3>5. CASE ListPrs
      BY <1>2, <1>3, <3>5 DEF ListPrs, Pushing
    <3> QED
      BY <1>6, <3>1, <3>2, <3>3, <3>4, <3>5
  <2>2. Typed' /\ AllKept' /\ OnOneBranch' /\ commits' = commits
    BY <1>1, <2>1, OnlyLooks DEF Inv, Removed, Typed, Session
  <2>3. Deletable' /\ Discardable' /\ Unshared'
    BY <2>1, NoCleanup DEF Removing, Removed
  <2>4. AsApproved' /\ OnBranch'
    BY <2>1 DEF AsApproved, OnBranch, Committing
  <2>5. Approved'
    BY <2>1, <2>2 DEF Inv, Approved, ApprovedCleanup, Ask, Seen, Removing, Removed, Committing, Pushing
  <2> QED
    BY <2>2, <2>3, <2>4, <2>5 DEF Inv
<1> QED
  BY <1>4, <1>5, <1>6

\* Staging the approved paths makes the index the approved tree.
LEMMA AddStep ==
  ASSUME Inv, Add
  PROVE  Inv'
<1>1. UNCHANGED <<commits, local, remote, lbase, base, rbase, merged, openPr, files, head,
                  elsewhere, excused>>
  BY DEF Add, refs, pulls
<1>2. Tips' = Tips
  BY <1>1 DEF Tips
<1>3. AllKept'
  BY <1>1, <1>2 DEF Inv, AllKept
<1>4. CASE Blocked({}) /\ UNCHANGED <<index, noise>>
  <2>1. pc' = "idle" /\ seen' = Nothing
        /\ Approved' /\ Deletable' /\ Discardable' /\ Unshared' /\ AsApproved' /\ OnBranch'
    BY <1>4, Ended DEF Blocked
  <2>2. Typed'
    BY <1>1, <1>4, <2>1 DEF Inv, Typed, Nothing, None, Log
  <2>3. OnOneBranch'
    BY <1>1, <2>1, Zenon DEF Inv, OnOneBranch, Removed
  <2> QED
    BY <1>3, <2>1, <2>2, <2>3 DEF Inv
<1>5. CASE /\ index' = [f \in Files |-> IF f \in seen.paths THEN files[f] ELSE index[f]]
           /\ noise' = noise \ seen.paths
           /\ pc = "add" /\ pc' = "commit"
           /\ UNCHANGED <<approval, seen, report, since>>
  <2>1. files \in [Files -> Contents] /\ index \in [Files -> Contents]
    BY DEF Inv, Typed, Tree
  <2>2. index' \in Tree
    BY <1>5, <2>1 DEF Tree
  <2>3. Typed'
    BY <1>1, <1>5, <2>2 DEF Inv, Typed
  <2>4. OnOneBranch' /\ Deletable' /\ Discardable' /\ Unshared'
    <3>1. Deletable' /\ Discardable' /\ Unshared'
      BY <1>5, NoCleanup DEF Removing, Removed
    <3>2. OnOneBranch'
      BY <1>1, <1>5, Zenon DEF Inv, OnOneBranch, Removed
    <3> QED
      BY <3>1, <3>2
  <2>5. Approved'
    BY <1>1, <1>5 DEF Inv, Approved, ApprovedCleanup, Ask, Seen, Removing, Removed, Committing, Pushing
  <2>6. OnBranch'
    BY <1>1, <1>5 DEF Inv, OnBranch, Committing
  <2>7. ASSUME Undisturbed PROVE index' = ApprovedTree(approval.fp) /\ head = "feature" /\ local = approval.fp.head
    <3>1. /\ head = "feature" /\ local = approval.fp.head
          /\ Fingerprint(approval.scope) = approval.fp
          /\ seen.paths = Semantic(approval.scope)
          /\ \A f \in Files \ approval.scope : index[f] = HeadTree[f]
      BY <1>5, <2>7 DEF Inv, AsApproved, Committing
    <3> DEFINE rows == [f \in Semantic(approval.scope) |-> [row |-> Row(f), content |-> files[f]]]
    <3>2. approval.fp.rows = rows
      BY <3>1 DEF Fingerprint
    <3>3. DOMAIN approval.fp.rows = Semantic(approval.scope)
          /\ \A f \in Semantic(approval.scope) : approval.fp.rows[f].content = files[f]
      BY <3>2
    <3> HIDE DEF rows
    <3>4. HeadTree = commits[approval.fp.head].tree
      BY <3>1 DEF HeadTree, HeadCommit
    <3>5. \A f \in Files \ Semantic(approval.scope) : index[f] = HeadTree[f]
      BY <3>1 DEF Semantic, Changed, EolOnly, Differs
    <3>6. ApprovedTree(approval.fp) = [f \in Files |-> IF f \in seen.paths THEN files[f] ELSE HeadTree[f]]
      BY <3>1, <3>3, <3>4 DEF ApprovedTree
    <3>7. index' = ApprovedTree(approval.fp)
      BY <1>5, <3>1, <3>5, <3>6
    <3> QED
      BY <3>1, <3>7
  <2>8. ApprovedTree(approval.fp)' = ApprovedTree(approval.fp)
    BY <1>1, <1>5 DEF ApprovedTree
  <2>9. AsApproved'
    BY <1>1, <1>5, <2>7, <2>8 DEF AsApproved, Undisturbed
  <2> QED
    BY <1>3, <2>3, <2>4, <2>5, <2>6, <2>9 DEF Inv
<1> QED
  BY <1>4, <1>5 DEF Add

\* The commit is one more tip over the old HEAD.
LEMMA MakeCommitStep ==
  ASSUME Inv, MakeCommit
  PROVE  Inv'
<1> USE DEF None
<1>1. UNCHANGED <<remote, base, rbase, merged, openPr, files, index, noise, head, elsewhere, excused>>
  BY DEF MakeCommit, pulls, worktree
<1>2. CASE Blocked({}) /\ UNCHANGED <<commits, local, lbase>>
  <2>1. UNCHANGED <<repo, excused>>
    BY <1>1, <1>2 DEF MakeCommit, repo, refs
  <2> QED
    BY <1>2, <2>1, LooksAndEnds DEF Blocked
<1>3. CASE /\ pc = "commit" /\ Commit({HeadCommit}, index)
           /\ IF head = "feature" THEN local' = NewCommit /\ UNCHANGED lbase
                                  ELSE lbase' = NewCommit /\ UNCHANGED local
           /\ pc' = "push" /\ seen' = [seen EXCEPT !.sha = NewCommit]
           /\ UNCHANGED <<approval, report, since>>
  <2>1. HeadCommit \in 1..Len(commits) /\ index \in Tree
    BY Trees DEF Inv, Typed, OnOneBranch
  <2>2. /\ commits' \in Seq(Commits) /\ Log(commits')
        /\ Len(commits') = NewCommit /\ NewCommit = Len(commits) + 1 /\ Len(commits) \in Nat
        /\ NewCommit \in Hist(commits', NewCommit)
    BY <1>3, <2>1, CommitMade, Trees DEF Inv
  <2>3. seen'.sha = NewCommit /\ seen'.paths = seen.paths /\ seen'.gone = seen.gone
        /\ seen' \in [paths: SUBSET Files, sha: 0..Len(commits'), gone: {{}}]
    BY <1>3, <2>2 DEF Inv, Typed
  <2>4. Typed'
    <3>1. local' \in 0..Len(commits') /\ lbase' \in 1..Len(commits')
      BY <1>3, <2>2 DEF Inv, Typed
    <3>2. {base, rbase} \union merged \subseteq 1..Len(commits') /\ remote \in 0..Len(commits')
      <4>1. 1..Len(commits) \subseteq 1..Len(commits') /\ 0..Len(commits) \subseteq 0..Len(commits')
        BY <2>2
      <4> QED
        BY <4>1 DEF Inv, Typed
    <3> QED
      BY <1>1, <2>2, <2>3, <3>1, <3>2 DEF Inv, Typed
  <2>5. OnOneBranch'
    <3>1. head = "feature" => ~elsewhere /\ local # None
      BY Zenon DEF Inv, OnOneBranch
    <3>2. head' = "feature" => local' # None
      BY <1>1, <1>3, <2>2, <3>1
    <3> QED
      BY <1>1, <1>3, <3>1, <3>2, Zenon DEF OnOneBranch, Removed
  <2>6. AllKept'
    BY <1>1, <1>3, <2>1, CommitKept DEF Inv, HeadCommit, Tips
  <2>7. Deletable' /\ Discardable' /\ Unshared'
    BY <1>3, NoCleanup DEF Removing, Removed
  <2>8. Approved'
    BY <1>1, <1>3, <2>2 DEF Inv, Approved, ApprovedCleanup, Ask, Seen, Removing, Removed, Committing, Pushing
  <2>9. AsApproved'
    BY <1>3 DEF AsApproved, Committing
  <2>10. OnBranch'
    BY <1>1, <1>3, <2>2, <2>3 DEF Inv, OnBranch, Committing
  <2> QED
    BY <2>4, <2>5, <2>6, <2>7, <2>8, <2>9, <2>10 DEF Inv
<1> QED
  BY <1>2, <1>3 DEF MakeCommit

\* A push is a fast-forward.
LEMMA PushKeeps ==
  ASSUME Inv, Pushes \/ UNCHANGED remote,
         UNCHANGED <<commits, local, lbase, base, rbase, merged, openPr, files, index, noise, head,
                     elsewhere, excused>>,
         seen' \in Session \/ seen' = Nothing, pc' \notin Removed
  PROVE  Typed' /\ AllKept' /\ OnOneBranch'
<1> USE DEF None
<1>1. Nothing \in Session
  BY DEF Nothing, Session, Inv, Typed, Log
<1>2. remote' = remote \/ (remote' = local /\ local # None /\ (remote = None \/ remote \in Hist(commits, local)))
  BY HistoryIs, Zenon DEF Pushes, FastForward
<1>3. Typed'
  BY <1>1, <1>2 DEF Inv, Typed, Session
<1>4. Log(commits) /\ remote \in 0..Len(commits) /\ local \in 0..Len(commits)
  BY DEF Inv, Typed
<1>5. remote' = remote \/ (remote' = local /\ Hist(commits, remote) \subseteq Hist(commits, local))
  BY <1>2, <1>4, HistTransitive, HistMember
<1>6. AllKept'
  BY <1>5, MoveKept DEF Inv, Tips
<1>7. OnOneBranch'
  BY Zenon DEF Inv, OnOneBranch, Removed
<1> QED
  BY <1>3, <1>6, <1>7

\* A push moves the remote branch to a commit that has the old one in its history.
LEMMA PushSteps ==
  ASSUME Inv, PushCommit \/ PushHead
  PROVE  Inv'
<1>1. /\ UNCHANGED <<commits, local, lbase, base, rbase, merged, openPr, files, index, noise, head,
                     elsewhere, excused>>
      /\ Pushes \/ UNCHANGED remote
  BY Zenon DEF PushCommit, PushHead, pulls, worktree
<1>2. ASSUME NEW r, End(r) PROVE Inv'
  <2>1. pc' = "idle" /\ seen' = Nothing
        /\ Approved' /\ Deletable' /\ Discardable' /\ Unshared' /\ AsApproved' /\ OnBranch'
    BY <1>2, Ended
  <2> QED
    BY <1>1, <2>1, PushKeeps DEF Inv, Removed
<1>3. CASE pc = "pushHead" /\ pc' = "verify" /\ UNCHANGED <<approval, seen, report, since>>
  <2>1. Typed' /\ AllKept' /\ OnOneBranch'
    BY <1>1, <1>3, PushKeeps DEF Inv, Removed, Typed, Session
  <2>2. Deletable' /\ Discardable' /\ Unshared'
    BY <1>3, NoCleanup DEF Removing, Removed
  <2>3. AsApproved' /\ OnBranch'
    BY <1>3 DEF AsApproved, OnBranch, Committing
  <2>4. Approved'
    BY <1>1, <1>3 DEF Inv, Approved, ApprovedCleanup, Ask, Seen, Removing, Removed, Committing, Pushing
  <2> QED
    BY <2>1, <2>2, <2>3, <2>4 DEF Inv
<1>4. (\E r : End(r)) \/ (pc = "pushHead" /\ pc' = "verify" /\ UNCHANGED <<approval, seen, report, since>>)
  BY Zenon DEF PushCommit, PushHead
<1> QED
  BY <1>2, <1>3, <1>4

\* A pull request changes no commit and no branch.
LEMMA CreatePrStep ==
  ASSUME Inv, CreatePr
  PROVE  Inv'
<1>1. /\ UNCHANGED <<commits, local, remote, lbase, base, rbase, merged, files, index, noise, head,
                     elsewhere, excused>>
      /\ openPr' = openPr \/ (openPr' = TRUE /\ remote # None)
      /\ \E r : End(r)
  BY Zenon DEF CreatePr, refs, worktree, Blocked
<1>2. /\ pc' = "idle" /\ seen' = Nothing
      /\ Approved' /\ Deletable' /\ Discardable' /\ Unshared' /\ AsApproved' /\ OnBranch'
  BY <1>1, Ended
<1>3. openPr' => remote # None
  BY <1>1 DEF Inv, Typed
<1>4. Typed'
  BY <1>1, <1>2, <1>3 DEF Inv, Typed, Nothing, None, Log
<1>5. AllKept'
  <2>1. Tips' = Tips
    BY <1>1 DEF Tips
  <2> QED
    BY <1>1, <2>1 DEF Inv, AllKept
<1>6. OnOneBranch'
  BY <1>1, <1>2, Zenon DEF Inv, OnOneBranch, Removed
<1> QED
  BY <1>2, <1>4, <1>5, <1>6 DEF Inv

\* Every step of the publish scripts keeps the invariant.
LEMMA PublishSteps ==
  ASSUME Inv, PublishStep
  PROVE  Inv'
BY PreviewSteps, PublishLooks, AddStep, MakeCommitStep, PushSteps, CreatePrStep DEF PublishStep

\* The second inspection agrees with the approval, and proves the branch merged.
LEMMA InspectAgainStep ==
  ASSUME Inv, InspectAgain
  PROVE  Inv'
<1> USE DEF None
<1>1. UNCHANGED <<repo, excused>>
  BY DEF InspectAgain
<1>2. CASE Blocked({})
  BY <1>1, <1>2, LooksAndEnds DEF Blocked
<1>3. CASE /\ approval.kind = "cleanup"
           /\ Selectable /\ InspectionAllowed /\ Inspection = Seen
           /\ Go("ignored") /\ since' = {}
  <2>1. pc' = "ignored" /\ UNCHANGED <<approval, seen, report>>
    BY <1>3 DEF Go
  <2>2. /\ Typed' /\ AllKept' /\ OnOneBranch'
        /\ UNCHANGED <<commits, local, remote, lbase, base, rbase, merged, openPr, files, index,
                       noise, head, elsewhere, ignored, switched, locked, gh>>
    BY <1>1, <2>1, OnlyLooks DEF Inv, Removed, Typed, Session
  <2>3. AsApproved' /\ OnBranch'
    BY <2>1 DEF AsApproved, OnBranch, Committing
  <2>4. Approved'
    BY <1>3, <2>1 DEF Inv, Approved, ApprovedCleanup, Ask, Seen, Removing, Removed, Committing, Pushing
  <2>5. Ask.branch => Seen.branch
    BY <1>3, Zenon DEF Inv, Approved, ApprovedCleanup
  <2>6. Seen.branch => Seen.target = local /\ Evidence(local) # "none" /\ Seen.remote = remote
    <3>1. CASE head = "feature"
      BY <1>3, <3>1 DEF InspectionAllowed, FeatureAllowed, Inspection, FeatureInspection
    <3>2. CASE head # "feature"
      BY <1>3, <3>2 DEF Inspection, BaseInspection, TrackedAllowed
    <3> QED
      BY <3>1, <3>2
  <2>7. Evidence(local) # "none" => Proven(local)
    BY HistoryIs DEF Evidence, Proven
  <2>8. Deletable'
    <3>1. Ask.branch => Proven(Seen.target)
      BY <2>5, <2>6, <2>7
    <3>2. Proven(Seen.target)' = Proven(Seen.target)
      BY <2>1, <2>2 DEF Proven, Seen
    <3> QED
      BY <2>1, <2>2, <2>6, <3>1, <3>2 DEF Deletable, Ask, Seen
  <2>9. Semantic(Files) = {}
    BY <1>3 DEF InspectionAllowed, FeatureAllowed, WorktreeProtected
  <2>10. Semantic(Files)' = Semantic(Files)
    BY <2>2 DEF Semantic, Changed, EolOnly, Differs, HeadTree, HeadCommit
  <2>11. Discardable'
    BY <2>1, <2>9, <2>10 DEF Discardable, Removing
  <2>12. Seen.branch => ~elsewhere
    <3>1. CASE head = "feature"
      BY <3>1, Zenon DEF Inv, OnOneBranch
    <3>2. CASE head # "feature"
      <4>1. Seen.branch = TrackedAllowed
        BY <1>3, <3>2 DEF Inspection, BaseInspection
      <4> QED
        BY <4>1, Zenon DEF TrackedAllowed
    <3> QED
      BY <3>1, <3>2
  <2>13. Unshared'
    BY <2>1, <2>2, <2>5, <2>12, Zenon DEF Unshared, Ask
  <2> QED
    BY <2>2, <2>3, <2>4, <2>8, <2>11, <2>13 DEF Inv
<1> QED
  BY <1>2, <1>3 DEF InspectAgain

\* A step of the cleanup that removes nothing, to a step with the same promises.
LEMMA GoesOn ==
  ASSUME Inv, UNCHANGED <<repo, excused>>, NEW p, Go(p),
         pc \in Removing \union Removed, p \in {"remove", "local", "deleteLocal", "remote", "deleteRemote"},
         pc \in Removed <=> p \in Removed,
         p \in {"remote", "deleteRemote"} => local = None,
         p = "remove" => since' = since \ {"ignored"} /\ ~ignored,
         p = "deleteRemote" => /\ since' = since \ {"remote"} /\ remote = Seen.remote
                               /\ Ask.remote /\ Seen.remote # None,
         p \notin {"remove", "deleteRemote"} => since' = since,
         p \in {"local", "deleteLocal"} => Ask.branch /\ pc \in {"registered", "local"}
  PROVE  Inv'
<1> USE DEF None
<1>1. pc' = p /\ UNCHANGED <<approval, seen, report>>
  BY DEF Go
<1>2. /\ Typed' /\ AllKept'
      /\ UNCHANGED <<commits, local, remote, lbase, base, rbase, merged, openPr, files, index,
                     noise, head, elsewhere, ignored, switched, locked, gh>>
  BY <1>1, OnlyLooks DEF Inv, Typed, Session
<1>3. OnOneBranch'
  BY <1>1, <1>2, Zenon DEF Inv, OnOneBranch
<1>4. AsApproved' /\ OnBranch'
  BY <1>1 DEF AsApproved, OnBranch, Committing, Removing, Removed
<1>5. Approved'
  BY <1>1, <1>2 DEF Inv, Approved, ApprovedCleanup, Ask, Seen, Removing, Removed, Committing, Pushing
<1>6. Deletable'
  <2>1. Proven(Seen.target)' = Proven(Seen.target)
    BY <1>1, <1>2 DEF Proven, Seen
  <2>2. (Ask.branch => Proven(Seen.target)) /\ (Seen.branch => remote = Seen.remote \/ "remote" \in since)
    BY DEF Inv, Deletable
  <2>3. Seen.branch => remote = Seen.remote \/ "remote" \in since'
    BY <2>2
  <2> QED
    BY <1>1, <1>2, <2>1, <2>2, <2>3 DEF Deletable, Ask, Seen
<1>7. Semantic(Files)' = Semantic(Files)
  BY <1>2 DEF Semantic, Changed, EolOnly, Differs, HeadTree, HeadCommit
<1>8. Discardable'
  BY <1>1, <1>2, <1>7 DEF Inv, Discardable, Removing, Removed
<1>9. Unshared'
  <2>1. SUFFICES ASSUME p \in {"remove", "local", "deleteLocal"}, Ask.branch
                 PROVE  ~elsewhere \/ "elsewhere" \in since'
    BY <1>1, <1>2 DEF Unshared, Removing, Ask
  <2>2. pc \in Removing \union {"registered", "local", "deleteLocal"}
    BY <2>1 DEF Removing, Removed
  <2>3. ~elsewhere \/ "elsewhere" \in since
    BY <2>1, <2>2, Zenon DEF Inv, Unshared
  <2>4. "elsewhere" \in since => "elsewhere" \in since'
    BY <2>1
  <2> QED
    BY <2>3, <2>4
<1> QED
  BY <1>2, <1>3, <1>4, <1>5, <1>6, <1>8, <1>9 DEF Inv

\* The checks of the cleanup change nothing but where the script is.
LEMMA CleanupLooks ==
  ASSUME Inv, ProtectIgnored \/ StillRegistered \/ CompareLocal \/ CompareRemote
  PROVE  Inv'
<1> USE DEF None
<1>1. UNCHANGED <<repo, excused>>
  BY Zenon DEF ProtectIgnored, StillRegistered, CompareLocal, CompareRemote
<1>2. ASSUME NEW r, End(r) PROVE Inv'
  BY <1>1, <1>2, LooksAndEnds
<1>3. /\ \A gone : Blocked(gone) => Inv'
      /\ \A gone : Partial(gone) => Inv'
      /\ \A gone : Cleaned(gone) => Inv'
  BY <1>2 DEF Blocked, Partial, Cleaned
<1> HIDE DEF Blocked, Partial, Cleaned
<1>4. CASE ProtectIgnored
  <2>1. CASE ignored
    BY <1>3, <1>4, <2>1, Zenon DEF ProtectIgnored
  <2>2. CASE ~ignored
    <3>1. pc = "remove" \/ pc = "ignored"
      BY <1>4 DEF ProtectIgnored
    <3>2. pc = "ignored" /\ Go("remove") /\ since' = since \ {"ignored"}
      BY <1>4, <2>2, Zenon DEF ProtectIgnored
    <3> QED
      BY <1>1, <2>2, <3>2, GoesOn DEF Removing, Removed
  <2> QED
    BY <2>1, <2>2
<1>5. CASE StillRegistered
  <2>1. \/ \E r : End(r)
        \/ pc = "registered" /\ Ask.branch /\ Go("local") /\ UNCHANGED since
        \/ \E gone : Blocked(gone)
    BY <1>5, Zenon DEF StillRegistered
  <2>2. CASE pc = "registered" /\ Ask.branch /\ Go("local") /\ UNCHANGED since
    BY <1>1, <2>2, GoesOn DEF Removing, Removed
  <2> QED
    BY <1>2, <1>3, <2>1, <2>2
<1>6. CASE CompareLocal
  <2>1. \/ pc = "local" /\ local = None /\ Go("remote") /\ UNCHANGED since
        \/ pc = "local" /\ Go("deleteLocal") /\ UNCHANGED since
        \/ \E gone : Partial(gone)
    BY <1>6 DEF CompareLocal
  <2>2. CASE pc = "local" /\ local = None /\ Go("remote") /\ UNCHANGED since
    BY <1>1, <2>2, GoesOn DEF Removing, Removed
  <2>3. CASE pc = "local" /\ Go("deleteLocal") /\ UNCHANGED since
    <3>1. Ask.branch
      BY <2>3 DEF Inv, Approved
    <3> QED
      BY <1>1, <2>3, <3>1, GoesOn DEF Removing, Removed
  <2> QED
    BY <1>3, <2>1, <2>2, <2>3
<1>7. CASE CompareRemote
  <2>1. \/ \E gone : Cleaned(gone)
        \/ \E gone : Partial(gone)
        \/ \E gone : Blocked(gone)
        \/ /\ pc = "remote" /\ Ask.remote /\ Seen.remote # None /\ remote = Seen.remote
           /\ Go("deleteRemote") /\ since' = since \ {"remote"}
    BY <1>7 DEF CompareRemote
  <2>2. CASE /\ pc = "remote" /\ Ask.remote /\ Seen.remote # None /\ remote = Seen.remote
             /\ Go("deleteRemote") /\ since' = since \ {"remote"}
    <3>1. local = None
      BY <2>2 DEF Inv, OnOneBranch
    <3> QED
      BY <1>1, <2>2, <3>1, GoesOn DEF Removing, Removed
  <2> QED
    BY <1>3, <2>1, <2>2
<1> QED
  BY <1>4, <1>5, <1>6, <1>7

\* Removing the worktree leaves every branch where it is.
LEMMA RemoveWorktreeStep ==
  ASSUME Inv, RemoveWorktree
  PROVE  Inv'
<1> USE DEF None
<1>1. /\ UNCHANGED <<commits, local, remote, lbase, base, rbase, merged, openPr, elsewhere, files,
                     index, excused>>
      /\ \/ head' = "gone" /\ noise' = {} /\ pc = "remove" /\ Go("registered") /\ UNCHANGED since
         \/ Blocked({}) /\ UNCHANGED <<head, noise>>
  BY Zenon DEF RemoveWorktree, refs, pulls
<1>2. AllKept'
  <2>1. Tips' = Tips
    BY <1>1 DEF Tips
  <2> QED
    BY <1>1, <2>1 DEF Inv, AllKept
<1>3. CASE head' = "gone" /\ noise' = {} /\ pc = "remove" /\ Go("registered") /\ UNCHANGED since
  <2>1. pc' = "registered" /\ UNCHANGED <<approval, seen, report>>
    BY <1>3 DEF Go
  <2>2. Typed'
    BY <1>1, <1>3, <2>1 DEF Inv, Typed
  <2>3. OnOneBranch'
    BY <1>3, <2>1 DEF OnOneBranch
  <2>4. Approved'
    BY <1>1, <1>3, <2>1 DEF Inv, Approved, ApprovedCleanup, Ask, Seen, Removing, Removed, Committing, Pushing
  <2>5. Deletable'
    <3>1. Proven(Seen.target)' = Proven(Seen.target)
      BY <1>1, <2>1 DEF Proven, Seen
    <3> QED
      BY <1>1, <1>3, <2>1, <3>1 DEF Inv, Deletable, Ask, Seen, Removing, Removed
  <2>6. Discardable' /\ AsApproved' /\ OnBranch'
    BY <2>1 DEF Discardable, AsApproved, OnBranch, Removing, Committing
  <2>7. Unshared'
    BY <1>1, <1>3, <2>1, Zenon DEF Inv, Unshared, Removing, Ask
  <2> QED
    BY <1>2, <2>2, <2>3, <2>4, <2>5, <2>6, <2>7 DEF Inv
<1>4. CASE Blocked({}) /\ UNCHANGED <<head, noise>>
  <2>1. pc' = "idle" /\ seen' = Nothing
        /\ Approved' /\ Deletable' /\ Discardable' /\ Unshared' /\ AsApproved' /\ OnBranch'
    BY <1>4, Ended DEF Blocked
  <2>2. Typed'
    BY <1>1, <1>4, <2>1 DEF Inv, Typed, Nothing, Log
  <2>3. OnOneBranch'
    BY <1>1, <1>4, <2>1, Zenon DEF Inv, OnOneBranch, Removed
  <2> QED
    BY <1>2, <2>1, <2>2, <2>3 DEF Inv
<1> QED
  BY <1>1, <1>3, <1>4

\* All of what is proved merged is in another branch.
LEMMA ProvenKept ==
  ASSUME Inv, NEW c \in 0..Len(commits), Proven(c), NEW T, {base} \union merged \subseteq T
  PROVE  \E s \in T : Hist(commits, c) \subseteq Hist(commits, s)
<1>1. Log(commits) /\ base \in 0..Len(commits)
  <2>1. Log(commits) /\ base \in 1..Len(commits)
    BY DEF Inv, Typed
  <2> QED
    BY <2>1
<1>2. CASE c \in merged
  BY <1>2
<1>3. CASE c \in Hist(commits, base)
  BY <1>1, <1>3, HistTransitive
<1> QED
  BY <1>2, <1>3 DEF Proven

\* The local branch that is deleted is proved merged.
LEMMA DeleteLocalStep ==
  ASSUME Inv, DeleteLocal
  PROVE  Inv'
<1> USE DEF None
<1>1. UNCHANGED <<commits, remote, lbase, base, rbase, merged, openPr, head, elsewhere, files,
                  index, noise, ignored, excused>>
  BY DEF DeleteLocal, pulls, worktree
<1>2. CASE pc = "deleteLocal" /\ local = Seen.target /\ local' = None /\ Go("remote") /\ UNCHANGED since
  <2>1. pc' = "remote" /\ UNCHANGED <<approval, seen, report>>
    BY <1>2 DEF Go
  <2>2. Typed'
    BY <1>1, <1>2, <2>1 DEF Inv, Typed, Log
  <2>3. head = "gone"
    BY <1>2 DEF Inv, OnOneBranch, Removed
  <2>4. OnOneBranch'
    BY <1>1, <1>2, <2>1, <2>3 DEF OnOneBranch
  <2>5. Approved'
    BY <1>1, <1>2, <2>1 DEF Inv, Approved, ApprovedCleanup, Ask, Seen, Removing, Removed, Committing, Pushing
  <2>6. Deletable'
    <3>1. Proven(Seen.target)' = Proven(Seen.target)
      BY <1>1, <2>1 DEF Proven, Seen
    <3> QED
      BY <1>1, <1>2, <2>1, <3>1 DEF Inv, Deletable, Ask, Seen, Removing, Removed
  <2>7. Discardable' /\ AsApproved' /\ OnBranch' /\ Unshared'
    BY <2>1 DEF Discardable, AsApproved, OnBranch, Unshared, Removing, Committing
  <2>8. Proven(local)
    BY <1>2 DEF Inv, Approved, Deletable, Removed
  <2>9. local \in 0..Len(commits) /\ {base} \union merged \subseteq Tips'
    BY <1>1 DEF Inv, Typed, Tips
  <2>10. \E s \in Tips' : Hist(commits, local) \subseteq Hist(commits, s)
    BY <2>8, <2>9, ProvenKept
  <2>11. \A x \in Tips : x = local \/ x \in Tips'
    BY <1>1 DEF Tips
  <2>12. AllKept'
    BY <1>1, <2>10, <2>11, MoveKept DEF Inv
  <2> QED
    BY <2>2, <2>4, <2>5, <2>6, <2>7, <2>12 DEF Inv
<1>3. CASE Partial({"worktree"}) /\ UNCHANGED local
  <2>1. UNCHANGED <<repo, excused>>
    BY <1>1, <1>3 DEF DeleteLocal, repo, refs
  <2> QED
    BY <1>3, <2>1, LooksAndEnds DEF Partial
<1> QED
  BY <1>2, <1>3 DEF DeleteLocal

\* The remote branch that is deleted is proved merged, or excused for what was
\* pushed meanwhile.
LEMMA DeleteRemoteStep ==
  ASSUME Inv, DeleteRemote
  PROVE  Inv'
<1> USE DEF None
<1>1. /\ UNCHANGED <<commits, local, lbase, base, rbase, merged, head, elsewhere, files, index, noise>>
      /\ pc = "deleteRemote"
      /\ \E r : End(r)
      /\ \/ /\ remote' = None /\ openPr' = FALSE
            /\ excused' = IF "remote" \in since THEN excused \union Hist(commits, remote) ELSE excused
         \/ UNCHANGED <<remote, openPr, excused>>
  BY HistoryIs, Zenon DEF DeleteRemote, worktree, Partial, Cleaned
<1>2. /\ pc' = "idle" /\ seen' = Nothing
      /\ Approved' /\ Deletable' /\ Discardable' /\ Unshared' /\ AsApproved' /\ OnBranch'
  BY <1>1, Ended
<1>3. Typed'
  BY <1>1, <1>2 DEF Inv, Typed, Nothing, Log
<1>4. OnOneBranch'
  BY <1>1, <1>2, Zenon DEF Inv, OnOneBranch, Removed
<1>5. CASE UNCHANGED <<remote, openPr, excused>>
  <2>1. Tips' = Tips
    BY <1>1, <1>5 DEF Tips
  <2> QED
    BY <1>1, <1>2, <1>3, <1>4, <1>5, <2>1 DEF Inv, AllKept
<1>6. CASE /\ remote' = None
           /\ excused' = IF "remote" \in since THEN excused \union Hist(commits, remote) ELSE excused
  <2>1. \A x \in Tips : x = remote \/ x \in Tips'
    BY <1>1 DEF Tips
  <2>2. (\E s \in Tips' : Hist(commits, remote) \subseteq Hist(commits, s))
          \/ Hist(commits, remote) \subseteq excused'
    <3>1. CASE "remote" \in since
      BY <1>6, <3>1
    <3>2. CASE "remote" \notin since
      <4>1. Ask.remote /\ Seen.remote # None /\ Ask.branch /\ Seen.branch /\ Seen.remote = Seen.target
            /\ approval.kind = "cleanup"
        BY <1>1, Zenon DEF Inv, Approved, ApprovedCleanup, Removed
      <4>2. remote = Seen.target /\ Proven(Seen.target)
        BY <1>1, <3>2, <4>1 DEF Inv, Deletable, Removed
      <4>3. remote \in 0..Len(commits) /\ {base} \union merged \subseteq Tips'
        BY <1>1 DEF Inv, Typed, Tips
      <4> QED
        BY <4>2, <4>3, ProvenKept
    <3> QED
      BY <3>1, <3>2
  <2>3. AllKept'
    BY <1>1, <1>6, <2>1, <2>2, MoveKept DEF Inv
  <2> QED
    BY <1>2, <1>3, <1>4, <2>3 DEF Inv
<1> QED
  BY <1>1, <1>5, <1>6

\* Every step of the cleanup keeps the invariant.
LEMMA CleanupSteps ==
  ASSUME Inv, CleanupStep
  PROVE  Inv'
BY PreviewSteps, InspectAgainStep, CleanupLooks, RemoveWorktreeStep, DeleteLocalStep, DeleteRemoteStep
   DEF CleanupStep

\* The invariant holds in every state a session may start from.
LEMMA InitInv == Init => Inv
<1> USE DEF None
<1> SUFFICES ASSUME Init PROVE Inv
  OBVIOUS
<1>1. PICK published \in BOOLEAN :
        LET t0 == [f \in Files |-> 0]
            t1 == [t0 EXCEPT ![CHOOSE f \in Files : TRUE] = 1]
            c  == IF published THEN 2 ELSE 1
        IN  /\ commits = SubSeq(<<[parents |-> {}, tree |-> t0],
                                  [parents |-> {1}, tree |-> t1]>>, 1, c)
            /\ local = c /\ remote = IF published THEN c ELSE None
            /\ files = commits[c].tree /\ index = commits[c].tree
            /\ openPr = published
  BY DEF Init
<1> DEFINE t0 == [f \in Files |-> 0]
           t1 == [t0 EXCEPT ![CHOOSE f \in Files : TRUE] = 1]
           e1 == [parents |-> {}, tree |-> t0]
           e2 == [parents |-> {1}, tree |-> t1]
           c  == IF published THEN 2 ELSE 1
<1>2. t0 \in Tree /\ t1 \in Tree
  BY RepoAssumption DEF Tree
<1> HIDE DEF t0, t1
<1>3. e1 \in Commits /\ e2 \in Commits /\ e1.parents = {} /\ e2.parents = {1}
  BY <1>2 DEF Commits
<1> HIDE DEF e1, e2
<1>4. /\ commits = SubSeq(<<e1, e2>>, 1, c)
      /\ local = c /\ remote = IF published THEN c ELSE None
      /\ files = commits[c].tree /\ index = commits[c].tree
      /\ openPr = published
  BY <1>1 DEF t0, t1, e1, e2
<1>5. /\ commits \in Seq(Commits) /\ Len(commits) = c
      /\ c \in {1, 2} /\ commits[1] = e1 /\ (c = 2 => commits[2] = e2)
  <2>1. c \in {1, 2}
    OBVIOUS
  <2> HIDE DEF c
  <2>2. <<e1, e2>> \in Seq(Commits) /\ Len(<<e1, e2>>) = 2
    BY <1>3
  <2>3. commits \in Seq(Commits) /\ Len(commits) = c
        /\ \A i \in 1..c : commits[i] = <<e1, e2>>[1 + i - 1]
    BY <1>4, <2>1, <2>2, SubSeqProperties
  <2>4. commits[1] = <<e1, e2>>[1] /\ (c = 2 => commits[2] = <<e1, e2>>[2])
    BY <2>1, <2>3
  <2> QED
    BY <2>1, <2>3, <2>4
<1>6. Log(commits)
  BY <1>3, <1>5 DEF Log
<1>7. commits[c] \in Commits
  BY <1>5
<1>8. files \in Tree /\ index \in Tree
  BY <1>4, <1>7 DEF Commits
<1>9. Typed
  <2>1. openPr => remote # None
    <3>1. CASE published = TRUE
      BY <1>4, <3>1
    <3>2. CASE published = FALSE
      BY <1>4, <3>2
    <3> QED
      BY <3>1, <3>2
  <2>2. remote \in 0..Len(commits) /\ local \in 0..Len(commits)
    BY <1>4, <1>5
  <2>3. lbase = 1 /\ base = 1 /\ rbase = 1 /\ merged = {} /\ noise = {} /\ head = "feature"
        /\ seen = [paths |-> {}, sha |-> 0, gone |-> {}]
    BY Zenon DEF Init, Nothing
  <2>4. {lbase, base, rbase} \union merged \subseteq 1..Len(commits)
    BY <1>5, <2>3
  <2> HIDE DEF c
  <2> QED
    BY <1>5, <1>6, <1>8, <2>1, <2>2, <2>3, <2>4 DEF Typed
<1>10. pc = "idle" /\ approval = NoApproval /\ since = {}
  BY DEF Init
<1>11. head = "feature" /\ ~elsewhere /\ local # None
  <2>1. local # None
    BY <1>4, <1>5
  <2> QED
    BY <2>1, Zenon DEF Init
<1>12. OnOneBranch /\ Approved /\ Deletable /\ Discardable /\ Unshared /\ AsApproved /\ OnBranch
  BY <1>10, <1>11 DEF OnOneBranch, Approved, ApprovedCleanup, NoApproval, Deletable, Discardable, Unshared,
                      AsApproved, OnBranch, Removing, Removed, Committing, Pushing
<1>13. AllKept
  <2>1. base = 1 /\ rbase = 1 /\ lbase = 1
    BY DEF Init
  <2>2. Hist(commits, 1) \subseteq 1..1 /\ 1 \in Hist(commits, 1) /\ (c = 2 => 2 \in Hist(commits, 2))
    BY <1>5, <1>6, HistMember, HistWithin
  <2>3. local \in Tips /\ base \in Tips
    BY DEF Tips
  <2>4. \A n \in 1..Len(commits) : \E t \in Tips : n \in Hist(commits, t)
    BY <1>4, <1>5, <2>1, <2>2, <2>3
  <2>5. \A n : (\E t \in Tips : n \in Hist(commits, t)) => n \in UNION {Hist(commits, t) : t \in Tips}
    BY Zenon
  <2>6. Covered(commits, Tips, excused)
    BY <2>4, <2>5, Zenon DEF Covered
  <2> QED
    BY <2>1, <2>2, <2>6 DEF AllKept
<1> QED
  BY <1>9, <1>12, <1>13 DEF Inv

\* Every step keeps the invariant.
LEMMA StepInv == Inv /\ [Next]_vars => Inv'
<1> SUFFICES ASSUME Inv, [Next]_vars PROVE Inv'
  OBVIOUS
<1>1. CASE OthersMove
  <2>1. Typed' /\ OnOneBranch' /\ AllKept' /\ Noted
    BY <1>1, OthersTyped, OthersKeep, OthersNoted DEF Inv
  <2>2. Approved' /\ Deletable' /\ Discardable' /\ Unshared'
    BY <2>1, OthersLeaveCleanup DEF Inv
  <2>3. AsApproved' /\ OnBranch'
    BY <2>1, OthersLeavePublish DEF Inv
  <2> QED
    BY <2>1, <2>2, <2>3 DEF Inv
<1>2. CASE PublishStep
  BY <1>2, PublishSteps
<1>3. CASE CleanupStep
  BY <1>3, CleanupSteps
<1>4. CASE UNCHANGED vars
  <2>1. UNCHANGED <<repo, session, since, excused>>
    BY <1>4 DEF vars
  <2>2. UNCHANGED <<pc, approval, seen, report>>
    BY <2>1 DEF session
  <2>3. /\ Typed' /\ AllKept'
        /\ UNCHANGED <<commits, local, remote, lbase, base, rbase, merged, openPr, files, index,
                       noise, head, elsewhere, ignored, switched, locked, gh>>
    BY <2>1, <2>2, OnlyLooks DEF Inv, Typed, Session
  <2>4. OnOneBranch' /\ Unshared'
    BY <2>1, <2>2, <2>3, Zenon DEF Inv, OnOneBranch, Unshared, Ask
  <2>5. Approved'
    BY <2>1, <2>2, <2>3 DEF Inv, Approved, ApprovedCleanup, Ask, Seen
  <2>6. Deletable'
    <3>1. Proven(Seen.target)' = Proven(Seen.target)
      BY <2>2, <2>3 DEF Proven, Seen
    <3> QED
      BY <2>1, <2>2, <2>3, <3>1 DEF Inv, Deletable, Ask, Seen
  <2>7. \A S : Semantic(S)' = Semantic(S)
    BY <2>3 DEF Semantic, Changed, EolOnly, Differs, HeadTree, HeadCommit
  <2>8. Discardable' /\ OnBranch'
    BY <2>1, <2>2, <2>3, <2>7 DEF Inv, Discardable, OnBranch
  <2>9. Fingerprint(approval.scope)' = Fingerprint(approval.scope)
        /\ Semantic(approval.scope)' = Semantic(approval.scope)
        /\ ApprovedTree(approval.fp)' = ApprovedTree(approval.fp)
        /\ HeadTree' = HeadTree
    BY <2>2, <2>3 DEF Fingerprint, ApprovedTree, Row, Semantic, Changed, EolOnly, Differs, HeadTree, HeadCommit
  <2>10. AsApproved'
    BY <2>1, <2>2, <2>3, <2>9 DEF Inv, AsApproved, Undisturbed
  <2> QED
    BY <2>3, <2>4, <2>5, <2>6, <2>8, <2>10 DEF Inv
<1> QED
  BY <1>1, <1>2, <1>3, <1>4 DEF Next

\* The invariant of the git skills holds throughout.
LEMMA Always == Spec => []Inv
BY InitInv, StepInv, PTL DEF Spec

-----------------------------------------------------------------------------
(* The theorems *)

\* No commit becomes unreachable, whatever the scripts delete and whoever else
\* works on the repository: cleanup_workspace.py deletes a branch only where
\* its commits live on.
THEOREM CommitsAreKept == Spec => []NoCommitLost
<1>1. Inv => NoCommitLost
  <2>1. Reachable = UNION {Hist(commits, t) : t \in Tips}
    <3>1. \A c : History(c) = Hist(commits, c)
      BY HistoryIs
    <3>2. {History(c) : c \in Tips} = {Hist(commits, t) : t \in Tips}
      BY <3>1
    <3> QED
      BY <3>2, Zenon DEF Reachable, Tips
  <2>2. Inv => Covered(commits, Tips, excused)
    BY DEF Inv, AllKept
  <2> QED
    BY <2>1, <2>2, Zenon DEF Covered, NoCommitLost
<1> QED
  BY <1>1, Always, PTL

\* What the steps do to the worktree and to the local branch.
LEMMA OnlyCleanupRemoves ==
  ASSUME Inv, [Next]_vars
  PROVE  /\ head # "gone" /\ head' = "gone" => pc = "remove"
         /\ local # None /\ local' = None => pc = "deleteLocal"
<1>1. CASE OthersMove
  BY <1>1, OthersNoted DEF Inv, Noted
<1>2. CASE UNCHANGED vars
  BY <1>2 DEF vars, repo, refs, worktree
<1>3. CASE PublishStep
  <2>1. CASE MakeCommit
    <3>1. NewCommit # None
      BY Trees DEF Inv, NewCommit, None
    <3> QED
      BY <2>1, <3>1 DEF MakeCommit, worktree
  <2>2. CASE Add \/ PushCommit \/ PushHead \/ CreatePr
    BY <2>2, Zenon DEF Add, PushCommit, PushHead, CreatePr, refs, worktree
  <2>3. CASE UNCHANGED repo
    BY <2>3 DEF repo, refs, worktree
  <2>4. (\E scope \in Scopes : PreparePublish(scope)) \/ CheckApproval \/ CheckScope \/ CheckHead
          \/ Compare \/ Verify \/ PreparePr \/ CheckPublished \/ ListPrs => UNCHANGED repo
    BY Zenon DEF PreparePublish, CheckApproval, CheckScope, CheckHead, Compare, Verify, PreparePr,
                 CheckPublished, ListPrs
  <2> QED
    BY <1>3, <2>1, <2>2, <2>3, <2>4 DEF PublishStep
<1>4. CASE CleanupStep
  <2>1. CASE RemoveWorktree
    BY <2>1, Zenon DEF RemoveWorktree, refs
  <2>2. CASE DeleteLocal
    BY <2>2, Zenon DEF DeleteLocal, worktree
  <2>3. CASE DeleteRemote
    BY <2>3, Zenon DEF DeleteRemote, worktree
  <2>4. CASE UNCHANGED repo
    BY <2>4 DEF repo, refs, worktree
  <2>5. PrepareCleanup \/ InspectAgain \/ ProtectIgnored \/ StillRegistered \/ CompareLocal
          \/ CompareRemote => UNCHANGED repo
    BY Zenon DEF PrepareCleanup, InspectAgain, ProtectIgnored, StillRegistered, CompareLocal, CompareRemote
  <2> QED
    BY <1>4, <2>1, <2>2, <2>3, <2>4, <2>5 DEF CleanupStep
<1> QED
  BY <1>1, <1>2, <1>3, <1>4 DEF Next

\* cleanup_workspace.py removes no worktree with a change that means something
\* or with an ignored file, unless it was made after the script's last look.
THEOREM ChangesAreKept == Spec => NothingDiscarded
<1>1. Inv /\ [Next]_vars =>
        [(head # "gone" /\ head' = "gone") =>
           /\ Semantic(Files) = {} \/ "tree" \in since
           /\ ~ignored \/ "ignored" \in since]_vars
  <2> SUFFICES ASSUME Inv, [Next]_vars, head # "gone", head' = "gone"
               PROVE  /\ Semantic(Files) = {} \/ "tree" \in since
                      /\ ~ignored \/ "ignored" \in since
    OBVIOUS
  <2>1. pc = "remove"
    BY OnlyCleanupRemoves
  <2> QED
    BY <2>1, Zenon DEF Inv, Discardable, Removing
<1> QED
  BY <1>1, Always, PTL DEF Spec, NothingDiscarded

\* cleanup_workspace.py deletes no branch that another worktree is on, unless
\* that worktree was added while the script was at work.
THEOREM WorktreesKeepTheirBranch == Spec => NoWorktreeOrphaned
<1>1. Inv /\ [Next]_vars =>
        [(local # None /\ local' = None) => (~elsewhere \/ "elsewhere" \in since)]_vars
  <2> SUFFICES ASSUME Inv, [Next]_vars, local # None, local' = None
               PROVE  ~elsewhere \/ "elsewhere" \in since
    OBVIOUS
  <2>1. pc = "deleteLocal"
    BY OnlyCleanupRemoves
  <2>2. Ask.branch
    BY <2>1 DEF Inv, Approved
  <2> QED
    BY <2>1, <2>2, Zenon DEF Inv, Unshared, Removing
<1> QED
  BY <1>1, Always, PTL DEF Spec, NoWorktreeOrphaned

\* publish_commit.py commits exactly what the user approved, unless somebody
\* wrote to the worktree or switched its branch in between.
THEOREM CommitsAreApproved == Spec => CommitIsApproved
<1>1. Inv /\ [Next]_vars =>
        [(pc = "commit" /\ pc' = "push") =>
           \/ commits'[NewCommit] = [parents |-> {approval.fp.head}, tree |-> ApprovedTree(approval.fp)]
           \/ since \intersect {"tree", "head"} # {}]_vars
  <2> SUFFICES ASSUME Inv, [Next]_vars, pc = "commit", pc' = "push", Undisturbed
               PROVE  commits'[NewCommit] = [parents |-> {approval.fp.head}, tree |-> ApprovedTree(approval.fp)]
    BY DEF Undisturbed
  <2>1. MakeCommit /\ ~(\E r : End(r))
    <3>1. ~(\E r : End(r))
      BY DEF End
    <3>2. ~OthersMove /\ ~(UNCHANGED vars)
      BY OthersNoted DEF Inv, Noted, session, vars
    <3>3. ~CleanupStep
      BY DEF CleanupStep, PrepareCleanup, InspectAgain, ProtectIgnored, RemoveWorktree, StillRegistered,
             CompareLocal, DeleteLocal, CompareRemote, DeleteRemote
    <3>4. PublishStep
      BY <3>2, <3>3 DEF Next
    <3> QED
      BY <3>1, <3>4 DEF PublishStep, PreparePublish, CheckApproval, CheckScope, Add, PushCommit, CheckHead,
             Compare, PushHead, Verify, PreparePr, CheckPublished, ListPrs, CreatePr
  <2>2. Commit({HeadCommit}, index)
    BY <2>1, Zenon DEF MakeCommit, Blocked
  <2>3. HeadCommit \in 1..Len(commits) /\ index \in Tree
    BY Trees DEF Inv, Typed, OnOneBranch, None
  <2>4. commits'[NewCommit] = [parents |-> {HeadCommit}, tree |-> index]
    BY <2>2, <2>3, CommitMade DEF Inv
  <2>5. head = "feature" /\ local = approval.fp.head /\ index = ApprovedTree(approval.fp)
    BY DEF Inv, AsApproved, Committing
  <2> QED
    BY <2>4, <2>5 DEF HeadCommit
<1> QED
  BY <1>1, Always, PTL DEF Spec, CommitIsApproved

\* What a script reports as pushed is at the remote, what it reports as gone is
\* gone, and the pull request it reports is open, unless others changed it
\* after the script's last look.
THEOREM ReportsAreTrue == Spec => ReportIsTrue
<1> DEFINE Pushed == report'.status \in {"pushed", "already-pushed", "pushed-existing-head"} =>
                       report'.sha \in History(remote)' \/ "head" \in since
           Opened == report'.status \in {"created", "existing-pr"} => openPr'
           Gone   == /\ "worktree" \in report'.gone => head' = "gone"
                     /\ "local" \in report'.gone => local' = None
                     /\ "remote" \in report'.gone => (remote' = None \/ "remote" \in since)
<1>1. Inv /\ [Next]_vars => [(pc # "idle" /\ pc' = "idle") => Pushed /\ Opened /\ Gone]_vars
  <2> SUFFICES ASSUME Inv, [Next]_vars, pc # "idle", pc' = "idle"
               PROVE  Pushed /\ Opened /\ Gone
    OBVIOUS
  <2>1. ASSUME NEW r, End(r), r.gone = {}, r.status \in {"blocked", "push-failed"}
        PROVE  Pushed /\ Opened /\ Gone
    BY <2>1 DEF End
  <2>2. ASSUME Blocked({}) PROVE Pushed /\ Opened /\ Gone
    BY <2>1, <2>2 DEF Blocked
  <2>3. ASSUME NEW gone, Blocked(gone) \/ Partial(gone) \/ Cleaned(gone)
        PROVE  Pushed /\ Opened
    BY <2>3 DEF Blocked, Partial, Cleaned, End
  <2>4. Log(commits) /\ \A c \in 1..Len(commits) : c \in Hist(commits, c)
    BY HistMember DEF Inv, Typed
  <2>5. History(remote)' = Hist(commits', remote')
    BY DEF History, Hist, None
  <2>6. ~OthersMove /\ ~(UNCHANGED vars)
    BY OthersNoted DEF Inv, Noted, session, vars
  <2>7. CASE PublishStep
    <3>1. CASE CheckScope \/ Add \/ MakeCommit
      BY <2>2, <3>1 DEF CheckScope, Add, MakeCommit
    <3>2. CASE PushCommit
      <4>1. CASE Pushes /\ End([status |-> "pushed", sha |-> seen.sha, gone |-> {}])
        <5>1. commits' = commits /\ remote' = local /\ pc = "push"
          BY <3>2, <4>1 DEF PushCommit, Pushes
        <5>2. seen.sha \in Hist(commits, local) \/ "head" \in since
          BY <5>1 DEF Inv, OnBranch
        <5> QED
          BY <2>5, <4>1, <5>1, <5>2 DEF End
      <4>2. CASE End([status |-> "push-failed", sha |-> seen.sha, gone |-> {}])
        BY <2>1, <4>2
      <4> QED
        BY <3>2, <4>1, <4>2 DEF PushCommit
    <3>3. CASE Compare \/ Verify
      <4>1. CASE Blocked({})
        BY <2>2, <4>1
      <4>2. CASE ~Blocked({})
        <5>1. PICK s \in {"already-pushed", "pushed-existing-head"} :
                End([status |-> s, sha |-> approval.head, gone |-> {}])
          BY <3>3, <4>2 DEF Compare, Verify
        <5>2. remote = approval.head /\ UNCHANGED <<commits, remote>> /\ pc \in Pushing
          BY <3>3, <4>2, <5>1 DEF Compare, Verify, repo, refs, Pushing
        <5>3. approval.head \in 1..Len(commits)
          BY <5>2 DEF Inv, Approved
        <5> QED
          BY <2>4, <2>5, <5>1, <5>2, <5>3 DEF End
      <4> QED
        BY <4>1, <4>2
    <3>4. CASE PushHead
      BY <2>1, <3>4 DEF PushHead
    <3>5. CASE ListPrs
      <4>1. CASE Blocked({})
        BY <2>2, <4>1
      <4>2. CASE openPr /\ End([status |-> "existing-pr", sha |-> None, gone |-> {}])
        <5>1. openPr' = openPr
          BY <3>5 DEF ListPrs, repo, pulls
        <5>2. openPr'
          BY <4>2, <5>1, Zenon
        <5> QED
          BY <4>2, <5>2 DEF End
      <4> QED
        BY <3>5, <4>1, <4>2 DEF ListPrs
    <3>6. CASE CreatePr
      <4>1. CASE Blocked({})
        BY <2>2, <4>1
      <4>2. CASE openPr' = TRUE /\ End([status |-> "created", sha |-> None, gone |-> {}])
        BY <4>2 DEF End
      <4> QED
        BY <3>6, <4>1, <4>2 DEF CreatePr
    <3>7. ~(\E scope \in Scopes : PreparePublish(scope)) /\ ~CheckApproval /\ ~CheckHead /\ ~PreparePr
            /\ ~CheckPublished
      BY DEF PreparePublish, CheckApproval, CheckHead, PreparePr, CheckPublished
    <3> QED
      BY <2>7, <3>1, <3>2, <3>3, <3>4, <3>5, <3>6, <3>7 DEF PublishStep
  <2>8. CASE CleanupStep
    <3>1. ~PrepareCleanup /\ ~InspectAgain
      BY DEF PrepareCleanup, InspectAgain
    <3>2. CASE ProtectIgnored \/ RemoveWorktree
      BY <2>2, <3>2 DEF ProtectIgnored, RemoveWorktree, Go
    <3>3. CASE StillRegistered
      <4>1. head = "gone" /\ head' = head
        BY <3>3 DEF StillRegistered, Inv, OnOneBranch, Removed, repo, worktree
      <4> QED
        BY <3>3, <4>1 DEF StillRegistered, Blocked, End, Go
    <3>4. CASE CompareLocal
      <4>1. head = "gone" /\ head' = head
        BY <3>4 DEF CompareLocal, Inv, OnOneBranch, Removed, repo, worktree
      <4>2. Partial({"worktree"})
        BY <3>4 DEF CompareLocal, Go
      <4> QED
        BY <4>1, <4>2 DEF Partial, End
    <3>5. CASE DeleteLocal
      <4>1. head = "gone" /\ head' = head
        BY <3>5 DEF DeleteLocal, Inv, OnOneBranch, Removed, worktree
      <4>2. Partial({"worktree"})
        BY <3>5 DEF DeleteLocal, Go
      <4> QED
        BY <4>1, <4>2 DEF Partial, End
    <3>6. CASE CompareRemote
      <4>1. head = "gone" /\ local = None /\ UNCHANGED <<head, local, remote>>
        BY <3>6 DEF CompareRemote, Inv, OnOneBranch, Removed, repo, refs, worktree
      <4>2. ASSUME Ask.remote, Seen.remote = None PROVE remote = None \/ "remote" \in since
        <5>1. approval.kind = "cleanup"
          BY <3>6 DEF CompareRemote, Inv, Approved, Removed
        <5>2. Seen.branch
          BY <4>2, <5>1, Zenon DEF Inv, Approved, ApprovedCleanup
        <5> QED
          BY <3>6, <4>2, <5>2 DEF CompareRemote, Inv, Deletable, Removed
      <4>3. \/ /\ ~Ask.remote \/ Seen.remote = None
               /\ Cleaned(IF Ask.remote /\ Seen.on = "base" THEN {"remote"} ELSE {})
            \/ remote = None /\ Cleaned({"remote"})
            \/ Partial({"worktree", "local"})
            \/ Blocked({"worktree"}) \/ Blocked({"worktree", "local"})
        BY <3>6 DEF CompareRemote, Go
      <4>4. CASE /\ ~Ask.remote \/ Seen.remote = None
                 /\ Cleaned(IF Ask.remote /\ Seen.on = "base" THEN {"remote"} ELSE {})
        <5>1. CASE Ask.remote /\ Seen.on = "base"
          BY <4>1, <4>2, <4>4, <5>1 DEF Cleaned, End
        <5>2. CASE ~(Ask.remote /\ Seen.on = "base")
          BY <4>1, <4>4, <5>2 DEF Cleaned, End
        <5> QED
          BY <5>1, <5>2
      <4>5. CASE remote = None /\ Cleaned({"remote"})
        BY <4>1, <4>5 DEF Cleaned, End
      <4>6. CASE Partial({"worktree", "local"}) \/ Blocked({"worktree"}) \/ Blocked({"worktree", "local"})
        BY <4>1, <4>6 DEF Partial, Blocked, End
      <4> QED
        BY <4>3, <4>4, <4>5, <4>6
    <3>7. CASE DeleteRemote
      <4>1. head = "gone" /\ local = None /\ UNCHANGED <<head, local>>
        BY <3>7 DEF DeleteRemote, Inv, OnOneBranch, Removed, worktree
      <4>2. (remote' = None /\ Cleaned({"remote"})) \/ Partial({"worktree", "local"})
        BY <3>7, Zenon DEF DeleteRemote
      <4>3. CASE remote' = None /\ Cleaned({"remote"})
        BY <4>1, <4>3 DEF Cleaned, End
      <4>4. CASE Partial({"worktree", "local"})
        BY <4>1, <4>4 DEF Partial, End
      <4> QED
        BY <4>2, <4>3, <4>4
    <3> QED
      BY <2>8, <3>1, <3>2, <3>3, <3>4, <3>5, <3>6, <3>7 DEF CleanupStep
  <2> QED
    BY <2>6, <2>7, <2>8 DEF Next
<1> QED
  BY <1>1, Always, PTL DEF Spec, ReportIsTrue

=============================================================================
