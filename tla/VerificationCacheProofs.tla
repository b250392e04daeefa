----------------------- MODULE VerificationCacheProofs -----------------------
(***************************************************************************)
(* What the evidence cache promises, for any number of runs and edits and  *)
(* a scope of any size: a PASS is about a tree that was there and passed,  *)
(* and an older PASS never outlives a failure.                             *)
(***************************************************************************)
EXTENDS VerificationCache, SequenceTheorems, TLAPS

-----------------------------------------------------------------------------
(* An older PASS never outlives a failure *)

Alone == \A p, q \in Proc : pc[p] \in Running /\ pc[q] \in Running => p = q

\* What makes the runs of a request follow each other: the lock of the Node
\* runner from its decision on, or that no two have been under way at once.
OneAtATime ==
  /\ pc \in [Proc -> Running \union Ended]
  /\ ~overlapped => Alone
  /\ tool = "node" => \A p \in Proc : pc[p] \in Locked => lock = p

\* Then the evidence is gone during a fresh run, and stays so once it has failed.
Revoked ==
  (overlapped => tool = "node") =>
    /\ \A p \in Proc : pc[p] \in Fresh => evidence = NoEvidence
    /\ refuted => evidence = NoEvidence

FallbackInv == OneAtATime /\ Revoked

\* Where a step of a run leads, and what it does to the lock of the request.
LEMMA RunGoesOn ==
  ASSUME OneAtATime, NEW p \in Proc, Step(p) \/ Killed(p)
  PROVE  /\ pc' \in [Proc -> Running \union Ended]
         /\ pc[p] \in Running
         /\ \A q \in Proc : q # p => pc'[q] = pc[q]
         /\ UNCHANGED <<tool, overlapped>>
<1> USE DEF OneAtATime, Goto, Exit, EndFailed, GoVerify, Running, Ended, Locked, Fresh, history
<1>1. CASE ReadBefore(p) \/ ScopeMissing(p) \/ FingerprintDone(p) \/ LockEvidence(p)
  BY <1>1 DEF ReadBefore, ScopeMissing, FingerprintDone, LockEvidence
<1>2. CASE Reuse(p) \/ GoFresh(p) \/ RemoveEvidence(p)
  BY <1>2 DEF Reuse, GoFresh, RemoveEvidence
<1>3. CASE PreflightPasses(p) \/ PreflightFails(p) \/ PreflightUnchanged(p)
  BY <1>3 DEF PreflightPasses, PreflightFails, PreflightUnchanged
<1>4. CASE ReadAfter(p) \/ ScopeVanished(p) \/ ScopeChanged(p) \/ EngineReads(p) \/ EnginePasses(p)
  BY <1>4 DEF ReadAfter, ScopeVanished, ScopeChanged, EngineReads, EnginePasses
<1>5. CASE EngineFails(p) \/ Passes(p) \/ FailsUnchanged(p) \/ Killed(p)
  BY <1>5 DEF EngineFails, Passes, FailsUnchanged, Killed
<1> QED
  BY <1>1, <1>2, <1>3, <1>4, <1>5 DEF Step

\* The lock is taken before the decision and held to the end of the run.
LEMMA LockHeld ==
  ASSUME OneAtATime, tool = "node", NEW p \in Proc, Step(p) \/ Killed(p)
  PROVE  \A q \in Proc : pc'[q] \in Locked => lock' = q
<1> USE DEF OneAtATime, Goto, Exit, EndFailed, GoVerify, Running, Ended, Locked, Fresh, history
<1>1. CASE ReadBefore(p) \/ ScopeMissing(p) \/ FingerprintDone(p) \/ LockEvidence(p)
  BY <1>1, ProcAssumption DEF ReadBefore, ScopeMissing, FingerprintDone, LockEvidence
<1>2. CASE Reuse(p) \/ GoFresh(p) \/ RemoveEvidence(p)
  BY <1>2 DEF Reuse, GoFresh, RemoveEvidence
<1>3. CASE PreflightPasses(p) \/ PreflightFails(p) \/ PreflightUnchanged(p)
  BY <1>3 DEF PreflightPasses, PreflightFails, PreflightUnchanged
<1>4. CASE ReadAfter(p) \/ ScopeVanished(p) \/ ScopeChanged(p) \/ EngineReads(p) \/ EnginePasses(p)
  BY <1>4 DEF ReadAfter, ScopeVanished, ScopeChanged, EngineReads, EnginePasses
<1>5. CASE EngineFails(p) \/ Passes(p) \/ FailsUnchanged(p) \/ Killed(p)
  BY <1>5 DEF EngineFails, Passes, FailsUnchanged, Killed
<1> QED
  BY <1>1, <1>2, <1>3, <1>4, <1>5 DEF Step

\* A run that begins beside another one is noted as overlapping.
LEMMA BeginGoesOn ==
  ASSUME OneAtATime, NEW p \in Proc, Begin(p)
  PROVE  OneAtATime'
<1>1. pc' = [pc EXCEPT ![p] = "fingerprint"] /\ UNCHANGED <<tool, lock>>
  BY DEF Begin, Goto
<1>2. ~overlapped' => ~overlapped /\ \A q \in Proc : pc[q] \notin Running
  BY DEF Begin
<1> QED
  BY <1>1, <1>2 DEF OneAtATime, Alone, Running, Ended, Locked, Fresh

\* Every step keeps the runs apart that the lock, or the lack of overlap, keeps
\* apart.
LEMMA OneStep == OneAtATime /\ [Next]_vars => OneAtATime'
<1> SUFFICES ASSUME OneAtATime, [Next]_vars PROVE OneAtATime'
  OBVIOUS
<1>1. ASSUME NEW p \in Proc, Step(p) \/ Killed(p) PROVE OneAtATime'
  <2>1. /\ pc' \in [Proc -> Running \union Ended] /\ pc[p] \in Running
        /\ \A q \in Proc : q # p => pc'[q] = pc[q]
        /\ UNCHANGED <<tool, overlapped>>
    BY <1>1, RunGoesOn
  <2>2. ~overlapped' => Alone'
    BY <2>1 DEF OneAtATime, Alone
  <2>3. tool' = "node" => \A q \in Proc : pc'[q] \in Locked => lock' = q
    BY <1>1, <2>1, LockHeld
  <2> QED
    BY <2>1, <2>2, <2>3 DEF OneAtATime
<1>2. CASE Edit \/ UNCHANGED vars
  BY <1>2 DEF Edit, vars, history, OneAtATime, Alone
<1> QED
  BY <1>1, <1>2, BeginGoesOn DEF Next

\* A fresh run begins by taking back what there is, and only an end with a PASS
\* writes it anew: nobody else is in between, when runs follow each other.
LEMMA RevokedStep == FallbackInv /\ [Next]_vars => Revoked'
<1> SUFFICES ASSUME OneAtATime, Revoked, [Next]_vars, overlapped' => tool' = "node" PROVE Revoked'
  BY DEF FallbackInv, Revoked
<1> USE DEF Goto, Exit, EndFailed, GoVerify, Running, Ended, Locked, Fresh, history
<1>1. ASSUME NEW p \in Proc, Step(p) \/ Killed(p) PROVE Revoked'
  <2>1. /\ \A q \in Proc : q # p => pc'[q] = pc[q]
        /\ UNCHANGED <<tool, overlapped>>
        /\ pc[p] \in Running /\ pc \in [Proc -> Running \union Ended]
    BY <1>1, RunGoesOn DEF OneAtATime
  <2>2. (\A q \in Proc : pc[q] \in Fresh => evidence = NoEvidence) /\ (refuted => evidence = NoEvidence)
    BY <2>1 DEF Revoked
  <2>3. \A q \in Proc : pc[p] \in Fresh /\ pc[q] \in Fresh => p = q
    BY <2>1 DEF OneAtATime, Alone
  <2>4. CASE ReadBefore(p) \/ ScopeMissing(p) \/ FingerprintDone(p) \/ LockEvidence(p)
    BY <2>1, <2>2, <2>4 DEF Revoked, ReadBefore, ScopeMissing, FingerprintDone, LockEvidence
  <2>5. CASE Reuse(p) \/ GoFresh(p) \/ RemoveEvidence(p)
    BY <2>1, <2>2, <2>5 DEF Revoked, Reuse, GoFresh, RemoveEvidence
  <2>6. CASE PreflightPasses(p) \/ PreflightFails(p) \/ PreflightUnchanged(p)
    BY <2>1, <2>2, <2>6 DEF Revoked, PreflightPasses, PreflightFails, PreflightUnchanged
  <2>7. CASE ReadAfter(p) \/ ScopeVanished(p) \/ ScopeChanged(p) \/ EngineReads(p) \/ EnginePasses(p)
    BY <2>1, <2>2, <2>7 DEF Revoked, ReadAfter, ScopeVanished, ScopeChanged, EngineReads, EnginePasses
  <2>8. CASE EngineFails(p) \/ FailsUnchanged(p) \/ Killed(p)
    BY <2>1, <2>2, <2>8 DEF Revoked, EngineFails, FailsUnchanged, Killed
  <2>9. CASE Passes(p)
    BY <2>1, <2>2, <2>3, <2>9 DEF Revoked, Passes
  <2> QED
    BY <1>1, <2>4, <2>5, <2>6, <2>7, <2>8, <2>9 DEF Step
<1>2. ASSUME NEW p \in Proc, Begin(p) PROVE Revoked'
  BY <1>2 DEF Begin, OneAtATime, Revoked
<1>3. CASE Edit \/ UNCHANGED vars
  BY <1>3 DEF Edit, vars, Revoked
<1> QED
  BY <1>1, <1>2, <1>3 DEF Next

\* Nobody reuses a PASS that is older than a failure, however the runs of the
\* Node runner overlap, and as long as those of Gradle and Maven do not.
THEOREM FailuresCount == Spec => NoFallback
<1>1. Init => FallbackInv
  BY DEF Init, FallbackInv, OneAtATime, Revoked, Alone, Running, Ended, Locked, Fresh
<1>2. FallbackInv /\ [Next]_vars => FallbackInv'
  BY OneStep, RevokedStep DEF FallbackInv
<1>3. FallbackInv /\ [Next]_vars =>
        [\A p \in Proc : Reports(p, "reused") /\ (overlapped => tool = "node") => ~refuted]_vars
  <2> SUFFICES ASSUME FallbackInv, Next, NEW p \in Proc, Reports(p, "reused"),
                      overlapped => tool = "node"
               PROVE  ~refuted
    BY DEF vars
  <2>1. refuted => evidence.status # "PASS"
    BY DEF FallbackInv, Revoked, NoEvidence
  <2>2. Reuse(p)
    <3> USE DEF Reports, FallbackInv, OneAtATime, Goto, Exit, EndFailed, GoVerify, Running, Ended, Locked, Fresh, history
    <3>1. ~Edit /\ \A q \in Proc : ~Begin(q)
      BY DEF Edit, Begin
    <3>2. \A q \in Proc : q # p => ~Step(q) /\ ~Killed(q)
      BY RunGoesOn
    <3>3. Step(p) \/ Killed(p)
      BY <3>1, <3>2 DEF Next
    <3>4. ~(ReadBefore(p) \/ ScopeMissing(p) \/ FingerprintDone(p) \/ LockEvidence(p) \/ GoFresh(p) \/ RemoveEvidence(p))
      BY DEF ReadBefore, ScopeMissing, FingerprintDone, LockEvidence, GoFresh, RemoveEvidence
    <3>5. ~(PreflightPasses(p) \/ PreflightFails(p) \/ PreflightUnchanged(p) \/ ReadAfter(p) \/ ScopeVanished(p))
      BY DEF PreflightPasses, PreflightFails, PreflightUnchanged, ReadAfter, ScopeVanished
    <3>6. ~(ScopeChanged(p) \/ EngineReads(p) \/ EnginePasses(p) \/ EngineFails(p))
      BY DEF ScopeChanged, EngineReads, EnginePasses, EngineFails
    <3>7. ~(Passes(p) \/ FailsUnchanged(p) \/ Killed(p))
      BY DEF Passes, FailsUnchanged, Killed
    <3> QED
      BY <3>3, <3>4, <3>5, <3>6, <3>7 DEF Step
  <2> QED
    BY <2>1, <2>2 DEF Reuse, Reusable
<1> QED
  BY <1>1, <1>2, <1>3, PTL DEF Spec, NoFallback

-----------------------------------------------------------------------------
(* What a run has missed *)

Index == 1..FileCount

\* A print taken file by file of a tree that changes meanwhile, and a tree it is
\* to be compared with: file i was read as something else, or is something else
\* before it has been read.
MissedAt(i, T, now, print) ==
  IF i > Len(print) THEN T[i] # now[i] ELSE print[i] # T[i]

\* The print can then no longer become that tree.
Missed(T, now, print) == \E i \in Index : MissedAt(i, T, now, print)

\* Reading one more file keeps what was missed, ...
LEMMA MissedRead ==
  ASSUME NEW i \in Index, NEW T, NEW now \in [Index -> Nat], NEW print \in Seq(Nat),
         Len(print) < FileCount, MissedAt(i, T, now, print)
  PROVE  MissedAt(i, T, now, Append(print, now[Len(print) + 1]))
<1>1. Len(print) \in Nat /\ now[Len(print) + 1] \in Nat
  BY LenProperties, CountAssumption DEF Index
<1>2. /\ Len(Append(print, now[Len(print) + 1])) = Len(print) + 1
      /\ \A j \in 1..Len(print) : Append(print, now[Len(print) + 1])[j] = print[j]
      /\ Append(print, now[Len(print) + 1])[Len(print) + 1] = now[Len(print) + 1]
  BY <1>1, AppendProperties
<1> QED
  BY <1>1, <1>2 DEF MissedAt, Index

\* ... and so does an edit that brings nothing back but that a file is missing.
LEMMA MissedChange ==
  ASSUME NEW i \in Index, NEW T, NEW now, NEW now2, NEW print \in Seq(Nat), NEW e \in Nat,
         T[i] \in 1..(e + 1), now2[i] \in {now[i], Missing, e + 2},
         MissedAt(i, T, now, print)
  PROVE  MissedAt(i, T, now2, print)
  BY LenProperties DEF MissedAt, Missing

\* What was missed shows in the complete print.
LEMMA MissedWhole ==
  ASSUME NEW i \in Index, NEW T, NEW now, NEW print, Len(print) = FileCount,
         MissedAt(i, T, now, print)
  PROVE  print[i] # T[i]
  BY CountAssumption DEF MissedAt, Index

\* Nothing is missed at the start if the tree is still as it was.
LEMMA MissedStart ==
  ASSUME NEW T \in [Index -> Nat], NEW now \in [Index -> Nat], T # now
  PROVE  Missed(T, now, <<>>)
<1>1. PICK i \in Index : T[i] # now[i]
  OBVIOUS
<1> QED
  BY <1>1 DEF Missed, MissedAt, Index

-----------------------------------------------------------------------------
(* A PASS is about a tree that was there and passed *)

Past == [Index -> 0..(edits + 1)]

Shaped ==
  /\ edits \in Nat
  /\ pc \in [Proc -> Running \union Ended]
  /\ run \in [Proc -> [reuse: BOOLEAN, before: Seq(Nat), built: Seq(Nat), after: Seq(Nat), ok: BOOLEAN]]
  /\ during \in [Proc -> SUBSET [Index -> Nat]]
  /\ tree \in Past

\* Where a run is, and what its local variables then hold.
Placed(p) ==
  /\ Len(run[p].before) <= FileCount /\ Len(run[p].built) <= FileCount /\ Len(run[p].after) <= FileCount
  /\ \A i \in 1..Len(run[p].before) : run[p].before[i] \in 1..(edits + 1)
  /\ during[p] \subseteq Past
  /\ pc[p] \in Ended => run[p].before = <<>>
  /\ pc[p] \in Running => tree \in during[p]
  /\ pc[p] \in Running \ {"fingerprint"} => Whole(run[p].before)
  /\ pc[p] \notin {"recheck", "after"} => run[p].after = <<>>
  /\ pc[p] \notin {"engine", "after"} => run[p].built = <<>>
  /\ run[p].ok => pc[p] = "after" /\ Whole(run[p].built) /\ run[p].built \in verified

\* As long as no content has come back during the run, its first fingerprint was
\* the tree at some moment of it, or the second one cannot be the same.  And
\* neither can it if the engine read something else.
Compared(p) ==
  pc[p] \in Running /\ p \notin rewound /\ Whole(run[p].before) =>
    /\ run[p].before \in during[p] \/ Missed(run[p].before, tree, run[p].after)
    /\ \A i \in 1..Len(run[p].built) :
         run[p].built[i] # run[p].before[i] => MissedAt(i, run[p].before, tree, run[p].after)

\* The evidence is about a tree that an engine has read and passed, unless it was
\* recorded by a run during which a content came back.
Recorded ==
  evidence.status = "PASS" =>
    /\ evidence.scope \in [Index -> 1..(edits + 1)]
    /\ evidence.scope \in verified \/ doubtful

\* The trees there were during a run that goes on, and the one the evidence is about.
Remembered(T) ==
  \/ \E p \in Proc : T \in during[p]
  \/ evidence.status = "PASS" /\ ~doubtful /\ T = evidence.scope

\* Each of them was there during every other run, too, or that run cannot take it
\* for the tree it finds, as long as no content has come back during that run.
Traced(q) ==
  \A T \in [Index -> Nat \ {Missing}] :
    q \notin rewound /\ Remembered(T) => T \in during[q] \/ Missed(T, tree, run[q].before)

RealInv ==
  /\ Shaped /\ Recorded
  /\ \A p \in Proc : Placed(p) /\ Compared(p) /\ (pc[p] \in Running => Traced(p))

\* What a step does not touch stays as it was.
LEMMA Elsewhere ==
  ASSUME NEW q \in Proc, Shaped, Placed(q), Compared(q),
         pc'[q] = pc[q], run'[q] = run[q], during'[q] = during[q],
         q \in rewound /\ pc'[q] \in Running => q \in rewound',
         UNCHANGED <<tree, edits>>, verified \subseteq verified'
  PROVE  Placed(q)' /\ Compared(q)'
<1>1. Placed(q)'
  BY DEF Placed, Past, Whole
<1>2. Compared(q)'
  BY DEF Compared, Whole, Missed, MissedAt
<1> QED
  BY <1>1, <1>2

\* As long as the tree and the fingerprint stay, nothing new is to be traced.
LEMMA TracedKeeps ==
  ASSUME NEW q \in Proc, Traced(q), tree' = tree,
         run'[q].before = run[q].before, during'[q] = during[q], q \in rewound => q \in rewound',
         \A T : Remembered(T)' => Remembered(T)
  PROVE  Traced(q)'
<1> SUFFICES ASSUME NEW T \in [Index -> Nat \ {Missing}], q \notin rewound', Remembered(T)'
             PROVE  T \in during'[q] \/ Missed(T, tree', run'[q].before)
  BY DEF Traced
<1>1. T \in during[q] \/ Missed(T, tree, run[q].before)
  BY DEF Traced
<1> QED
  BY <1>1

\* A step of one run that neither reads for its first fingerprint nor begins.
LEMMA Alike ==
  ASSUME RealInv, NEW p \in Proc,
         UNCHANGED <<tree, edits>>, verified \subseteq verified',
         \A q \in Proc : q # p => pc'[q] = pc[q] /\ run'[q] = run[q] /\ during'[q] = during[q],
         \A q \in Proc : q \in rewound /\ pc'[q] \in Running => q \in rewound',
         pc'[p] \in Running => /\ pc[p] \in Running
                               /\ run'[p].before = run[p].before /\ during'[p] = during[p],
         during'[p] \subseteq during[p],
         \/ evidence' = NoEvidence \/ (evidence' = evidence /\ doubtful' = doubtful)
         \/ evidence'.scope \in during[p] \/ doubtful',
         Shaped', Recorded', Placed(p)', Compared(p)'
  PROVE  RealInv'
<1>1. \A T : Remembered(T)' => Remembered(T)
  BY DEF Remembered, NoEvidence
<1>2. ASSUME NEW q \in Proc, q # p PROVE Placed(q)' /\ Compared(q)' /\ (pc'[q] \in Running => Traced(q)')
  <2>1. Placed(q)' /\ Compared(q)'
    BY <1>2, Elsewhere DEF RealInv
  <2>2. pc'[q] \in Running => Traced(q)'
    BY <1>1, <1>2, TracedKeeps DEF RealInv
  <2> QED
    BY <2>1, <2>2
<1>3. pc'[p] \in Running => Traced(p)'
  BY <1>1, TracedKeeps DEF RealInv
<1> QED
  BY <1>2, <1>3 DEF RealInv

\* A run that ends leaves nothing to be compared.
LEMMA Leaving ==
  ASSUME RealInv, NEW p \in Proc, NEW verdict \in Ended, Exit(p, verdict),
         UNCHANGED <<tree, edits>>
  PROVE  /\ Shaped' /\ Placed(p)' /\ Compared(p)'
         /\ pc'[p] \in Ended /\ pc'[p] \notin Running /\ during'[p] = {}
         /\ \A q \in Proc : q # p => pc'[q] = pc[q] /\ run'[q] = run[q] /\ during'[q] = during[q]
         /\ \A q \in Proc : q \in rewound /\ pc'[q] \in Running => q \in rewound'
<1>1. <<>> \in Seq(Nat) /\ Len(<<>>) = 0
  BY EmptySeq
<1>2. NoRun \in [reuse: BOOLEAN, before: Seq(Nat), built: Seq(Nat), after: Seq(Nat), ok: BOOLEAN]
  BY <1>1 DEF NoRun
<1>3. Shaped'
  BY <1>2 DEF RealInv, Shaped, Exit, Goto, Past
<1>4. /\ pc'[p] = verdict /\ run'[p] = NoRun /\ during'[p] = {}
      /\ \A q \in Proc : q # p => pc'[q] = pc[q] /\ run'[q] = run[q] /\ during'[q] = during[q]
  BY DEF RealInv, Shaped, Exit, Goto
<1>5. verdict \notin Running
  BY DEF Running, Ended, Locked, Fresh
<1>6. Placed(p)'
  BY <1>1, <1>4, <1>5, CountAssumption DEF Placed, NoRun, Ended, Running, Locked, Fresh
<1>7. Compared(p)'
  BY <1>4, <1>5 DEF Compared
<1>8. \A q \in Proc : q \in rewound /\ pc'[q] \in Running => q \in rewound'
  BY <1>4, <1>5 DEF Exit
<1> QED
  BY <1>3, <1>4, <1>5, <1>6, <1>7, <1>8

\* A run that ends without a new PASS keeps the invariant, whether it removes the
\* evidence or not.
LEMMA EndsWithoutPass ==
  ASSUME RealInv, NEW p \in Proc, NEW verdict \in Ended, Exit(p, verdict),
         UNCHANGED <<tree, edits, verified>>,
         evidence' = NoEvidence \/ (evidence' = evidence /\ doubtful' = doubtful)
  PROVE  RealInv'
<1>1. Recorded'
  BY DEF RealInv, Recorded, NoEvidence
<1> QED
  BY <1>1, Leaving, Alike

\* A step that moves a run on and touches nothing but its place.
LEMMA MovesOn ==
  ASSUME RealInv, NEW p \in Proc, NEW where \in Locked \union {"lock"},
         pc[p] \in Running, Goto(p, where),
         pc[p] = "fingerprint" => Whole(run[p].before),
         where \in {"recheck", "after"} \/ pc[p] \notin {"recheck", "after"},
         where = "after" => pc[p] = "engine",
         where = "engine" \/ pc[p] # "engine" \/ where = "after",
         pc[p] # "after",
         UNCHANGED <<tree, run, edits, verified, during, rewound>>,
         evidence' = NoEvidence \/ (evidence' = evidence /\ doubtful' = doubtful)
  PROVE  RealInv'
<1>1. Recorded'
  BY DEF RealInv, Recorded, NoEvidence
<1>2. /\ Shaped' /\ pc'[p] = where /\ where \in Running /\ where \notin Ended /\ where # "fingerprint"
      /\ \A q \in Proc : q # p => pc'[q] = pc[q]
  BY DEF RealInv, Shaped, Goto, Past, Running, Locked, Fresh, Ended
<1>3. Placed(p) /\ Compared(p)
  BY DEF RealInv
<1>4. Placed(p)'
  BY <1>2, <1>3 DEF Placed, Past, Whole
<1>5. Compared(p)'
  BY <1>2, <1>3 DEF Compared, Whole, Missed, MissedAt
<1> QED
  BY <1>1, <1>2, <1>4, <1>5, Alike

\* One more file of a print that is not complete.
LEMMA OneMore ==
  ASSUME RealInv, NEW print \in Seq(Nat), Len(print) <= FileCount, ~Whole(print)
  PROVE  /\ Len(print) \in Nat /\ Len(print) + 1 \in Index /\ Len(print) < FileCount
         /\ tree[Len(print) + 1] \in 0..(edits + 1)
         /\ Extended(print) \in Seq(Nat) /\ Len(Extended(print)) = Len(print) + 1
         /\ \A i \in 1..Len(print) : Extended(print)[i] = print[i]
         /\ Extended(print)[Len(print) + 1] = tree[Len(print) + 1]
<1>1. Len(print) \in Nat
  BY LenProperties
<1>2. Len(print) + 1 \in Index /\ Len(print) < FileCount
  BY <1>1, CountAssumption DEF Index, Whole
<1>3. tree[Len(print) + 1] \in 0..(edits + 1) /\ tree[Len(print) + 1] \in Nat
  BY <1>2 DEF RealInv, Shaped, Past
<1> QED
  BY <1>1, <1>2, <1>3, AppendProperties DEF Extended

\* Whatever a reader has missed stays missed when it reads on.
LEMMA SomeMore ==
  ASSUME RealInv, NEW T, NEW print \in Seq(Nat), Len(print) <= FileCount, ~Whole(print),
         NEW i \in Index, MissedAt(i, T, tree, print)
  PROVE  MissedAt(i, T, tree, Extended(print))
<1>1. tree \in [Index -> Nat]
  BY DEF RealInv, Shaped, Past
<1>2. Len(print) < FileCount
  BY OneMore
<1> QED
  BY <1>1, <1>2, MissedRead DEF Extended

\* The first fingerprint: once it is complete it is the tree, or some file has
\* changed since it was read.
LEMMA ReadsBefore ==
  ASSUME RealInv, NEW p \in Proc, ReadBefore(p)
  PROVE  RealInv'
<1> DEFINE b == run[p].before
<1>1. /\ pc[p] = "fingerprint" /\ pc[p] \in Running /\ ~Whole(b) /\ tree[Len(b) + 1] # Missing
      /\ run' = [run EXCEPT ![p].before = Extended(@)]
      /\ UNCHANGED <<tree, evidence, pc, edits, verified, during, rewound, doubtful>>
  BY DEF ReadBefore, history, Unreadable, Running
<1>2. b \in Seq(Nat) /\ Len(b) <= FileCount /\ Placed(p) /\ Compared(p)
  BY DEF RealInv, Shaped, Placed
<1>3. run[p].after = <<>> /\ run[p].built = <<>> /\ ~run[p].ok /\ Len(<<>>) = 0 /\ <<>> \in Seq(Nat)
  BY <1>1, <1>2, EmptySeq DEF Placed
<1>4. /\ Len(b) \in Nat /\ Len(b) + 1 \in Index /\ Len(b) < FileCount
      /\ tree[Len(b) + 1] \in 0..(edits + 1)
      /\ Extended(b) \in Seq(Nat) /\ Len(Extended(b)) = Len(b) + 1
      /\ \A i \in 1..Len(b) : Extended(b)[i] = b[i]
      /\ Extended(b)[Len(b) + 1] = tree[Len(b) + 1]
  BY <1>1, <1>2, OneMore
<1>5. /\ Shaped' /\ run'[p].before = Extended(b)
      /\ run'[p].after = <<>> /\ run'[p].built = <<>> /\ run'[p].ok = run[p].ok
      /\ \A q \in Proc : q # p => run'[q] = run[q]
  <2>1. run' \in [Proc -> [reuse: BOOLEAN, before: Seq(Nat), built: Seq(Nat), after: Seq(Nat), ok: BOOLEAN]]
    BY <1>1, <1>4 DEF RealInv, Shaped
  <2>2. Shaped'
    BY <1>1, <2>1 DEF RealInv, Shaped, Past
  <2>3. /\ run'[p].before = Extended(b)
        /\ run'[p].after = run[p].after /\ run'[p].built = run[p].built /\ run'[p].ok = run[p].ok
        /\ \A q \in Proc : q # p => run'[q] = run[q]
    BY <1>1 DEF RealInv, Shaped
  <2> QED
    BY <1>3, <2>2, <2>3
<1>6. edits \in Nat /\ tree \in Past
  BY DEF RealInv, Shaped
<1>7. Placed(p)'
  <2>1. \A i \in 1..Len(Extended(b)) : Extended(b)[i] \in 1..(edits + 1)
    <3> SUFFICES ASSUME NEW i \in 1..Len(Extended(b)) PROVE Extended(b)[i] \in 1..(edits + 1)
      OBVIOUS
    <3>1. CASE i \in 1..Len(b)
      BY <1>2, <1>4, <3>1 DEF Placed
    <3>2. CASE i = Len(b) + 1
      <4>1. Extended(b)[i] = tree[Len(b) + 1] /\ tree[Len(b) + 1] \in 0..(edits + 1) /\ tree[Len(b) + 1] # 0
        BY <1>1, <1>4, <3>2 DEF Missing
      <4> QED
        BY <1>6, <4>1
    <3> HIDE DEF b
    <3> QED
      BY <1>4, <3>1, <3>2
  <2>2. Len(Extended(b)) <= FileCount
    BY <1>4, CountAssumption
  <2>3. pc[p] \notin Ended
    BY <1>1 DEF Ended
  <2> QED
    BY <1>1, <1>2, <1>3, <1>5, <2>1, <2>2, <2>3, CountAssumption DEF Placed, Past
<1>8. Compared(p)'
  <2> SUFFICES ASSUME Whole(Extended(b))
               PROVE  Extended(b) \in during[p] \/ Missed(Extended(b), tree, <<>>)
    BY <1>1, <1>3, <1>5 DEF Compared, Whole
  <2>1. Extended(b) \in [Index -> Nat]
    BY <1>4, LenProperties DEF Whole, Index
  <2>2. tree \in [Index -> Nat]
    BY <1>6 DEF Past
  <2>3. tree \in during[p]
    BY <1>1, <1>2 DEF Placed
  <2> QED
    BY <2>1, <2>2, <2>3, MissedStart
<1>9. Traced(p)'
  <2> SUFFICES ASSUME NEW T \in [Index -> Nat \ {Missing}], p \notin rewound, Remembered(T)'
               PROVE  T \in during[p] \/ Missed(T, tree, Extended(b))
    BY <1>1, <1>5 DEF Traced
  <2>1. Remembered(T)
    BY <1>1 DEF Remembered
  <2>2. T \in during[p] \/ Missed(T, tree, b)
    BY <1>1, <2>1 DEF RealInv, Traced
  <2> QED
    BY <1>1, <1>2, <2>2, SomeMore DEF Missed
<1>10. ASSUME NEW q \in Proc, q # p PROVE Placed(q)' /\ Compared(q)' /\ (pc'[q] \in Running => Traced(q)')
  <2>1. Placed(q)' /\ Compared(q)'
    BY <1>1, <1>5, <1>10, Elsewhere DEF RealInv
  <2>2. \A T : Remembered(T)' => Remembered(T)
    BY <1>1 DEF Remembered
  <2>3. pc'[q] \in Running => Traced(q)'
    BY <1>1, <1>5, <1>10, <2>2, TracedKeeps DEF RealInv
  <2> QED
    BY <2>1, <2>3
<1>11. Recorded'
  BY <1>1 DEF RealInv, Recorded
<1> QED
  BY <1>5, <1>7, <1>8, <1>9, <1>10, <1>11 DEF RealInv

\* The second fingerprint.
LEMMA ReadsAfter ==
  ASSUME RealInv, NEW p \in Proc, ReadAfter(p)
  PROVE  RealInv'
<1> DEFINE a == run[p].after
<1>1. /\ pc[p] \in {"recheck", "after"} /\ pc[p] \in Running /\ ~Whole(a)
      /\ run' = [run EXCEPT ![p].after = Extended(@)]
      /\ UNCHANGED <<tree, evidence, pc, edits, verified, during, rewound, doubtful>>
  BY DEF ReadAfter, history, Running, Locked, Fresh
<1>2. a \in Seq(Nat) /\ Len(a) <= FileCount /\ Placed(p) /\ Compared(p)
  BY DEF RealInv, Shaped, Placed
<1>3. /\ Len(a) \in Nat /\ Len(a) < FileCount
      /\ Extended(a) \in Seq(Nat) /\ Len(Extended(a)) = Len(a) + 1
  BY <1>1, <1>2, OneMore
<1>4. run' \in [Proc -> [reuse: BOOLEAN, before: Seq(Nat), built: Seq(Nat), after: Seq(Nat), ok: BOOLEAN]]
  BY <1>1, <1>3 DEF RealInv, Shaped
<1>5. Shaped'
  BY <1>1, <1>4 DEF RealInv, Shaped, Past
<1>6. /\ run'[p].after = Extended(a)
      /\ run'[p].before = run[p].before /\ run'[p].built = run[p].built /\ run'[p].ok = run[p].ok
      /\ \A q \in Proc : q # p => run'[q] = run[q]
  BY <1>1 DEF RealInv, Shaped
<1>7. Placed(p)'
  <2>1. Len(Extended(a)) <= FileCount
    BY <1>3, CountAssumption
  <2> QED
    BY <1>1, <1>2, <1>6, <2>1 DEF Placed, Past, Whole
<1>8. Compared(p)'
  <2> SUFFICES ASSUME p \notin rewound, Whole(run[p].before)
               PROVE  /\ \/ run[p].before \in during[p]
                         \/ Missed(run[p].before, tree, Extended(a))
                      /\ \A i \in 1..Len(run[p].built) : run[p].built[i] # run[p].before[i] =>
                           MissedAt(i, run[p].before, tree, Extended(a))
    BY <1>1, <1>6 DEF Compared
  <2>1. /\ run[p].before \in during[p] \/ Missed(run[p].before, tree, a)
        /\ \A i \in 1..Len(run[p].built) : run[p].built[i] # run[p].before[i] =>
             MissedAt(i, run[p].before, tree, a)
    BY <1>1, <1>2 DEF Compared
  <2>2. \A i \in Index : MissedAt(i, run[p].before, tree, a) => MissedAt(i, run[p].before, tree, Extended(a))
    BY <1>1, <1>2, SomeMore
  <2>3. \A i \in 1..Len(run[p].built) : i \in Index
    <3>1. run[p].built \in Seq(Nat) /\ Len(run[p].built) <= FileCount
      BY <1>2 DEF RealInv, Shaped, Placed
    <3>2. Len(run[p].built) \in Nat
      BY <3>1, LenProperties
    <3> QED
      BY <3>1, <3>2, CountAssumption DEF Index
  <2> QED
    BY <2>1, <2>2, <2>3 DEF Missed
<1>9. Recorded'
  BY <1>1 DEF RealInv, Recorded
<1> QED
  BY <1>1, <1>5, <1>6, <1>7, <1>8, <1>9, Alike

-----------------------------------------------------------------------------
\* What the engine reads, unlike the first fingerprint, has changed since, or will
\* have when the second one gets there.
LEMMA EngineStep ==
  ASSUME RealInv, NEW p \in Proc, EngineReads(p)
  PROVE  RealInv'
<1> DEFINE m == run[p].built
<1>1. /\ pc[p] = "engine" /\ pc[p] \in Running /\ pc[p] # "fingerprint" /\ ~Whole(m)
      /\ run' = [run EXCEPT ![p].built = Extended(@)]
      /\ UNCHANGED <<tree, evidence, pc, edits, verified, during, rewound, doubtful>>
  BY DEF EngineReads, history, Running, Locked, Fresh
<1>2. m \in Seq(Nat) /\ Len(m) <= FileCount /\ Placed(p) /\ Compared(p)
  BY DEF RealInv, Shaped, Placed
<1>3. /\ Len(m) \in Nat /\ Len(m) + 1 \in Index /\ Len(m) < FileCount
      /\ Extended(m) \in Seq(Nat) /\ Len(Extended(m)) = Len(m) + 1
      /\ \A i \in 1..Len(m) : Extended(m)[i] = m[i]
      /\ Extended(m)[Len(m) + 1] = tree[Len(m) + 1]
  BY <1>1, <1>2, OneMore
<1>4. run' \in [Proc -> [reuse: BOOLEAN, before: Seq(Nat), built: Seq(Nat), after: Seq(Nat), ok: BOOLEAN]]
  BY <1>1, <1>3 DEF RealInv, Shaped
<1>5. Shaped'
  BY <1>1, <1>4 DEF RealInv, Shaped, Past
<1>6. /\ run'[p].built = Extended(m)
      /\ run'[p].before = run[p].before /\ run'[p].after = run[p].after /\ run'[p].ok = run[p].ok
      /\ \A q \in Proc : q # p => run'[q] = run[q]
  BY <1>1 DEF RealInv, Shaped
<1>7. run[p].after = <<>> /\ Len(<<>>) = 0 /\ ~run[p].ok
  BY <1>1, <1>2, EmptySeq DEF Placed
<1>8. Placed(p)'
  <2>1. Len(Extended(m)) <= FileCount
    BY <1>3, CountAssumption
  <2> QED
    BY <1>1, <1>2, <1>6, <1>7, <2>1 DEF Placed, Past, Whole
<1>9. Compared(p)'
  <2> SUFFICES ASSUME p \notin rewound, Whole(run[p].before), NEW i \in 1..Len(Extended(m)), Extended(m)[i] # run[p].before[i]
               PROVE  MissedAt(i, run[p].before, tree, <<>>)
    BY <1>1, <1>2, <1>6, <1>7 DEF Compared
  <2>1. CASE i \in 1..Len(m)
    BY <1>1, <1>2, <1>3, <1>7, <2>1 DEF Compared
  <2>2. CASE i = Len(m) + 1
    BY <1>3, <1>7, <2>2 DEF MissedAt
  <2> HIDE DEF m
  <2> QED
    BY <1>3, <2>1, <2>2
<1>10. Recorded'
  BY <1>1 DEF RealInv, Recorded
<1> QED
  BY <1>1, <1>5, <1>6, <1>8, <1>9, <1>10, Alike

\* An engine that passes has read one whole tree, which is noted as verified.
LEMMA EngineDone ==
  ASSUME RealInv, NEW p \in Proc, EnginePasses(p)
  PROVE  RealInv'
<1>1. /\ pc[p] = "engine" /\ Whole(run[p].built)
      /\ run' = [run EXCEPT ![p].ok = TRUE] /\ pc' = [pc EXCEPT ![p] = "after"]
      /\ verified' = verified \union {run[p].built}
      /\ UNCHANGED <<tree, evidence, edits, during, rewound, doubtful>>
  BY DEF EnginePasses, Goto
<1>2. {"engine", "after"} \subseteq Running /\ "after" \notin Ended
  BY DEF Running, Locked, Fresh, Ended
<1>3. Shaped'
  BY <1>1, <1>2 DEF RealInv, Shaped, Past
<1>4. /\ run'[p].before = run[p].before /\ run'[p].built = run[p].built
      /\ run'[p].after = run[p].after /\ pc'[p] = "after"
      /\ \A q \in Proc : q # p => pc'[q] = pc[q] /\ run'[q] = run[q]
  BY <1>1 DEF RealInv, Shaped
<1>5. Placed(p) /\ Compared(p)
  BY DEF RealInv
<1>6. Placed(p)'
  BY <1>1, <1>2, <1>4, <1>5 DEF Placed, Past, Whole
<1>7. Compared(p)'
  BY <1>1, <1>2, <1>4, <1>5 DEF Compared, Whole, Missed, MissedAt
<1>8. Recorded'
  BY <1>1 DEF RealInv, Recorded
<1> QED
  BY <1>1, <1>2, <1>3, <1>4, <1>6, <1>7, <1>8, Alike

\* Two fingerprints that agree are the tree of a moment of the run, and the engine
\* has read that tree.
LEMMA Agreed ==
  ASSUME RealInv, NEW p \in Proc, p \notin rewound, pc[p] \in Running \ {"fingerprint"}, ScopeUnchanged(p)
  PROVE  /\ run[p].before \in during[p]
         /\ Whole(run[p].built) => run[p].built = run[p].before
<1>1. /\ Placed(p) /\ Compared(p) /\ Whole(run[p].before) /\ run[p].after = run[p].before
      /\ run[p].before \in Seq(Nat) /\ run[p].built \in Seq(Nat)
  BY DEF RealInv, Shaped, Placed, ScopeUnchanged
<1>2. \A i \in Index : ~MissedAt(i, run[p].before, tree, run[p].after)
  BY <1>1, MissedWhole DEF Whole
<1>3. run[p].before \in during[p]
  BY <1>1, <1>2 DEF Compared, Missed
<1>4. ASSUME Whole(run[p].built) PROVE run[p].built = run[p].before
  <2>1. \A i \in 1..Len(run[p].built) : run[p].built[i] = run[p].before[i]
    BY <1>1, <1>2, <1>4 DEF Compared, Index, Whole
  <2> QED
    BY <1>1, <1>4, <2>1, SeqEqual DEF Whole
<1> QED
  BY <1>3, <1>4

\* A preflight whose second fingerprint agrees begins a fresh run.
LEMMA PreflightDone ==
  ASSUME RealInv, NEW p \in Proc, PreflightUnchanged(p)
  PROVE  RealInv'
<1>1. /\ pc[p] = "recheck" /\ ScopeUnchanged(p)
      /\ run' = [run EXCEPT ![p].after = <<>>] /\ pc' = [pc EXCEPT ![p] = "engine"]
      /\ UNCHANGED <<tree, evidence, edits, verified, during, rewound, doubtful>>
  BY DEF PreflightUnchanged, Goto, history
<1>2. {"recheck", "engine"} \subseteq Running /\ "engine" \notin Ended
  BY DEF Running, Locked, Fresh, Ended
<1>3. <<>> \in Seq(Nat) /\ Len(<<>>) = 0
  BY EmptySeq
<1>4. Shaped'
  BY <1>1, <1>2, <1>3 DEF RealInv, Shaped, Past
<1>5. /\ run'[p].before = run[p].before /\ run'[p].built = run[p].built /\ run'[p].after = <<>>
      /\ run'[p].ok = run[p].ok /\ pc'[p] = "engine"
      /\ \A q \in Proc : q # p => pc'[q] = pc[q] /\ run'[q] = run[q]
  BY <1>1 DEF RealInv, Shaped
<1>6. Placed(p) /\ run[p].built = <<>> /\ ~run[p].ok
  BY <1>1 DEF RealInv, Placed
<1>7. Placed(p)'
  BY <1>1, <1>2, <1>3, <1>5, <1>6, CountAssumption DEF Placed, Past, Whole
<1>8. Compared(p)'
  <2>1. p \notin rewound => run[p].before \in during[p]
    BY <1>1, <1>2, Agreed
  <2> QED
    BY <1>1, <1>3, <1>5, <1>6, <2>1 DEF Compared
<1>9. Recorded'
  BY <1>1 DEF RealInv, Recorded
<1> QED
  BY <1>1, <1>2, <1>4, <1>5, <1>7, <1>8, <1>9, Alike

\* A PASS is recorded for the tree that was there, and passed.
LEMMA PassRecorded ==
  ASSUME RealInv, NEW p \in Proc, Passes(p)
  PROVE  RealInv' /\ (p \notin rewound => run[p].before \in verified \intersect during[p])
<1>1. /\ pc[p] = "after" /\ pc[p] \in Running \ {"fingerprint"} /\ ScopeUnchanged(p) /\ run[p].ok
      /\ evidence' = Pass(run[p].before, run[p].reuse) /\ Exit(p, "passed")
      /\ doubtful' = (p \in rewound)
      /\ UNCHANGED <<tree, edits, verified>> /\ "passed" \in Ended
  BY DEF Passes, Running, Locked, Fresh, Ended
<1>2. Placed(p) /\ Whole(run[p].before) /\ Whole(run[p].built) /\ run[p].built \in verified
  BY <1>1 DEF RealInv, Placed
<1>3. p \notin rewound => run[p].before \in during[p] /\ run[p].before \in verified
  BY <1>1, <1>2, Agreed
<1>4. run[p].before \in [Index -> 1..(edits + 1)]
  <2>1. run[p].before \in [Index -> Nat]
    BY <1>2, LenProperties DEF RealInv, Shaped, Whole, Index
  <2>2. \A i \in Index : run[p].before[i] \in 1..(edits + 1)
    BY <1>2 DEF Placed, Whole, Index
  <2> QED
    BY <2>1, <2>2
<1>5. evidence'.scope = run[p].before
  BY <1>1 DEF Pass
<1>6. Recorded'
  BY <1>1, <1>3, <1>4, <1>5 DEF Recorded
<1>7. RealInv'
  BY <1>1, <1>3, <1>5, <1>6, Leaving, Alike
<1> QED
  BY <1>3, <1>7

\* A PASS that is reused is about a tree of this very run.
LEMMA PassReused ==
  ASSUME RealInv, NEW p \in Proc, Reuse(p), ~doubtful, p \notin rewound
  PROVE  run[p].before \in verified \intersect during[p]
<1>1. /\ pc[p] \in Running /\ pc[p] # "fingerprint"
      /\ evidence.status = "PASS" /\ evidence.scope = run[p].before
  BY DEF Reuse, Reusable, Running, Locked
<1>2. Whole(run[p].before) /\ run[p].before \in verified /\ run[p].before \in [Index -> 1..(edits + 1)]
  BY <1>1 DEF RealInv, Placed, Recorded
<1>3. run[p].before \in [Index -> Nat \ {Missing}]
  BY <1>2 DEF Missing, RealInv, Shaped
<1>4. run[p].before \in during[p] \/ Missed(run[p].before, tree, run[p].before)
  BY <1>1, <1>3 DEF RealInv, Traced, Remembered
<1>5. ~Missed(run[p].before, tree, run[p].before)
  BY <1>2, MissedWhole DEF Missed, Whole
<1> QED
  BY <1>2, <1>4, <1>5

-----------------------------------------------------------------------------
\* A run that begins remembers the tree of that moment.
LEMMA Begins ==
  ASSUME RealInv, NEW p \in Proc, Begin(p)
  PROVE  RealInv'
<1>1. PICK r \in BOOLEAN : run' = [run EXCEPT ![p].reuse = r]
  BY DEF Begin
<1>2. /\ pc[p] \in Ended /\ pc' = [pc EXCEPT ![p] = "fingerprint"]
      /\ during' = [during EXCEPT ![p] = {tree}]
      /\ UNCHANGED <<tree, evidence, edits, verified, rewound, doubtful>>
  BY DEF Begin, Goto
<1>3. "fingerprint" \in Running /\ "fingerprint" \notin Ended
  BY DEF Running, Ended
<1>4. tree \in Past /\ tree \in [Index -> Nat] /\ edits \in Nat
  BY DEF RealInv, Shaped, Past
<1>5. Shaped'
  <2>1. run' \in [Proc -> [reuse: BOOLEAN, before: Seq(Nat), built: Seq(Nat), after: Seq(Nat), ok: BOOLEAN]]
    BY <1>1 DEF RealInv, Shaped
  <2>2. during' \in [Proc -> SUBSET [Index -> Nat]]
    BY <1>2, <1>4 DEF RealInv, Shaped
  <2> QED
    BY <1>2, <1>3, <2>1, <2>2 DEF RealInv, Shaped, Past
<1>6. /\ run'[p].before = run[p].before /\ run'[p].built = run[p].built
      /\ run'[p].after = run[p].after /\ run'[p].ok = run[p].ok
      /\ pc'[p] = "fingerprint" /\ during'[p] = {tree}
      /\ \A q \in Proc : q # p => pc'[q] = pc[q] /\ run'[q] = run[q] /\ during'[q] = during[q]
  BY <1>1, <1>2 DEF RealInv, Shaped
<1>7. Placed(p) /\ run[p].before = <<>> /\ ~run[p].ok /\ Len(<<>>) = 0
  BY <1>2, EmptySeq DEF RealInv, Placed, Ended
<1>8. run[p].after = <<>> /\ run[p].built = <<>>
  BY <1>2, <1>7 DEF Placed, Ended
<1>9. Placed(p)'
  BY <1>2, <1>3, <1>4, <1>6, <1>7, <1>8, CountAssumption DEF Placed, Past
<1>10. Compared(p)'
  BY <1>6, <1>7, CountAssumption DEF Compared, Whole
<1>11. \A T : Remembered(T)' => Remembered(T) \/ T = tree
  BY <1>2, <1>6 DEF Remembered
<1>12. Traced(p)'
  <2> SUFFICES ASSUME NEW T \in [Index -> Nat \ {Missing}], T # tree
               PROVE  Missed(T, tree, <<>>)
    BY <1>2, <1>6, <1>7 DEF Traced
  <2>1. T \in [Index -> Nat]
    OBVIOUS
  <2> QED
    BY <1>4, <2>1, MissedStart
<1>13. ASSUME NEW q \in Proc, q # p PROVE Placed(q)' /\ Compared(q)' /\ (pc'[q] \in Running => Traced(q)')
  <2>1. Placed(q)' /\ Compared(q)'
    BY <1>2, <1>6, <1>13, Elsewhere DEF RealInv
  <2>2. ASSUME pc'[q] \in Running PROVE Traced(q)'
    <3>1. Traced(q) /\ tree \in during[q]
      BY <1>6, <1>13, <2>2 DEF RealInv, Placed
    <3> SUFFICES ASSUME NEW T \in [Index -> Nat \ {Missing}], q \notin rewound, Remembered(T)'
                 PROVE  T \in during[q] \/ Missed(T, tree, run[q].before)
      BY <1>2, <1>6, <1>13 DEF Traced
    <3>2. Remembered(T) \/ T = tree
      BY <1>11
    <3> QED
      BY <3>1, <3>2 DEF Traced
  <2> QED
    BY <2>1, <2>2
<1>14. Recorded'
  BY <1>2 DEF RealInv, Recorded
<1> QED
  BY <1>5, <1>9, <1>10, <1>12, <1>13, <1>14 DEF RealInv

\* An edit brings a content that was never there, or takes a file away: what a run
\* has missed stays missed, and it remembers the new tree.  Or it is noted as one
\* that rewinds every run under way.
LEMMA Edits ==
  ASSUME RealInv, Edit
  PROVE  RealInv'
<1>1. PICK f \in Index, c \in 0..(edits + 2) :
        /\ tree' = [tree EXCEPT ![f] = c]
        /\ rewound' = IF c \in {Missing, edits + 2} THEN rewound ELSE {q \in Proc : pc[q] \in Running}
  BY DEF Edit, Index
<1>2. /\ edits' = edits + 1 /\ UNCHANGED <<evidence, pc, run, verified, doubtful>>
      /\ during' = [q \in Proc |-> IF pc[q] \in Running THEN during[q] \union {tree'} ELSE during[q]]
  BY DEF Edit
<1>3. edits \in Nat /\ tree \in Past /\ edits' \in Nat /\ edits + 2 = edits' + 1
  BY <1>2 DEF RealInv, Shaped
<1>4. tree' \in Past'
  BY <1>1, <1>2, <1>3 DEF Past
<1> DEFINE Onward(q) == pc[q] \in Running /\ q \notin rewound'
<1>5. Past \subseteq Past' /\ Past' \subseteq [Index -> Nat]
  BY <1>2, <1>3 DEF Past
<1>6. Shaped'
  BY <1>2, <1>3, <1>4, <1>5 DEF RealInv, Shaped
<1>7. ASSUME NEW q \in Proc, Onward(q)
      PROVE  q \notin rewound /\ \A i \in Index : tree'[i] \in {tree[i], Missing, edits + 2}
  BY <1>1, <1>3, <1>7 DEF Past
<1>8. ASSUME NEW q \in Proc, Onward(q),
             NEW i \in Index, NEW T, NEW print \in Seq(Nat), T[i] \in 1..(edits + 1),
             MissedAt(i, T, tree, print)
      PROVE  MissedAt(i, T, tree', print)
  BY <1>3, <1>7, <1>8, MissedChange
<1>9. Recorded'
  <2>1. [Index -> 1..(edits + 1)] \subseteq [Index -> 1..(edits' + 1)]
    BY <1>2, <1>3
  <2> QED
    BY <1>2, <2>1 DEF RealInv, Recorded
<1>10. ASSUME NEW T \in [Index -> Nat \ {Missing}], Remembered(T)
       PROVE  T \in [Index -> 1..(edits + 1)]
  <2>1. T \in Past \/ T \in [Index -> 1..(edits + 1)]
    BY <1>10 DEF Remembered, RealInv, Placed, Recorded
  <2> QED
    BY <1>3, <1>10, <2>1 DEF Past, Missing
<1>11. \A T : Remembered(T)' => Remembered(T) \/ T = tree'
  BY <1>2 DEF Remembered
<1>12. ASSUME NEW q \in Proc PROVE Placed(q)' /\ Compared(q)' /\ (pc'[q] \in Running => Traced(q)')
  <2>1. /\ Placed(q) /\ Compared(q)
        /\ run[q].before \in Seq(Nat) /\ run[q].built \in Seq(Nat) /\ run[q].after \in Seq(Nat)
    BY DEF RealInv, Shaped
  <2>2. during[q] \subseteq during'[q] /\ during'[q] \subseteq during[q] \union {tree'}
        /\ (pc[q] \in Running => tree' \in during'[q])
    BY <1>2
  <2>3. Placed(q)'
    <3>1. \A i \in 1..Len(run[q].before) : run[q].before[i] \in 1..(edits' + 1)
      BY <1>2, <1>3, <2>1 DEF Placed
    <3>2. during'[q] \subseteq Past'
      BY <1>4, <1>5, <2>1, <2>2 DEF Placed
    <3> QED
      BY <1>2, <2>1, <2>2, <3>1, <3>2 DEF Placed, Whole
  <2>4. Compared(q)'
    <3> SUFFICES ASSUME Onward(q), Whole(run[q].before)
                 PROVE  /\ \/ run[q].before \in during'[q]
                           \/ Missed(run[q].before, tree', run[q].after)
                        /\ \A i \in 1..Len(run[q].built) : run[q].built[i] # run[q].before[i] =>
                             MissedAt(i, run[q].before, tree', run[q].after)
      BY <1>2 DEF Compared, Whole
    <3>1. \A i \in Index : run[q].before[i] \in 1..(edits + 1)
      BY <2>1 DEF Placed, Whole, Index
    <3>2. \A i \in Index : MissedAt(i, run[q].before, tree, run[q].after)
                             => MissedAt(i, run[q].before, tree', run[q].after)
      BY <1>8, <2>1, <3>1
    <3>4. q \notin rewound
      BY <1>7
    <3>3. \A i \in 1..Len(run[q].built) : i \in Index
      <4>1. Len(run[q].built) \in Nat /\ Len(run[q].built) <= FileCount
        BY <2>1, LenProperties DEF Placed
      <4> QED
        BY <4>1, CountAssumption DEF Index
    <3> QED
      BY <2>1, <2>2, <3>2, <3>3, <3>4 DEF Compared, Missed
  <2>5. ASSUME pc'[q] \in Running PROVE Traced(q)'
    <3> SUFFICES ASSUME NEW T \in [Index -> Nat \ {Missing}], Onward(q), Remembered(T)'
                 PROVE  T \in during'[q] \/ Missed(T, tree', run[q].before)
      BY <1>2, <2>5 DEF Traced
    <3>1. CASE T = tree'
      BY <1>2, <2>2, <2>5, <3>1
    <3>2. CASE Remembered(T)
      <4>1. T \in during[q] \/ Missed(T, tree, run[q].before)
        BY <1>2, <1>7, <2>5, <3>2 DEF RealInv, Traced
      <4>2. \A i \in Index : T[i] \in 1..(edits + 1)
        BY <1>10, <3>2
      <4> QED
        BY <1>8, <2>1, <2>2, <4>1, <4>2 DEF Missed
    <3> QED
      BY <1>11, <3>1, <3>2
  <2> QED
    BY <2>3, <2>4, <2>5
<1> QED
  BY <1>6, <1>9, <1>12 DEF RealInv

\* Every step of a run keeps the invariant.
LEMMA RunStep ==
  ASSUME RealInv, NEW p \in Proc, Step(p) \/ Killed(p)
  PROVE  RealInv'
<1> USE DEF Running, Ended, Locked, Fresh, history
<1>1. CASE ReadBefore(p) \/ ReadAfter(p) \/ EngineReads(p) \/ EnginePasses(p) \/ PreflightUnchanged(p) \/ Passes(p)
  BY <1>1, ReadsBefore, ReadsAfter, EngineStep, EngineDone, PreflightDone, PassRecorded
<1>2. CASE ScopeMissing(p) \/ Reuse(p) \/ Killed(p)
  BY <1>2, EndsWithoutPass DEF ScopeMissing, Reuse, Killed
<1>3. CASE PreflightFails(p) \/ ScopeVanished(p) \/ ScopeChanged(p) \/ FailsUnchanged(p)
  BY <1>3, EndsWithoutPass DEF PreflightFails, ScopeVanished, ScopeChanged, FailsUnchanged, EndFailed
<1>4. CASE FingerprintDone(p) \/ LockEvidence(p) \/ GoFresh(p)
  BY <1>4, MovesOn DEF FingerprintDone, LockEvidence, GoFresh
<1>5. CASE RemoveEvidence(p) \/ PreflightPasses(p) \/ EngineFails(p)
  BY <1>5, MovesOn DEF RemoveEvidence, GoVerify, PreflightPasses, EngineFails
<1> QED
  BY <1>1, <1>2, <1>3, <1>4, <1>5 DEF Step

\* The invariant holds before the first run.
LEMMA RealInit == Init => RealInv
<1> SUFFICES ASSUME Init PROVE RealInv
  OBVIOUS
<1>1. <<>> \in Seq(Nat) /\ Len(<<>>) = 0
  BY EmptySeq
<1>2. NoRun \in [reuse: BOOLEAN, before: Seq(Nat), built: Seq(Nat), after: Seq(Nat), ok: BOOLEAN]
  BY <1>1 DEF NoRun
<1>3. Shaped
  BY <1>2 DEF Init, Shaped, Past, Index, Ended
<1>4. Recorded
  BY DEF Init, Recorded, NoEvidence
<1>5. ASSUME NEW p \in Proc PROVE Placed(p) /\ Compared(p) /\ pc[p] \notin Running
  <2>1. /\ pc[p] = "idle" /\ run[p] = NoRun /\ during[p] = {} /\ "idle" \notin Running
    BY DEF Init, Running, Locked, Fresh
  <2> QED
    BY <1>1, <2>1, CountAssumption DEF Placed, Compared, NoRun
<1> QED
  BY <1>3, <1>4, <1>5 DEF RealInv

\* A PASS, fresh or reused, is about a tree that an engine has read as a whole and
\* passed, and that was there at some moment of the very run that reports it, for
\* any number of runs, edits and files.  Excused are a run during which an edit
\* brought a content back, and who reuses what such a run recorded.
THEOREM PassIsEarned == Spec => PassIsReal
<1>1. RealInv /\ [Next]_vars => RealInv'
  <2>1. RealInv /\ UNCHANGED vars => RealInv'
    <3> SUFFICES ASSUME RealInv, UNCHANGED vars PROVE RealInv'
      OBVIOUS
    <3>1. UNCHANGED <<tree, evidence, pc, run, edits, verified, during, rewound, doubtful>>
      BY DEF vars, history
    <3>2. ASSUME NEW q \in Proc PROVE Placed(q)' /\ Compared(q)' /\ (pc'[q] \in Running => Traced(q)')
      <4>1. \A T : Remembered(T)' => Remembered(T)
        BY <3>1 DEF Remembered
      <4> QED
        BY <3>1, <4>1, Elsewhere, TracedKeeps DEF RealInv
    <3>3. Shaped' /\ Recorded'
      BY <3>1 DEF RealInv, Shaped, Recorded, Past
    <3> QED
      BY <3>2, <3>3 DEF RealInv
  <2> QED
    BY <2>1, Begins, Edits, RunStep DEF Next
<1>2. RealInv /\ [Next]_vars =>
        [\A p \in Proc :
           /\ Reports(p, "passed") \/ (Reports(p, "reused") /\ ~doubtful)
           /\ p \notin rewound
           => run[p].before \in verified \intersect during[p]]_vars
  <2> SUFFICES ASSUME RealInv, Next, NEW p \in Proc, p \notin rewound,
                      Reports(p, "passed") \/ (Reports(p, "reused") /\ ~doubtful)
               PROVE  run[p].before \in verified \intersect during[p]
    BY DEF vars
  <2>1. Passes(p) \/ Reuse(p)
    <3> USE DEF Reports, RealInv, Shaped, Goto, Exit, EndFailed, GoVerify, Running, Ended, Locked, Fresh, history
    <3>1. ~Edit /\ \A q \in Proc : ~Begin(q)
      BY DEF Edit, Begin
    <3>2. PICK q \in Proc : Step(q) \/ Killed(q)
      BY <3>1 DEF Next
    <3>3. ~(ReadBefore(q) \/ ScopeMissing(q) \/ FingerprintDone(q) \/ LockEvidence(q) \/ GoFresh(q) \/ RemoveEvidence(q))
      BY DEF ReadBefore, ScopeMissing, FingerprintDone, LockEvidence, GoFresh, RemoveEvidence
    <3>4. ~(PreflightPasses(q) \/ PreflightFails(q) \/ PreflightUnchanged(q) \/ ReadAfter(q) \/ ScopeVanished(q))
      BY DEF PreflightPasses, PreflightFails, PreflightUnchanged, ReadAfter, ScopeVanished
    <3>5. ~(ScopeChanged(q) \/ EngineReads(q) \/ EnginePasses(q) \/ EngineFails(q))
      BY DEF ScopeChanged, EngineReads, EnginePasses, EngineFails
    <3>6. ~(FailsUnchanged(q) \/ Killed(q))
      BY DEF FailsUnchanged, Killed
    <3>7. Passes(q) \/ Reuse(q)
      BY <3>2, <3>3, <3>4, <3>5, <3>6 DEF Step
    <3>8. q = p
      BY <3>7 DEF Passes, Reuse
    <3> QED
      BY <3>7, <3>8
  <2>2. Reuse(p) => ~doubtful
    BY DEF Reuse, Exit, Goto, Reports, RealInv, Shaped, Running, Ended, Locked, Fresh
  <2> QED
    BY <2>1, <2>2, PassRecorded, PassReused
<1> QED
  BY <1>1, <1>2, RealInit, PTL DEF Spec, PassIsReal
=============================================================================
