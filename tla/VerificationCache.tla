-------------------------- MODULE VerificationCache --------------------------
(***************************************************************************)
(* Reuse of PASS evidence by the cached verification runners,              *)
(* scripts/verification/gradle_verification_cached.py,                     *)
(* scripts/verification/maven_verification_cached.py and                   *)
(* dev-node-dependencies/scripts/node_verification_cached.py.              *)
(*                                                                         *)
(* All invocations here make the same request, hence share one evidence    *)
(* file.  A run fingerprints the scope, reuses a matching PASS or removes  *)
(* the evidence, runs the engine, fingerprints the scope again and records *)
(* a PASS only if nothing changed.  Fingerprints and builds read the files *)
(* one after the other while others may be writing them.                   *)
(* What is abstracted: a file is a number naming its content; a            *)
(* fingerprint is the sequence of contents it was computed from.           *)
(***************************************************************************)
EXTENDS Integers, Sequences

CONSTANTS
  Proc,       \* invocations that may run at the same time
  Tools,      \* the runners to consider, of "gradle", "maven" and "node"
  FileCount,  \* the files of the scope, in the order they are read
  NoProc,     \* the owner of a free lock
  MaxRuns,    \* bound: invocations in a behaviour
  MaxEdits    \* bound: edits of the scope in a behaviour

ASSUME ToolAssumption == Tools \subseteq {"gradle", "maven", "node"}
ASSUME CountAssumption == FileCount \in Nat \ {0} /\ MaxRuns \in Nat /\ MaxEdits \in Nat
ASSUME ProcAssumption == NoProc \notin Proc

VARIABLES
  tool,      \* the runner of the request, fixed
  tree,      \* the content of each file of the scope
  evidence,  \* the evidence file of the request
  lock,      \* Node: who holds the lock beside the evidence
  pc,        \* where each invocation is
  run,       \* the local variables of each invocation
  runs,      \* invocations so far
  edits,     \* edits so far
  verified,  \* history: the trees an engine has read and passed
  during,    \* history: the trees there were since each invocation began
  refuted,   \* history: a fresh run failed after the evidence was written
  overlapped, \* history: two runs have been under way at the same time
  rewound,   \* history: the runs during which an edit brought a content back
  doubtful   \* history: the evidence was recorded by such a run

history == <<verified, during, refuted, overlapped, rewound, doubtful>>
vars    == <<tool, tree, evidence, lock, pc, run, runs, edits, history>>

-----------------------------------------------------------------------------
Missing == 0                    \* the content of a file that is not there
Content == 0..(MaxEdits + 1)
Prints  == UNION {[1..n -> Content] : n \in 0..FileCount}
Tree    == [1..FileCount -> Content]

NoEvidence == [status |-> "none"]
Pass(scope, eligible) == [status |-> "PASS", scope |-> scope, eligible |-> eligible]
Evidence == {NoEvidence} \union [status: {"PASS"}, scope: Tree, eligible: BOOLEAN]

Fresh   == {"preflight", "recheck", "engine", "after"}
Locked  == {"decide", "remove"} \union Fresh
Running == {"fingerprint", "lock"} \union Locked
Ended   == {"idle", "reused", "passed", "failed"}  \* the verdict, if one was given

Run == [reuse: BOOLEAN, before: Prints, built: Prints, after: Prints, ok: BOOLEAN]

\* The values the code's variables range over: evidence is none or one PASS
\* over the whole scope with its eligibility, never a partial record.
TypeOK ==
  /\ tool \in Tools
  /\ tree \in Tree
  /\ evidence \in Evidence
  /\ lock \in Proc \union {NoProc}
  /\ pc \in [Proc -> Running \union Ended]
  /\ run \in [Proc -> Run]
  /\ runs \in 0..MaxRuns /\ edits \in 0..MaxEdits
  /\ verified \subseteq Tree
  /\ during \in [Proc -> SUBSET Tree]
  /\ refuted \in BOOLEAN /\ overlapped \in BOOLEAN
  /\ rewound \subseteq Proc /\ doubtful \in BOOLEAN

Goto(p, where) == pc' = [pc EXCEPT ![p] = where]

NoRun == [reuse |-> TRUE, before |-> <<>>, built |-> <<>>, after |-> <<>>, ok |-> FALSE]

\* The process ends, with its local variables and its lock.
Exit(p, verdict) ==
  /\ Goto(p, verdict)
  /\ lock' = IF lock = p THEN NoProc ELSE lock
  /\ run' = [run EXCEPT ![p] = NoRun]
  /\ during' = [during EXCEPT ![p] = {}]
  /\ rewound' = rewound \ {p}

-----------------------------------------------------------------------------
(* Fingerprint and reuse *)

Begin(p) ==
  /\ pc[p] \in Ended /\ runs < MaxRuns
  /\ Goto(p, "fingerprint")
  /\ runs' = runs + 1
  /\ \E r \in BOOLEAN : run' = [run EXCEPT ![p].reuse = r]
  /\ during' = [during EXCEPT ![p] = {tree}]
  /\ overlapped' = (overlapped \/ \E q \in Proc : pc[q] \in Running)
  /\ UNCHANGED <<tool, tree, evidence, lock, edits, verified, refuted, rewound, doubtful>>

\* scope_sha256 reads the files in sorted order, each as it then is.
Extended(print) == Append(print, tree[Len(print) + 1])
Whole(print) == Len(print) = FileCount
Unreadable(print) == ~Whole(print) /\ tree[Len(print) + 1] = Missing

ReadBefore(p) ==
  /\ pc[p] = "fingerprint" /\ ~Whole(run[p].before) /\ ~Unreadable(run[p].before)
  /\ run' = [run EXCEPT ![p].before = Extended(@)]
  /\ UNCHANGED <<tool, tree, evidence, lock, pc, runs, edits, history>>

\* The scope names a file that is not there: nothing is touched, no verdict.
ScopeMissing(p) ==
  /\ pc[p] = "fingerprint" /\ Unreadable(run[p].before)
  /\ Exit(p, "idle")
  /\ UNCHANGED <<tool, tree, evidence, runs, edits, verified, refuted, overlapped, doubtful>>

FingerprintDone(p) ==
  /\ pc[p] = "fingerprint" /\ Whole(run[p].before)
  /\ Goto(p, IF tool = "node" THEN "lock" ELSE "decide")
  /\ UNCHANGED <<tool, tree, evidence, lock, run, runs, edits, history>>

\* Only the Node runner serialises the runs of a request, after fingerprinting.
LockEvidence(p) ==
  /\ pc[p] = "lock" /\ lock = NoProc
  /\ lock' = p
  /\ Goto(p, "decide")
  /\ UNCHANGED <<tool, tree, evidence, run, runs, edits, history>>

Reusable(p) ==
  /\ run[p].reuse /\ evidence.status = "PASS"
  /\ evidence.scope = run[p].before
  /\ tool = "node" => evidence.eligible

Reuse(p) ==
  /\ pc[p] = "decide" /\ Reusable(p)
  /\ Exit(p, "reused")
  /\ UNCHANGED <<tool, tree, evidence, runs, edits, verified, refuted, overlapped, doubtful>>

\* An unreadable record is none; Node also wants its isolated workspace ready.
GoFresh(p) ==
  /\ pc[p] = "decide"
  /\ Goto(p, "remove")
  /\ UNCHANGED <<tool, tree, evidence, lock, run, runs, edits, history>>

\* Gradle compiles first, unless the scope has no Java or --skip-compile-preflight
\* is given, which is no part of the request.
GoVerify(p) ==
  \/ Goto(p, "engine")
  \/ tool = "gradle" /\ Goto(p, "preflight")

\* "A failed/blocked fresh run must never fall back to an older PASS."
RemoveEvidenceMutant(p) ==  \* mutant: remove_evidence is not called
  /\ pc[p] = "remove"
  /\ GoVerify(p)
  /\ UNCHANGED <<tool, tree, evidence, lock, run, runs, edits, history>>

RemoveEvidence(p) ==
  /\ pc[p] = "remove"
  /\ evidence' = NoEvidence /\ doubtful' = FALSE
  /\ GoVerify(p)
  /\ UNCHANGED <<tool, tree, lock, run, runs, edits, verified, during, refuted, overlapped, rewound>>

-----------------------------------------------------------------------------
(* The fresh run *)

\* Every way a fresh run ends without a PASS; Maven alone removes again.
EndFailed(p, removes) ==
  /\ Exit(p, "failed")
  /\ evidence' = IF removes THEN NoEvidence ELSE evidence
  /\ doubtful' = IF removes THEN FALSE ELSE doubtful
  /\ refuted' = TRUE
  /\ UNCHANGED <<tool, tree, runs, edits, verified, overlapped>>

PreflightPasses(p) ==
  /\ pc[p] = "preflight"
  /\ Goto(p, "recheck")
  /\ UNCHANGED <<tool, tree, evidence, lock, run, runs, edits, history>>

PreflightFails(p) == pc[p] = "preflight" /\ EndFailed(p, FALSE)

ReadAfter(p) ==
  /\ pc[p] \in {"recheck", "after"}
  /\ ~Whole(run[p].after) /\ ~Unreadable(run[p].after)
  /\ run' = [run EXCEPT ![p].after = Extended(@)]
  /\ UNCHANGED <<tool, tree, evidence, lock, pc, runs, edits, history>>

ScopeVanished(p) ==
  /\ pc[p] \in {"recheck", "after"} /\ Unreadable(run[p].after)
  /\ EndFailed(p, FALSE)

ScopeUnchangedMutant(p) == Whole(run[p].after)  \* mutant: no comparison
ScopeUnchanged(p) == run[p].after = run[p].before

PreflightUnchanged(p) ==
  /\ pc[p] = "recheck" /\ ScopeUnchanged(p)
  /\ run' = [run EXCEPT ![p].after = <<>>]
  /\ Goto(p, "engine")
  /\ UNCHANGED <<tool, tree, evidence, lock, runs, edits, history>>

\* SOURCE_CHANGED_DURING_VERIFICATION
ScopeChanged(p) ==
  /\ pc[p] \in {"recheck", "after"}
  /\ Whole(run[p].after) /\ ~ScopeUnchanged(p)
  /\ EndFailed(p, tool = "maven")

EngineReads(p) ==
  /\ pc[p] = "engine" /\ ~Whole(run[p].built)
  /\ run' = [run EXCEPT ![p].built = Extended(@)]
  /\ UNCHANGED <<tool, tree, evidence, lock, pc, runs, edits, history>>

EnginePasses(p) ==
  /\ pc[p] = "engine" /\ Whole(run[p].built)
  /\ run' = [run EXCEPT ![p].ok = TRUE]
  /\ verified' = verified \union {run[p].built}
  /\ Goto(p, "after")
  /\ UNCHANGED <<tool, tree, evidence, lock, runs, edits, during, refuted, overlapped, rewound, doubtful>>

\* A compile error, a failing test, a timeout, a blocked environment.
EngineFails(p) ==
  /\ pc[p] = "engine"
  /\ Goto(p, "after")
  /\ UNCHANGED <<tool, tree, evidence, lock, run, runs, edits, history>>

Passes(p) ==
  /\ pc[p] = "after" /\ ScopeUnchanged(p) /\ run[p].ok
  /\ evidence' = Pass(run[p].before, run[p].reuse)
  /\ refuted' = FALSE /\ doubtful' = (p \in rewound)
  /\ Exit(p, "passed")
  /\ UNCHANGED <<tool, tree, runs, edits, verified, overlapped>>

FailsUnchanged(p) ==
  /\ pc[p] = "after" /\ ScopeUnchanged(p) /\ ~run[p].ok
  /\ EndFailed(p, tool = "maven")

\* No verdict is given.
Killed(p) ==
  /\ pc[p] \in Running
  /\ Exit(p, "idle")
  /\ UNCHANGED <<tool, tree, evidence, runs, edits, verified, refuted, overlapped, doubtful>>

-----------------------------------------------------------------------------
\* An editor, a formatter or git writes or removes a file of the scope.  Content
\* edits + 2 is a new one, and a lower one is one that comes back.
Edit ==
  /\ edits < MaxEdits
  /\ edits' = edits + 1
  /\ \E f \in 1..FileCount, c \in 0..(edits + 2) :
       /\ tree[f] # c /\ tree' = [tree EXCEPT ![f] = c]
       /\ rewound' = IF c \in {Missing, edits + 2} THEN rewound
                     ELSE {p \in Proc : pc[p] \in Running}
  /\ during' = [p \in Proc |-> IF pc[p] \in Running THEN during[p] \union {tree'}
                                                    ELSE during[p]]
  /\ UNCHANGED <<tool, evidence, lock, pc, run, runs, verified, refuted, overlapped, doubtful>>

Step(p) ==
  \/ ReadBefore(p) \/ ScopeMissing(p) \/ FingerprintDone(p) \/ LockEvidence(p)
  \/ Reuse(p) \/ GoFresh(p) \/ RemoveEvidence(p)
  \/ PreflightPasses(p) \/ PreflightFails(p) \/ PreflightUnchanged(p)
  \/ ReadAfter(p) \/ ScopeVanished(p) \/ ScopeChanged(p)
  \/ EngineReads(p) \/ EnginePasses(p) \/ EngineFails(p)
  \/ Passes(p) \/ FailsUnchanged(p)

Next == Edit \/ \E p \in Proc : Begin(p) \/ Step(p) \/ Killed(p)

\* The evidence file is one per request, so that all its runs are of one runner.
Init ==
  /\ tool \in Tools
  /\ tree = [f \in 1..FileCount |-> 1]
  /\ evidence = NoEvidence
  /\ lock = NoProc
  /\ pc = [p \in Proc |-> "idle"]
  /\ run = [p \in Proc |-> NoRun]
  /\ runs = 0 /\ edits = 0
  /\ verified = {}
  /\ during = [p \in Proc |-> {}]
  /\ refuted = FALSE /\ overlapped = FALSE
  /\ rewound = {} /\ doubtful = FALSE

Spec == Init /\ [][Next]_vars

-----------------------------------------------------------------------------
(* Properties *)

Reports(p, verdict) == pc[p] # verdict /\ pc'[p] = verdict

\* A PASS, fresh or reused, is about a tree that an engine has read as a whole
\* and passed, and that was the tree of the workspace at some moment of the
\* very run that reports it, although the fingerprints are no snapshots.  The
\* code cannot see a content that comes back while a run is under way: excused
\* are that run, and who reuses what it recorded.
PassIsReal ==
  [][\A p \in Proc :
       /\ Reports(p, "passed") \/ (Reports(p, "reused") /\ ~doubtful)
       /\ p \notin rewound
       => run[p].before \in verified \intersect during[p]]_vars

\* A run that failed or was blocked takes back the PASS of every earlier run:
\* nobody reuses a PASS that is older than a failure, however the runs of the
\* Node runner overlap, and as long as those of Gradle and Maven do not.
NoFallback ==
  [][\A p \in Proc : Reports(p, "reused") /\ (overlapped => tool = "node") => ~refuted]_vars

\* The comment in the Gradle runner promises it without that condition: a
\* failed or blocked fresh run must never fall back to an older PASS.
NeverFallsBack == [][\A p \in Proc : Reports(p, "reused") => ~refuted]_vars
=============================================================================
