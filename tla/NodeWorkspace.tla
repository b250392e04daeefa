----------------------------- MODULE NodeWorkspace -----------------------------
(***************************************************************************)
(* The isolated Node workspace of one package: its copy of the source, the *)
(* node_modules restored in it and the marker that says what they were     *)
(* restored for, dev-node-dependencies/scripts/.                           *)
(*                                                                         *)
(* A session runs the dependency preflight and then what it asks for: it   *)
(* adds packages once Tirith allows it, or restores the modules and marks  *)
(* them (node_dependency_preflight.py, tirith_package_preflight.py,        *)
(* `pnpm install`, node_workspace.py --mark-restored).  Or it decides the  *)
(* builds of dependencies (pnpm_build_policy.py), or verifies              *)
(* (node_runtime.py), or only renews the copy (node_workspace.py).  Only   *)
(* verifications take the lock of the workspace.                           *)
(* What is abstracted: a file is an id with what the gates see of it; a    *)
(* fingerprint is the three files it digests.  A gate, a fingerprint and a *)
(* mark read their files in one step; a copy is taken file by file, and    *)
(* modules are removed in two steps, with all that is half removed between.*)
(***************************************************************************)
EXTENDS Integers

CONSTANTS
  Session,    \* the sessions that use the package
  NoSession,  \* the owner of a free lock
  Rank,       \* the order in which the directory of the source lists the files
  MaxEdits    \* bound: changes of the source that bring something new

ASSUME SessionAssumption == NoSession \notin Session
ASSUME EditAssumption == MaxEdits \in Nat

VARIABLES
  source,    \* package.json, pnpm-lock.yaml and pnpm-workspace.yaml of the project
  isolated,  \* their copies in the isolated package root
  modules,   \* node_modules of the isolated package root
  marker,    \* the dependency fingerprint file
  lock,      \* who holds the lock of the workspace
  pc,        \* where each session is
  job,       \* the local variables of each session
  edits,     \* new contents so far
  astray     \* history: what has happened since the marker was written

vars == <<source, isolated, modules, marker, lock, pc, job, edits, astray>>

-----------------------------------------------------------------------------
File == {"manifest", "lockfile", "policy"}
ASSUME RankAssumption == Rank \in [File -> Int]

Kinds == [manifest |-> {"dependent", "plain", "undeclared"},
          lockfile |-> {"present", "missing"},
          policy   |-> {"reviewed", "pending", "unsafe"}]
Usual == [manifest |-> "dependent", lockfile |-> "present", policy |-> "reviewed"]

Content(f) == [id: 0..MaxEdits, kind: Kinds[f]]
Initial(f) == [id |-> 0, kind |-> Usual[f]]
Package == {t \in [File -> UNION {Content(f) : f \in File}] : \A f \in File : t[f] \in Content(f)}

\* The toolchain is declared: devEngines of Node and pnpm.
DeclaresToolchain(package) == package["manifest"].kind # "undeclared"
RequiresModules(package)   == package["manifest"].kind # "plain"
LockfilePresent(package)   == package["lockfile"].kind = "present"
BuildsReviewed(package)    == package["policy"].kind = "reviewed"

NoModules == [state |-> "absent"]
Partial   == [state |-> "partial"]  \* half written, half removed, or written by two
Whole(of) == [state |-> "whole", of |-> of]
NoPrint == [f \in File |-> [id |-> -1, kind |-> "none"]]

\* What can come between a marker and what it vouches for: its modules are removed or
\* broken, the source goes back to an earlier content, two sessions write at once.
Mishaps == {"lost", "back", "crossed"}

NoJob == [op |-> "none", left |-> {}, lockfile |-> FALSE, plan |-> 0,
          ready |-> FALSE, edited |-> FALSE, crossed |-> FALSE]
Ops   == {"preflight", "decide", "verify", "sync"}
Where == {"idle", "gate", "lock", "copy", "drop", "dropping", "judge", "start", "run",
          "scan", "add", "decide", "restore", "install", "mark"}

\* Every value the directories, the marker and a session's variables can have.
TypeOK ==
  /\ source \in Package /\ isolated \in Package
  /\ modules \in {NoModules, Partial} \union [state: {"whole"}, of: Package]
  /\ marker \in Package \union {NoPrint}
  /\ lock \in Session \union {NoSession}
  /\ pc \in [Session -> Where]
  /\ job \in [Session -> [op: Ops \union {"none"}, left: SUBSET File, lockfile: BOOLEAN,
                          plan: 0..MaxEdits, ready: BOOLEAN, edited: BOOLEAN,
                          crossed: BOOLEAN]]
  /\ edits \in 0..MaxEdits /\ astray \in SUBSET Mishaps

Init ==
  /\ source = [f \in File |-> Initial(f)] /\ isolated = source
  /\ modules = NoModules /\ marker = NoPrint /\ lock = NoSession
  /\ pc = [s \in Session |-> "idle"] /\ job = [s \in Session |-> NoJob]
  /\ edits = 0 /\ astray = {}

Goto(s, where) == pc' = [pc EXCEPT ![s] = where]

\* The session ends; a lock goes with the process that holds it.
End(s) ==
  /\ Goto(s, "idle")
  /\ job' = [job EXCEPT ![s] = NoJob]
  /\ lock' = IF lock = s THEN NoSession ELSE lock

-----------------------------------------------------------------------------
(* The gates, on the source and before any lock *)

Begin(s, op) ==
  /\ pc[s] = "idle"
  /\ Goto(s, IF op = "sync" THEN "copy" ELSE "gate")
  /\ job' = [job EXCEPT ![s].op = op, ![s].left = IF op = "sync" THEN File ELSE {}]
  /\ UNCHANGED <<source, isolated, modules, marker, lock, edits, astray>>

\* The preflight misses the lockfile later, when a restore is due.
GateAccepts(op) ==
  /\ DeclaresToolchain(source) /\ BuildsReviewed(source)
  /\ op = "verify" => LockfilePresent(source)

PassGate(s) ==
  /\ pc[s] = "gate" /\ job[s].op # "decide" /\ GateAccepts(job[s].op)
  /\ Goto(s, IF job[s].op = "verify" THEN "lock" ELSE "copy")
  /\ job' = [job EXCEPT ![s].left = File,
                     ![s].lockfile = job[s].op = "preflight" /\ LockfilePresent(source)]
  /\ UNCHANGED <<source, isolated, modules, marker, lock, edits, astray>>

\* A gate blocks: for what it reads there, for a legacy lockfile, a pnpm that cannot
\* be asked or a command that is not allowed.
Blocked(s) ==
  /\ pc[s] = "gate" /\ job[s].op # "decide"
  /\ End(s)
  /\ UNCHANGED <<source, isolated, modules, marker, edits, astray>>

LockWorkspaceMutant(s) ==  \* mutant: LOCK_SH instead of LOCK_EX
  /\ pc[s] = "lock"
  /\ lock' = s
  /\ Goto(s, "copy")
  /\ UNCHANGED <<source, isolated, modules, marker, job, edits, astray>>

LockWorkspace(s) ==
  /\ pc[s] = "lock" /\ lock = NoSession
  /\ lock' = s
  /\ Goto(s, "copy")
  /\ UNCHANGED <<source, isolated, modules, marker, job, edits, astray>>

LockTimesOut(s) ==
  /\ pc[s] = "lock" /\ lock # NoSession
  /\ End(s)
  /\ UNCHANGED <<source, isolated, modules, marker, edits, astray>>

-----------------------------------------------------------------------------
(* prepare_isolated_package *)

\* The copy or the modules change under an install, under what waits for its mark, or
\* under a command that is about to start.
Exposed(q) == \/ pc[q] \in {"install", "mark", "start"}
              \/ pc[q] = "judge" /\ job[q].op = "verify"

Crossing(s, jobs, disturbs) ==
  [q \in Session |-> IF disturbs /\ q # s /\ Exposed(q)
                     THEN [jobs[q] EXCEPT !.crossed = TRUE] ELSE jobs[q]]

CopyFile(s, f) ==
  /\ pc[s] = "copy" /\ f \in job[s].left
  /\ \A g \in job[s].left : Rank[f] <= Rank[g]
  /\ isolated' = [isolated EXCEPT ![f] = source[f]]
  /\ job' = Crossing(s, [job EXCEPT ![s].left = @ \ {f}], isolated' # isolated)
  /\ UNCHANGED <<source, modules, marker, lock, pc, edits, astray>>

HaveModules(package) == modules # NoModules \/ ~RequiresModules(package)

Ready == marker = isolated /\ HaveModules(isolated)

\* dependency_state: modules that are not ready are to be removed.
Assess(s) ==
  /\ pc[s] = "copy" /\ job[s].left = {}
  /\ job' = [job EXCEPT ![s].ready = Ready]
  /\ Goto(s, IF modules # NoModules /\ ~Ready THEN "drop" ELSE "judge")
  /\ UNCHANGED <<source, isolated, modules, marker, lock, edits, astray>>

\* Once the modules are crossed nothing else matters until they are marked again.
Mishap(m) == IF m = "crossed" \/ "crossed" \in astray THEN {"crossed"} ELSE astray \union {m}

\* The marker stays, and will vouch for whatever is there when its fingerprint comes
\* back; or the modules were marked after they had been looked at.
Removes(s, rest) ==
  /\ modules' = IF modules = NoModules THEN NoModules ELSE rest
  /\ astray' = IF modules = NoModules \/ marker = NoPrint THEN astray
               ELSE Mishap(IF marker = isolated THEN "crossed" ELSE "lost")
  /\ job' = Crossing(s, job, modules # NoModules)
  /\ UNCHANGED <<source, isolated, marker, lock, edits>>

RemoveSome(s) ==
  /\ pc[s] = "drop"
  /\ Removes(s, Partial)
  /\ Goto(s, "dropping")

RemoveRest(s) ==
  /\ pc[s] = "dropping"
  /\ Removes(s, NoModules)
  /\ Goto(s, "judge")

\* STATUS=pass with nothing to restore, or the lockfile was missing.
PreflightEnds(s) ==
  /\ pc[s] = "judge" /\ job[s].op = "preflight"
  /\ job[s].ready \/ ~job[s].lockfile
  /\ End(s)
  /\ UNCHANGED <<source, isolated, modules, marker, edits, astray>>

\* A package that is asked for is in no section of the manifest: it is added
\* before anything is restored.
AskForInstall(s) ==
  /\ pc[s] = "judge" /\ job[s].op = "preflight"
  /\ Goto(s, "scan")
  /\ job' = [job EXCEPT ![s].ready = FALSE, ![s].lockfile = FALSE]
  /\ UNCHANGED <<source, isolated, modules, marker, lock, edits, astray>>

AskForRestore(s) ==
  /\ pc[s] = "judge" /\ job[s].op = "preflight"
  /\ ~job[s].ready /\ job[s].lockfile
  /\ Goto(s, "restore")
  /\ job' = [job EXCEPT ![s].lockfile = FALSE]
  /\ UNCHANGED <<source, isolated, modules, marker, lock, edits, astray>>

SyncEnds(s) ==
  /\ pc[s] = "judge" /\ job[s].op = "sync"
  /\ End(s)
  /\ UNCHANGED <<source, isolated, modules, marker, edits, astray>>

\* The toolchain is resolved again, from the copy.
MayRunMutant(s) == job[s].ready  \* mutant: resolve_project_toolchain is not called again
MayRun(s) == job[s].ready /\ DeclaresToolchain(isolated)

Refuse(s) ==
  /\ pc[s] = "judge" /\ job[s].op = "verify" /\ ~MayRun(s)
  /\ End(s)
  /\ UNCHANGED <<source, isolated, modules, marker, edits, astray>>

Allow(s) ==
  /\ pc[s] = "judge" /\ job[s].op = "verify" /\ MayRun(s)
  /\ Goto(s, "start")
  /\ UNCHANGED <<source, isolated, modules, marker, lock, job, edits, astray>>

RunCommand(s) ==
  /\ pc[s] = "start"
  /\ Goto(s, "run")
  /\ job' = [job EXCEPT ![s] = [NoJob EXCEPT !.op = "verify"]]
  /\ UNCHANGED <<source, isolated, modules, marker, lock, edits, astray>>

-----------------------------------------------------------------------------
(* Packages to add and builds to decide *)

\* A step of a session that touches its own variables alone.
Looks == UNCHANGED <<source, isolated, modules, marker, edits, astray>>

\* Tirith allows the command, cannot be asked, or could not complete its analysis:
\* then its daemon has to run, and only a second verdict that allows it will do.
Verdicts == {"allow", "unavailable", "incomplete", "finding"}

ScanAllows(first, daemon, second) ==
  \/ first \in {"allow", "unavailable"}
  \/ first = "incomplete" /\ daemon /\ second = "allow"

Scan(s) ==
  /\ pc[s] = "scan"
  /\ \E first, second \in Verdicts, daemon \in BOOLEAN :
       IF ScanAllows(first, daemon, second)
       THEN Goto(s, "add") /\ UNCHANGED <<lock, job>>
       ELSE End(s)
  /\ Looks

\* The source has been written: a verification that has passed its gate and not yet
\* taken its copy did not look at that.  Some writes bring an earlier content back.
Unseen(jobs, back) ==
  /\ astray' = IF back /\ marker # NoPrint THEN Mishap("back") ELSE astray
  /\ job' = [s \in Session |-> IF job[s].op = "verify" /\ pc[s] \in {"lock", "copy"}
                               THEN [jobs[s] EXCEPT !.edited = TRUE] ELSE jobs[s]]
  /\ UNCHANGED <<isolated, modules, marker, lock>>

\* `pnpm add --lockfile-only` in the project: two files, taken as one write.  The
\* preflight is then run anew.
AddPackage(s) ==
  /\ pc[s] = "add"
  /\ edits < MaxEdits /\ edits' = edits + 1
  /\ source' = [source EXCEPT
       !["manifest"] = [id |-> edits', kind |-> IF DeclaresToolchain(source) THEN "dependent"
                                                                          ELSE "undeclared"],
       !["lockfile"] = [id |-> edits', kind |-> "present"]]
  /\ Unseen([job EXCEPT ![s] = NoJob], FALSE)
  /\ Goto(s, "idle")

\* --approve and --deny: the decisions join the entries there are at this moment.
\* An unsafe policy is refused here, too.
PlanBuilds(s) ==
  /\ pc[s] = "gate" /\ job[s].op = "decide"
  /\ source["policy"].kind # "unsafe"
  /\ job' = [job EXCEPT ![s].plan = source["policy"].id]
  /\ Goto(s, "decide")
  /\ UNCHANGED lock /\ Looks

BuildsRefused(s) ==
  /\ pc[s] = "gate" /\ job[s].op = "decide"
  /\ source["policy"].kind = "unsafe"
  /\ End(s) /\ Looks

\* `pnpm config set` writes them all, whatever the policy has become meanwhile.
DecideBuilds(s) ==
  /\ pc[s] = "decide"
  /\ source' = [source EXCEPT !["policy"] = [id |-> job[s].plan, kind |-> "reviewed"]]
  /\ Unseen([job EXCEPT ![s] = NoJob], job[s].plan # source["policy"].id)
  /\ Goto(s, "idle")
  /\ UNCHANGED edits

-----------------------------------------------------------------------------
(* The restore and its mark *)

\* `pnpm install --frozen-lockfile` in the isolated root.  The preflight left no
\* modules there: any that are there now come from another session.
StartInstall(s) ==
  /\ pc[s] = "restore"
  /\ LET alone == modules = NoModules /\ \A q \in Session : pc[q] # "install"
     IN  /\ job' = Crossing(s, [job EXCEPT ![s].crossed = ~alone], TRUE)
         /\ astray' = IF alone THEN astray ELSE Mishap("crossed")
  /\ modules' = Partial
  /\ Goto(s, "install")
  /\ UNCHANGED <<source, isolated, marker, lock, edits>>

\* What two sessions have written at once may lack anything.
InstallSucceeds(s) ==
  /\ pc[s] = "install"
  /\ modules' = IF job[s].crossed THEN Partial ELSE Whole(isolated)
  /\ Goto(s, "mark")
  /\ UNCHANGED <<source, isolated, marker, lock, job, edits, astray>>

MarkRestoredMutant(s) ==  \* mutant: the source is not compared with the copy
  /\ pc[s] = "mark"
  /\ HaveModules(source)
  /\ marker' = source /\ astray' = IF job[s].crossed THEN {"crossed"} ELSE {}
  /\ End(s)
  /\ UNCHANGED <<source, isolated, modules, edits>>

MarkRestored(s) ==
  /\ pc[s] = "mark"
  /\ source = isolated /\ HaveModules(source)
  /\ marker' = source /\ astray' = IF job[s].crossed THEN {"crossed"} ELSE {}
  /\ End(s)
  /\ UNCHANGED <<source, isolated, modules, edits>>

MarkRefused(s) ==
  /\ pc[s] = "mark"
  /\ source # isolated \/ ~HaveModules(source)
  /\ End(s)
  /\ UNCHANGED <<source, isolated, modules, marker, edits, astray>>

-----------------------------------------------------------------------------
(* The command, its end and the end of a session at any point *)

CommandEnds(s) ==
  /\ pc[s] = "run"
  /\ End(s)
  /\ UNCHANGED <<source, isolated, modules, marker, edits, astray>>

CommandTimesOutMutant(s) ==  \* mutant: run_inherit gets no timeout
  /\ FALSE
  /\ End(s)
  /\ UNCHANGED <<source, isolated, modules, marker, edits, astray>>

\* run_inherit terminates the process group; the lock is released after it.
CommandTimesOut(s) ==
  /\ pc[s] = "run"
  /\ End(s)
  /\ UNCHANGED <<source, isolated, modules, marker, edits, astray>>

\* A kill, a declined or failed restore: what is on disk stays as it is.  A command
\* whose runtime is killed may go on by itself; nothing below is about it.
Abandon(s) ==
  /\ pc[s] # "idle"
  /\ End(s)
  /\ UNCHANGED <<source, isolated, modules, marker, edits, astray>>

\* A user changes one file of the project, ...
Edit(f) ==
  /\ edits < MaxEdits /\ edits' = edits + 1
  /\ \E k \in Kinds[f] :
       source' = [source EXCEPT ![f] = [id |-> edits', kind |-> k]]
  /\ Unseen(job, FALSE)
  /\ UNCHANGED pc

\* ... or git takes all the changes back.
Revert ==
  /\ \E f \in File : source[f] # Initial(f)
  /\ source' = [f \in File |-> Initial(f)]
  /\ Unseen(job, TRUE)
  /\ UNCHANGED <<edits, pc>>

-----------------------------------------------------------------------------
SessionStep(s) ==
  \/ PassGate(s) \/ Blocked(s) \/ LockWorkspace(s) \/ LockTimesOut(s)
  \/ \E f \in File : CopyFile(s, f)
  \/ Assess(s) \/ RemoveSome(s) \/ RemoveRest(s)
  \/ PreflightEnds(s) \/ AskForInstall(s) \/ AskForRestore(s) \/ SyncEnds(s)
  \/ Refuse(s) \/ Allow(s) \/ RunCommand(s)
  \/ Scan(s) \/ PlanBuilds(s) \/ BuildsRefused(s)
  \/ MarkRestored(s) \/ MarkRefused(s) \/ CommandTimesOut(s)

Next ==
  \/ \E s \in Session :
       \/ \E op \in Ops : Begin(s, op)
       \/ SessionStep(s) \/ AddPackage(s) \/ DecideBuilds(s)
       \/ StartInstall(s) \/ InstallSucceeds(s)
       \/ CommandEnds(s) \/ Abandon(s)
  \/ \E f \in File : Edit(f)
  \/ Revert

Spec == Init /\ [][Next]_vars

\* A helper's own steps and its timeouts come; pnpm, the agent and users are free.
FairSpec == Spec /\ \A s \in Session : WF_vars(SessionStep(s))

-----------------------------------------------------------------------------
(* Properties *)

\* Dependencies that dependency_state or isolated_workspace_ready would call ready
\* are a complete restore of the very files beside them, whatever failed, was
\* killed half way or was edited before.  Excused are modules that two sessions
\* wrote, removed or marked at once, and a marker that lost its modules and then saw
\* the source go back: neither alone will do.
ReadyIsRestored ==
  Ready /\ RequiresModules(isolated) =>
    \/ modules = Whole(isolated)
    \/ "crossed" \in astray
    \/ {"lost", "back"} \subseteq astray

\* A command starts only on a ready copy that declares its toolchain, under a
\* lockfile and a build policy that pass the gate unless they were edited while the
\* runtime waited for the lock or copied, since the gate itself reads the source.
\* Excused is a copy that a session without the lock changed after the last look.
RunsAsGated ==
  [][\A s \in Session : pc[s] # "run" /\ pc'[s] = "run" /\ ~job[s].crossed =>
       /\ Ready /\ DeclaresToolchain(isolated)
       /\ job[s].edited \/ (LockfilePresent(isolated) /\ BuildsReviewed(isolated))]_vars

\* From the last look at the copy to the end of the command only a session that takes
\* no lock, a preflight or a plain sync, ever changes the copy or the modules:
\* verifications leave each other alone.
RunIsUndisturbed ==
  [][\A s \in Session :
       /\ job[s].op = "verify" /\ pc[s] \in {"judge", "start", "run"}
       /\ <<isolated, modules>>' # <<isolated, modules>>
       => \E q \in Session : /\ job[q].op \in {"preflight", "sync"}
                             /\ <<pc[q], job[q]>>' # <<pc[q], job[q]>>]_vars

\* Every verification ends, whatever its command does and whoever holds the lock.
EveryCommandEnds ==
  \A s \in Session : job[s].op = "verify" ~> pc[s] = "idle"
=============================================================================
