----------------------------- MODULE BuildLauncher -----------------------------
(***************************************************************************)
(* hermes-java (Gradle) and hermes-maven: the scripts every build of a     *)
(* workspace goes through.  A launch checks its settings, installs the     *)
(* distribution the wrapper asks for unless it is there, waits for the     *)
(* lock of the workspace and runs the build tool.                          *)
(*                                                                         *)
(* A launch is a tree of two processes: "shell", the script, which leads   *)
(* the process group, and "tool", the build tool (for Gradle together with *)
(* the flock that starts it).  A lock belongs to a launch for as long as   *)
(* one of its processes has the file open, and no longer.                  *)
(* What is abstracted: the distribution is one; temporary files are        *)
(* private to a launch; the tool is how long it runs and how it ends.      *)
(***************************************************************************)
EXTENDS Naturals

CONSTANTS
  Helpers,   \* the verification helpers, each with one launch at a time
  Directs    \* launches made without a helper

ASSUME DisjointAssumption == Helpers \intersect Directs = {}
ASSUME FreeAssumption == "free" \notin Helpers \union Directs

VARIABLES
  setting,   \* what is given: the tool, a valid toolchain, a pinned checksum, and
             \* who runs in the session, with its task id and session id
  archive,   \* the downloaded archive: "none", "good" or "bad"
  install,   \* the distribution's directory: "none", "partial" or "whole"
  dist,      \* the launch that has the lock of the distribution
  ws,        \* the launch that has the lock of the workspace
  guard,     \* the marker file that blocks the session
  at,        \* where each launch is in its script
  live,      \* its processes
  exit,      \* its exit status: "none", "ok", "failed", or "locked", which is a
             \* failure for all who see it: it gave up the lock of the workspace
  ran        \* history: whether its tool was started and has ended

cache    == <<archive, install>>
launches == <<at, live, exit, ran>>
lvars    == <<setting, cache, dist, ws, guard, launches>>

-----------------------------------------------------------------------------
Launches == Helpers \union Directs
Free     == "free"
Gradle   == setting.tool = "gradle"
InSession(l) == l \in setting.session

\* flock runs the tool of Gradle and hands it the lock; hermes-maven keeps the
\* lock itself, and its tool inherits it.
HoldersMutant == {"shell"}  \* mutant: the tool does not inherit the lock
Holders == IF Gradle THEN {"tool"} ELSE {"shell", "tool"}

LauncherInit ==
  /\ setting \in [tool : {"gradle", "maven"}, ready : BOOLEAN, checksum : BOOLEAN,
                 session : SUBSET Launches]
  /\ archive \in {"none", "good", "bad"} /\ install \in {"none", "partial", "whole"}
  /\ dist = Free /\ ws = Free /\ guard = FALSE
  /\ at = [l \in Launches |-> "off"] /\ live = [l \in Launches |-> {}]
  /\ exit = [l \in Launches |-> "none"] /\ ran = [l \in Launches |-> FALSE]

LauncherTypeOK ==
  /\ dist \in Launches \union {Free} /\ ws \in Launches \union {Free}
  /\ \A l \in Launches : live[l] \subseteq {"shell", "tool"}
  /\ (dist # Free => "shell" \in live[dist])
  /\ (ws # Free => live[ws] \intersect Holders # {})

-----------------------------------------------------------------------------
\* A launch begins at the given point of its script.
Launch(l, point) ==
  /\ at' = [at EXCEPT ![l] = point]
  /\ live' = [live EXCEPT ![l] = {"shell"}]
  /\ exit' = [exit EXCEPT ![l] = "none"] /\ ran' = [ran EXCEPT ![l] = FALSE]

To(l, point) ==
  /\ at' = [at EXCEPT ![l] = point]
  /\ UNCHANGED <<live, exit, ran>>

At(l, point) == at[l] = point /\ "shell" \in live[l]

\* The processes of a launch that are left: its locks go with the last holder.
\* A launch that has no shell any more has ended.
Left(l, procs) ==
  /\ live' = [live EXCEPT ![l] = procs]
  /\ dist' = IF dist = l /\ "shell" \notin procs THEN Free ELSE dist
  /\ ws' = IF ws = l /\ procs \intersect Holders = {} THEN Free ELSE ws

\* The script ends, with exit status 2 if it refuses.
Exit(l, status) ==
  /\ Left(l, live[l] \ {"shell"})
  /\ exit' = [exit EXCEPT ![l] = status]
  /\ at' = [at EXCEPT ![l] = "over"]
  /\ UNCHANGED ran

Refuse(l) == Exit(l, "failed") /\ UNCHANGED <<setting, cache, guard>>

\* The marker of a blocked session stops a direct launch of Gradle; without a
\* task or a session id no marker is looked for.
CheckGuardMutant(l) ==  \* mutant: the marker is not looked for
  /\ At(l, "guard")
  /\ To(l, "settings") /\ UNCHANGED <<setting, cache, dist, ws, guard>>

CheckGuard(l) ==
  /\ At(l, "guard")
  /\ IF Gradle /\ InSession(l) /\ guard THEN Refuse(l)
     ELSE To(l, "settings") /\ UNCHANGED <<setting, cache, dist, ws, guard>>

\* Toolchain, options, paths: all that is checked before anything is changed.
CheckSettings(l) ==
  /\ At(l, "settings")
  /\ IF setting.ready
     THEN To(l, "resolve") /\ UNCHANGED <<setting, cache, dist, ws, guard>>
     ELSE Refuse(l)

\* The fast path, without a lock.
Resolve(l) ==
  /\ At(l, "resolve")
  /\ To(l, IF install = "whole" THEN "workspace" ELSE "lock")
  /\ UNCHANGED <<setting, cache, dist, ws, guard>>

LockDistribution(l) ==
  /\ At(l, "lock")
  /\ \/ /\ dist = Free
        /\ dist' = l /\ To(l, "recheck")
        /\ UNCHANGED <<setting, cache, ws, guard>>
     \/ dist # Free /\ Refuse(l)  \* flock -w

\* The lock is released on the way out of the function.
Installed(l) ==
  /\ dist' = Free
  /\ To(l, "workspace")

RecheckMutant(l) ==  \* mutant: installs again although another launch just did
  /\ At(l, "recheck")
  /\ To(l, "fetch") /\ UNCHANGED <<setting, cache, dist, ws, guard>>

Recheck(l) ==
  /\ At(l, "recheck")
  /\ IF install = "whole" THEN Installed(l) ELSE To(l, "fetch") /\ UNCHANGED dist
  /\ UNCHANGED <<setting, cache, ws, guard>>

\* The archive appears under its name only when it is downloaded in full; what
\* a server sent need not be the distribution.
Fetch(l) ==
  /\ At(l, "fetch")
  /\ \/ /\ archive # "none" /\ UNCHANGED archive
        /\ To(l, "verify") /\ UNCHANGED <<setting, install, dist, ws, guard>>
     \/ /\ archive = "none" /\ archive' \in {"good", "bad"}
        /\ To(l, "verify") /\ UNCHANGED <<setting, install, dist, ws, guard>>
     \/ archive = "none" /\ Refuse(l)

Verify(l) ==
  /\ At(l, "verify")
  /\ IF setting.checksum /\ archive = "bad"
     THEN /\ archive' = "none" /\ Exit(l, "failed")
          /\ UNCHANGED <<setting, install, guard>>
     ELSE To(l, "unpack") /\ UNCHANGED <<setting, cache, dist, ws, guard>>

\* Into a directory of its own; it must have the executable.
Unpack(l) ==
  /\ At(l, "unpack")
  /\ \/ archive = "good" /\ To(l, "replace") /\ UNCHANGED <<setting, cache, dist, ws, guard>>
     \/ Refuse(l)

\* rm -rf of what is there, which takes a while, then one rename.
Replace(l) ==
  /\ At(l, "replace")
  /\ install' \in IF install = "none" THEN {"none"} ELSE {"none", "partial"}
  /\ IF install' = "none" THEN To(l, "publish") ELSE To(l, "replace")
  /\ UNCHANGED <<setting, archive, dist, ws, guard>>

Publish(l) ==
  /\ At(l, "publish")
  /\ install' = "whole" /\ Installed(l)
  /\ UNCHANGED <<setting, archive, ws, guard>>

-----------------------------------------------------------------------------
\* Gradle: flock, a process of its own, waits for the lock.
EnterFlock(l) ==
  /\ At(l, "workspace") /\ Gradle /\ "tool" \notin live[l]
  /\ live' = [live EXCEPT ![l] = {"shell", "tool"}]
  /\ UNCHANGED <<setting, cache, dist, ws, guard, at, exit, ran>>

\* The lock is taken: flock starts the tool, hermes-maven prepares it first.
LockWorkspace(l) ==
  /\ at[l] = "workspace" /\ ws = Free
  /\ IF Gradle THEN "tool" \in live[l] ELSE "shell" \in live[l]
  /\ ws' = l
  /\ To(l, IF Gradle THEN "build" ELSE "extension")
  /\ UNCHANGED <<setting, cache, dist, guard>>

\* Every launch gives up after a while, also that of a helper whose own timeout
\* is longer.
LockTimesOut(l) ==
  /\ at[l] = "workspace" /\ ws # Free
  /\ IF Gradle THEN "tool" \in live[l] ELSE "shell" \in live[l]
  /\ Left(l, {}) /\ exit' = [exit EXCEPT ![l] = "locked"]
  /\ at' = [at EXCEPT ![l] = "over"]
  /\ UNCHANGED <<setting, cache, guard, ran>>

\* The output directory and the core extension, compiled if it is not there.
Extension(l) ==
  /\ At(l, "extension")
  /\ \/ /\ at' = [at EXCEPT ![l] = "build"]
        /\ live' = [live EXCEPT ![l] = {"shell", "tool"}]
        /\ UNCHANGED <<setting, cache, dist, ws, guard, exit, ran>>
     \/ Refuse(l)

Building(l) == at[l] = "build" /\ "tool" \in live[l]

\* The tool ends; the script passes its exit status on.
ToolEnds(l, status) ==
  /\ Building(l)
  /\ Left(l, live[l] \ {"tool"})
  /\ ran' = [ran EXCEPT ![l] = TRUE]
  /\ IF "shell" \in live[l]
     THEN at' = [at EXCEPT ![l] = "status"] /\ exit' = [exit EXCEPT ![l] = status]
     ELSE at' = [at EXCEPT ![l] = "over"] /\ UNCHANGED exit
  /\ UNCHANGED <<setting, cache, guard>>

PassStatusOn(l) ==
  /\ At(l, "status")
  /\ Left(l, {}) /\ at' = [at EXCEPT ![l] = "over"]
  /\ UNCHANGED <<setting, cache, guard, exit, ran>>

\* Of the processes of a launch only the given ones survive a signal.  A shell
\* that has lost its tool ends; a tool that has lost its shell goes on.
Survive(l, rest) ==
  /\ Left(l, rest)
  /\ at' = [at EXCEPT ![l] = CASE rest = {}                     -> "over"
                               [] "tool" \in live[l] \ rest   -> "status"
                               [] OTHER                        -> at[l]]
  /\ exit' = [exit EXCEPT ![l] = "failed"]
  /\ ran' = [ran EXCEPT ![l] = ran[l] \/ (Building(l) /\ "tool" \notin rest)]
  /\ UNCHANGED <<setting, cache, guard>>

ScriptStep(l) ==
  \/ CheckGuard(l) \/ CheckSettings(l) \/ Resolve(l) \/ LockDistribution(l) \/ Recheck(l)
  \/ Fetch(l) \/ Verify(l) \/ Unpack(l) \/ Replace(l) \/ Publish(l)
  \/ EnterFlock(l) \/ LockWorkspace(l) \/ LockTimesOut(l) \/ Extension(l) \/ PassStatusOn(l)
  \/ \E status \in {"ok", "failed"} : ToolEnds(l, status)

-----------------------------------------------------------------------------
\* No two builds write to the output of one workspace at the same time,
\* whatever was killed before.
NoSecondBuild == \A l, m \in Launches : Building(l) /\ Building(m) => l = m

\* The distribution is whole from the moment a launch has found it until its
\* build is over: nobody installs it again under a launch that uses it.
DistributionStaysWhole ==
  \A l \in Launches : (at[l] \in {"workspace", "extension", "build"} /\ live[l] # {}) => install = "whole"
==============================================================================
