------------------------ MODULE BuildVerificationProofs ------------------------
(***************************************************************************)
(* Mutual exclusion of builds, for any number of helpers and direct        *)
(* launches: whoever builds owns the lock of the workspace.                *)
(***************************************************************************)
EXTENDS BuildVerification, TLAPS

Points == {"off", "guard", "settings", "resolve", "lock", "recheck", "fetch", "verify",
           "unpack", "replace", "publish", "workspace", "extension", "build", "status", "over"}

\* The lock has a holder among the processes of its launch.  Who builds owns it;
\* so does hermes-maven while it prepares the build, its script being a holder.
LockInv ==
  /\ at \in [Launches -> Points]
  /\ live \in [Launches -> SUBSET {"shell", "tool"}]
  /\ ws \in Launches \union {Free}
  /\ ws # Free => live[ws] \intersect Holders # {}
  /\ \A l \in Launches :
       /\ Building(l) => ws = l
       /\ at[l] = "extension" => ~Gradle /\ ("shell" \in live[l] => ws = l)

\* A Maven verification is one launch: no launch of it follows another.
StepInv ==
  /\ step \in [Helpers -> Steps \union {"idle"}]
  /\ ~Gradle => \A h \in Helpers : step[h] \in {"idle", "primary"}

\* The free lock is no launch.
LEMMA FreeIsNoLaunch == Free \notin Launches
  BY FreeAssumption DEF Free, Launches

\* A launch moves on before the build, keeping its processes or getting more.
LEMMA MovesOn ==
  ASSUME LockInv, NEW l \in Launches, NEW q \in Points \ {"extension", "build"},
         NEW procs \in SUBSET {"shell", "tool"}, live[l] \subseteq procs,
         at' = [at EXCEPT ![l] = q], live' = [live EXCEPT ![l] = procs],
         ws' = ws, setting' = setting
  PROVE  LockInv'
<1>1. Holders' = Holders /\ (Gradle' <=> Gradle)
  BY DEF Holders, Gradle
<1>2. at' \in [Launches -> Points] /\ live' \in [Launches -> SUBSET {"shell", "tool"}]
  BY DEF LockInv
<1>3. ASSUME ws # Free PROVE live'[ws] \intersect Holders # {}
  <2>1. ws \in Launches /\ live[ws] \intersect Holders # {}
    BY <1>3 DEF LockInv
  <2> QED
    BY <2>1 DEF LockInv
<1>4. ASSUME NEW m \in Launches
      PROVE  /\ Building(m)' => ws' = m
             /\ at'[m] = "extension" => ~Gradle /\ ("shell" \in live'[m] => ws' = m)
  BY <1>4 DEF LockInv, Building
<1> QED
  BY <1>1, <1>2, <1>3, <1>4 DEF LockInv

\* Processes of a launch end, and its locks with the last holder.
LEMMA ProcessesEnd ==
  ASSUME LockInv, NEW l \in Launches, NEW procs \in SUBSET live[l], Left(l, procs),
         NEW q, q \in {"status", "over", at[l]},
         at' = [at EXCEPT ![l] = q], setting' = setting
  PROVE  LockInv'
<1>1. Holders' = Holders /\ (Gradle' <=> Gradle)
  BY DEF Holders, Gradle
<1>2. live' = [live EXCEPT ![l] = procs] /\ procs \in SUBSET {"shell", "tool"}
  BY DEF Left, LockInv
<1>3. at' \in [Launches -> Points] /\ live' \in [Launches -> SUBSET {"shell", "tool"}]
  BY <1>2 DEF LockInv, Points
<1>4. ws' = IF ws = l /\ procs \intersect Holders = {} THEN Free ELSE ws
  BY DEF Left
<1>5. ws' \in Launches \union {Free}
  BY <1>4 DEF LockInv
<1>6. ASSUME ws' # Free PROVE live'[ws'] \intersect Holders # {}
  BY <1>2, <1>4, <1>6 DEF LockInv
<1>7. ASSUME NEW m \in Launches
      PROVE  /\ Building(m)' => ws' = m
             /\ at'[m] = "extension" => ~Gradle /\ ("shell" \in live'[m] => ws' = m)
  <2>1. CASE m # l
    BY <1>2, <1>4, <2>1, FreeIsNoLaunch DEF LockInv, Building
  <2>2. CASE m = l
    <3>1. "tool" \in Holders /\ (~Gradle => "shell" \in Holders)
      BY DEF Holders
    <3>2. at'[l] = q /\ live'[l] = procs
      BY <1>2 DEF LockInv
    <3>3. Building(l)' => ws' = l
      BY <1>4, <3>1, <3>2 DEF LockInv, Building
    <3>4. at'[l] = "extension" => ~Gradle /\ ("shell" \in live'[l] => ws' = l)
      BY <1>4, <3>1, <3>2 DEF LockInv
    <3> QED
      BY <2>2, <3>3, <3>4
  <2> QED
    BY <2>1, <2>2
<1> QED
  BY <1>1, <1>3, <1>5, <1>6, <1>7 DEF LockInv

-----------------------------------------------------------------------------
\* Nothing that the invariant speaks of changes.
LEMMA LockIdle ==
  ASSUME LockInv, UNCHANGED <<at, live, ws, setting>>
  PROVE  LockInv'
  BY DEF LockInv, Building, Holders, Gradle

\* A launch begins where its group has no process left.
LEMMA LaunchBegins ==
  ASSUME LockInv, NEW l \in Launches, live[l] = {}, NEW q \in {"guard", "settings"},
         Launch(l, q), UNCHANGED <<ws, setting>>
  PROVE  LockInv'
  BY MovesOn DEF Launch, Points

\* The step of a script that is in the process' own hands.
LEMMA ExitKeeps ==
  ASSUME LockInv, NEW l \in Launches, NEW status, Exit(l, status), setting' = setting
  PROVE  LockInv'
<1>1. LockInv /\ live[l] \ {"shell"} \in SUBSET live[l]
  OBVIOUS
<1>2. Left(l, live[l] \ {"shell"}) /\ at' = [at EXCEPT ![l] = "over"]
  BY DEF Exit
<1> QED
  BY <1>1, <1>2, ProcessesEnd

\* The processes that are left hold what is left of the locks.
LEMMA SurviveKeeps ==
  ASSUME LockInv, NEW l \in Launches, NEW rest \in SUBSET live[l], Survive(l, rest)
  PROVE  LockInv'
<1> DEFINE q == CASE rest = {}                     -> "over"
                  [] "tool" \in live[l] \ rest   -> "status"
                  [] OTHER                        -> at[l]
<1>1. q \in {"status", "over", at[l]}
  OBVIOUS
<1>2. Left(l, rest) /\ at' = [at EXCEPT ![l] = q] /\ setting' = setting
  BY DEF Survive
<1> HIDE DEF q
<1> QED
  BY <1>1, <1>2, ProcessesEnd

\* A step that goes on to a point before the build, with the processes it has.
LEMMA ToKeeps ==
  ASSUME LockInv, NEW l \in Launches, NEW q \in Points \ {"extension", "build"}, To(l, q),
         ws' = ws, setting' = setting
  PROVE  LockInv'
<1>1. live' = [live EXCEPT ![l] = live[l]] /\ live[l] \in SUBSET {"shell", "tool"}
  BY DEF To, LockInv
<1>2. at' = [at EXCEPT ![l] = q]
  BY DEF To
<1> QED
  BY <1>1, <1>2, MovesOn

\* Every step of a launch's own script keeps the invariant.
LEMMA ScriptKeeps ==
  ASSUME LockInv, NEW l \in Launches, ScriptStep(l)
  PROVE  LockInv'
<1> DEFINE Early == Points \ {"extension", "build"}
<1> USE DEF Refuse
<1>1. CASE CheckGuard(l)
  <2>1. "settings" \in Early
    BY DEF Points
  <2> QED
    BY <1>1, <2>1, ToKeeps, ExitKeeps DEF CheckGuard
<1>2. CASE CheckSettings(l)
  <2>1. "resolve" \in Early
    BY DEF Points
  <2> QED
    BY <1>2, <2>1, ToKeeps, ExitKeeps DEF CheckSettings
<1>3. CASE Resolve(l)
  <2>1. "workspace" \in Early /\ "lock" \in Early
    BY DEF Points
  <2> QED
    BY <1>3, <2>1, ToKeeps DEF Resolve
<1>4. CASE LockDistribution(l)
  <2>1. "recheck" \in Early
    BY DEF Points
  <2> QED
    BY <1>4, <2>1, ToKeeps, ExitKeeps DEF LockDistribution
<1>5. CASE Recheck(l)
  <2>1. "workspace" \in Early /\ "fetch" \in Early
    BY DEF Points
  <2> QED
    BY <1>5, <2>1, ToKeeps DEF Recheck, Installed
<1>6. CASE Fetch(l)
  <2>1. "verify" \in Early
    BY DEF Points
  <2> QED
    BY <1>6, <2>1, ToKeeps, ExitKeeps DEF Fetch
<1>7. CASE Verify(l)
  <2>1. "unpack" \in Early
    BY DEF Points
  <2> QED
    BY <1>7, <2>1, ToKeeps, ExitKeeps DEF Verify
<1>8. CASE Unpack(l)
  <2>1. "replace" \in Early
    BY DEF Points
  <2> QED
    BY <1>8, <2>1, ToKeeps, ExitKeeps DEF Unpack
<1>9. CASE Replace(l)
  <2>1. "publish" \in Early /\ "replace" \in Early
    BY DEF Points
  <2> QED
    BY <1>9, <2>1, ToKeeps DEF Replace
<1>10. CASE Publish(l)
  <2>1. "workspace" \in Early
    BY DEF Points
  <2> QED
    BY <1>10, <2>1, ToKeeps DEF Publish, Installed
<1>11. CASE EnterFlock(l)
  <2>1. at[l] = "workspace" /\ at[l] \in Early /\ at \in [Launches -> Points]
    BY <1>11 DEF EnterFlock, At, Points, LockInv
  <2>2. live[l] \subseteq {"shell", "tool"} /\ live' = [live EXCEPT ![l] = {"shell", "tool"}]
    BY <1>11 DEF EnterFlock, LockInv
  <2>3. at' = [at EXCEPT ![l] = at[l]] /\ ws' = ws /\ setting' = setting
    BY <1>11, <2>1 DEF EnterFlock
  <2> QED
    BY <2>1, <2>2, <2>3, MovesOn
<1>12. CASE LockWorkspace(l)
  <2>1. at' = [at EXCEPT ![l] = IF Gradle THEN "build" ELSE "extension"]
    BY <1>12 DEF LockWorkspace, To
  <2>2. ws = Free /\ ws' = l /\ live' = live /\ setting' = setting
    BY <1>12 DEF LockWorkspace, To
  <2>3. live[l] \intersect Holders # {}
    BY <1>12 DEF LockWorkspace, Holders
  <2>4. Holders' = Holders /\ (Gradle' <=> Gradle)
    BY <2>2 DEF Holders, Gradle
  <2>5. at' \in [Launches -> Points]
    BY <2>1 DEF LockInv, Points
  <2>6. ASSUME NEW m \in Launches
        PROVE  /\ Building(m)' => ws' = m
               /\ at'[m] = "extension" => ~Gradle /\ ("shell" \in live'[m] => ws' = m)
    <3>1. CASE m = l
      BY <2>1, <2>2, <3>1 DEF LockInv
    <3>2. CASE m # l
      BY <2>1, <2>2, <3>2, FreeIsNoLaunch DEF LockInv, Building
    <3> QED
      BY <3>1, <3>2
  <2> QED
    BY <2>2, <2>3, <2>4, <2>5, <2>6 DEF LockInv
<1>13. CASE LockTimesOut(l)
  <2>1. {} \in SUBSET live[l]
    OBVIOUS
  <2>2. Left(l, {}) /\ at' = [at EXCEPT ![l] = "over"] /\ setting' = setting
    BY <1>13 DEF LockTimesOut
  <2> QED
    BY <2>1, <2>2, ProcessesEnd
<1>14. CASE Extension(l)
  <2>1. CASE Refuse(l)
    BY <2>1, ExitKeeps
  <2>2. CASE /\ at' = [at EXCEPT ![l] = "build"]
             /\ live' = [live EXCEPT ![l] = {"shell", "tool"}]
             /\ UNCHANGED <<ws, setting>>
    <3>1. at[l] = "extension" /\ ws = l /\ ~Gradle
      BY <1>14 DEF Extension, At, LockInv
    <3>2. Holders' = Holders /\ (Gradle' <=> Gradle)
      BY <2>2 DEF Holders, Gradle
    <3>3. at' \in [Launches -> Points] /\ live' \in [Launches -> SUBSET {"shell", "tool"}]
      BY <2>2 DEF LockInv, Points
    <3>4. live'[ws] \intersect Holders # {}
      BY <2>2, <3>1 DEF LockInv, Holders
    <3>5. ASSUME NEW m \in Launches
          PROVE  /\ Building(m)' => ws' = m
                 /\ at'[m] = "extension" => ~Gradle /\ ("shell" \in live'[m] => ws' = m)
      <4>1. CASE m = l
        BY <2>2, <3>1, <4>1 DEF LockInv
      <4>2. CASE m # l
        BY <2>2, <4>2 DEF LockInv, Building
      <4> QED
        BY <4>1, <4>2
    <3> QED
      BY <2>2, <3>2, <3>3, <3>4, <3>5 DEF LockInv
  <2> QED
    BY <1>14, <2>1, <2>2 DEF Extension
<1>15. CASE PassStatusOn(l)
  <2>1. Left(l, {}) /\ at' = [at EXCEPT ![l] = "over"] /\ setting' = setting /\ {} \in SUBSET live[l]
    BY <1>15 DEF PassStatusOn
  <2> QED
    BY <2>1, ProcessesEnd
<1>16. ASSUME NEW status \in {"ok", "failed"}, ToolEnds(l, status) PROVE LockInv'
  <2>1. Left(l, live[l] \ {"tool"}) /\ setting' = setting /\ live[l] \ {"tool"} \in SUBSET live[l]
    BY <1>16 DEF ToolEnds
  <2>2. PICK q \in {"status", "over"} : at' = [at EXCEPT ![l] = q]
    BY <1>16 DEF ToolEnds
  <2>3. q \in {"status", "over", at[l]}
    OBVIOUS
  <2> QED
    BY <2>1, <2>2, <2>3, ProcessesEnd
<1> QED
  BY <1>1, <1>2, <1>3, <1>4, <1>5, <1>6, <1>7, <1>8, <1>9, <1>10, <1>11, <1>12, <1>13,
     <1>14, <1>15, <1>16 DEF ScriptStep

-----------------------------------------------------------------------------
\* What follows a launch that is over: the next one of a Gradle helper, whose
\* group is gone by then, or the end of the verification.
LEMMA AfterKeeps ==
  ASSUME LockInv, StepInv, NEW h \in Helpers, NEW outcome,
         Gradle => live[h] = {}, After(h, outcome)
  PROVE  LockInv' /\ StepInv'
<1>1. h \in Launches /\ ws' = ws /\ setting' = setting /\ (Gradle' <=> Gradle)
  BY DEF Launches, After, Gradle
<1>2. ASSUME NEW v, Ends(h, v) PROVE LockInv' /\ StepInv'
  <2>1. LockInv'
    BY <1>1, <1>2, LockIdle DEF Ends, launches
  <2>2. StepInv'
    BY <1>1, <1>2 DEF Ends, StepInv
  <2> QED
    BY <2>1, <2>2
<1>3. ASSUME NEW s \in Steps, RunStep(h, s), Gradle PROVE LockInv' /\ StepInv'
  <2>1. LockInv'
    BY <1>1, <1>3, LaunchBegins DEF RunStep
  <2>2. StepInv'
    BY <1>1, <1>3 DEF RunStep, StepInv
  <2> QED
    BY <2>1, <2>2
<1>4. CASE ~Gradle
  <2>1. step[h] \in {"idle", "primary"}
    BY <1>4 DEF StepInv
  <2>2. \E v : Ends(h, v)
    BY <1>4, <2>1 DEF After, MavenPrimary, Diagnose
  <2> QED
    BY <1>2, <2>2
<1>5. CASE Gradle
  <2>1. \/ \E v : Ends(h, v)
        \/ \E s \in Steps : RunStep(h, s)
    <3>1. CASE step[h] = "capability"
      BY <3>1 DEF After, Capability, Steps
    <3>2. CASE step[h] = "primary"
      BY <1>5, <3>2 DEF After, GradlePrimary, Steps
    <3>3. CASE step[h] \notin {"capability", "primary"}
      BY <3>3 DEF After, Diagnose, Steps
    <3> QED
      BY <3>1, <3>2, <3>3
  <2> QED
    BY <1>2, <1>3, <1>5, <2>1
<1> QED
  BY <1>4, <1>5

\* A step of a helper keeps both invariants.
LEMMA HelperKeeps ==
  ASSUME LockInv, StepInv, NEW h \in Helpers, Begin(h) \/ HelperStep(h) \/ HelperDies(h)
  PROVE  LockInv' /\ StepInv'
<1>1. h \in Launches
  BY DEF Launches
<1>2. CASE Begin(h)
  <2>1. LockInv'
    BY <1>1, <1>2, LaunchBegins DEF Begin, RunStep
  <2>2. step' = [step EXCEPT ![h] = IF Gradle THEN "capability" ELSE "primary"] /\ (Gradle' <=> Gradle)
    BY <1>2 DEF Begin, RunStep, Gradle
  <2>3. StepInv'
    BY <2>2 DEF StepInv, Steps
  <2> QED
    BY <2>1, <2>3
<1>3. CASE Finishes(h)
  <2>1. (Gradle => live[h] = {}) /\ After(h, exit[h])
    BY <1>3 DEF Finishes, Returned
  <2> QED
    BY <2>1, AfterKeeps
<1>4. CASE Reap(h)
  BY <1>4, AfterKeeps DEF Reap
<1>5. ASSUME UNCHANGED lvars, step' = step \/ step' = [step EXCEPT ![h] = "idle"]
      PROVE  LockInv' /\ StepInv'
  <2>1. UNCHANGED <<at, live, ws, setting>>
    BY <1>5 DEF lvars, launches
  <2>2. StepInv'
    BY <1>5, <2>1 DEF StepInv, Gradle
  <2> QED
    BY <2>1, <2>2, LockIdle
<1>6. ASSUME NEW rest \in SUBSET live[h], Survive(h, rest), step' = step
      PROVE  LockInv' /\ StepInv'
  <2>1. StepInv'
    BY <1>6 DEF Survive, StepInv, Gradle
  <2> QED
    BY <1>1, <1>6, <2>1, SurviveKeeps
<1>7. CASE TimesOut(h)
  BY <1>5, <1>7 DEF TimesOut
<1>8. CASE GracePeriodEnds(h)
  BY <1>5, <1>8 DEF GracePeriodEnds
<1>9. CASE HelperDies(h)
  BY <1>5, <1>9 DEF HelperDies
<1>10. CASE Terminate(h)
  BY <1>6, <1>10 DEF Terminate
<1>11. CASE KillGroup(h)
  <2>1. {} \in SUBSET live[h]
    OBVIOUS
  <2> QED
    BY <1>6, <1>11, <2>1 DEF KillGroup
<1> QED
  BY <1>2, <1>3, <1>4, <1>7, <1>8, <1>9, <1>10, <1>11 DEF HelperStep

-----------------------------------------------------------------------------
\* The invariants hold at the start, where nothing runs and nothing is locked.
LEMMA LockInvInit == Init => LockInv /\ StepInv
  BY DEF Init, LauncherInit, LockInv, StepInv, Points, Building

\* Every step of the system keeps them.
LEMMA LockInvStep == LockInv /\ StepInv /\ [SystemNext]_vars => LockInv' /\ StepInv'
<1> SUFFICES ASSUME LockInv, StepInv, [SystemNext]_vars
             PROVE  LockInv' /\ StepInv'
  OBVIOUS
<1>1. ASSUME NEW h \in Helpers, Begin(h) \/ HelperStep(h) \/ HelperDies(h)
      PROVE  LockInv' /\ StepInv'
  BY <1>1, HelperKeeps
<1>2. ASSUME UNCHANGED <<step, setting>> PROVE StepInv'
  BY <1>2 DEF StepInv, Gradle
<1>3. ASSUME NEW d \in Directs, StartDirect(d) PROVE LockInv' /\ StepInv'
  <2>1. d \in Launches /\ live[d] = {} /\ Launch(d, "guard") /\ UNCHANGED <<ws, setting, step>>
    BY <1>3 DEF StartDirect, Launches, helper
  <2> QED
    BY <1>2, <2>1, LaunchBegins
<1>4. ASSUME NEW l \in Launches, LaunchStep(l) PROVE LockInv' /\ StepInv'
  <2>1. LockInv' /\ step' = step
    BY <1>4, ScriptKeeps DEF LaunchStep, helper
  <2>2. setting' = setting
    BY <1>4 DEF LaunchStep, ScriptStep, CheckGuard, CheckSettings, Resolve, LockDistribution,
       Recheck, Fetch, Verify, Unpack, Replace, Publish, EnterFlock, LockWorkspace,
       LockTimesOut, Extension, PassStatusOn, ToolEnds, Refuse
  <2> QED
    BY <1>2, <2>1, <2>2
<1>5. ASSUME Killing, UNCHANGED helper PROVE LockInv' /\ StepInv'
  <2>1. PICK l \in Launches : \E rest \in SUBSET live[l] : Survive(l, rest)
    BY <1>5 DEF Killing, Launches
  <2>2. step' = step /\ setting' = setting
    BY <1>5, <2>1 DEF Survive, helper
  <2> QED
    BY <1>2, <2>1, <2>2, SurviveKeeps
<1>6. CASE UNCHANGED vars
  BY <1>2, <1>6, LockIdle DEF vars, lvars, launches, helper
<1> QED
  BY <1>1, <1>3, <1>4, <1>5, <1>6 DEF SystemNext

\* No two builds of one workspace run at the same time, however many helpers
\* and direct launches there are and whichever of their processes are killed:
\* who builds owns the one lock.
THEOREM BuildsExclude == Spec => []NoSecondBuild
<1>1. LockInv => NoSecondBuild
  BY DEF LockInv, NoSecondBuild
<1> QED
  BY <1>1, LockInvInit, LockInvStep, PTL DEF Spec

-----------------------------------------------------------------------------
(* The distribution, and what it takes to end well *)

Replacing  == {"fetch", "verify", "unpack", "replace", "publish"}
Installing == {"recheck"} \union Replacing
Using      == {"workspace", "extension", "build"}
Checked    == {"resolve", "lock"} \union Installing \union Using

\* Who installs has the lock of the distribution, and replaces it only if it is
\* not whole; who is past the installation has found it whole.  A tool ran only
\* with that and with valid settings, and "ok" is the status of a tool.
LaunchInv(l) ==
  /\ at[l] \in Installing /\ "shell" \in live[l] => dist = l
  /\ at[l] \in Replacing /\ "shell" \in live[l] => install # "whole"
  /\ at[l] \in Using /\ live[l] # {} => install = "whole"
  /\ at[l] \in Checked /\ live[l] # {} => setting.ready
  /\ ran[l] => install = "whole" /\ setting.ready
  /\ exit[l] = "ok" => ran[l]

ScriptInv ==
  /\ exit \in [Launches -> {"none", "ok", "failed", "locked"}] /\ ran \in [Launches -> BOOLEAN]
  /\ \A l \in Launches : LaunchInv(l)

\* A step of one launch: it takes the lock of the distribution only if that is
\* free, and touches the installation only if the lock is its own.
Touches(l) ==
  /\ \A m \in Launches : m # l => /\ at'[m] = at[m] /\ live'[m] = live[m]
                                 /\ exit'[m] = exit[m] /\ ran'[m] = ran[m]
  /\ exit' \in [Launches -> {"none", "ok", "failed", "locked"}] /\ ran' \in [Launches -> BOOLEAN]
  /\ setting' = setting
  /\ dist' = dist \/ dist \in {Free, l}
  /\ install' = install \/ (dist = l /\ (install = "whole" => install' = "whole"))

\* A step of one launch leaves what is known of the others.
LEMMA TouchesKeeps ==
  ASSUME ScriptInv, NEW l \in Launches, Touches(l), LaunchInv(l)'
  PROVE  ScriptInv'
<1>1. ASSUME NEW m \in Launches, m # l PROVE LaunchInv(m)'
  <2>1. m # Free
    BY FreeIsNoLaunch
  <2> QED
    BY <1>1, <2>1 DEF ScriptInv, Touches, LaunchInv, Installing
<1> QED
  BY <1>1 DEF ScriptInv, Touches

\* The launch goes on to another point of its script with the processes it has.
LEMMA ToTouches ==
  ASSUME LockInv, ScriptInv, NEW l \in Launches, NEW q, To(l, q)
  PROVE  /\ \A m \in Launches : m # l => /\ at'[m] = at[m] /\ live'[m] = live[m]
                                        /\ exit'[m] = exit[m] /\ ran'[m] = ran[m]
         /\ exit' \in [Launches -> {"none", "ok", "failed", "locked"}] /\ ran' \in [Launches -> BOOLEAN]
         /\ at'[l] = q /\ live' = live /\ exit' = exit /\ ran' = ran
  BY DEF To, LockInv, ScriptInv

\* Some of its processes end, at a point where nothing is installed or used.
LEMMA EndsTouches ==
  ASSUME LockInv, ScriptInv, NEW l \in Launches, NEW q, NEW procs \in SUBSET live[l],
         Left(l, procs), at' = [at EXCEPT ![l] = q], UNCHANGED <<install, setting>>,
         NEW x \in {"none", "ok", "failed", "locked"}, exit' = [exit EXCEPT ![l] = x],
         NEW y \in BOOLEAN, ran' = [ran EXCEPT ![l] = y]
  PROVE  /\ Touches(l) /\ at'[l] = q /\ live'[l] = procs /\ exit'[l] = x /\ ran'[l] = y
         /\ "shell" \in procs => dist' = dist
<1>1. exit' \in [Launches -> {"none", "ok", "failed", "locked"}]
  BY DEF ScriptInv
<1>2. ran' \in [Launches -> BOOLEAN]
  BY DEF ScriptInv
<1>3. /\ at'[l] = q /\ live'[l] = procs /\ exit'[l] = x /\ ran'[l] = y
      /\ "shell" \in procs => dist' = dist
  BY DEF Left, LockInv, ScriptInv
<1>4. \A m \in Launches : m # l => at'[m] = at[m] /\ live'[m] = live[m]
  BY DEF Left, LockInv
<1>5. \A m \in Launches : m # l => exit'[m] = exit[m] /\ ran'[m] = ran[m]
  BY DEF ScriptInv
<1>6. dist' = dist \/ dist = l
  BY DEF Left
<1> QED
  BY <1>1, <1>2, <1>3, <1>4, <1>5, <1>6 DEF Touches

\* A launch that is refused installs nothing and has run no tool.
LEMMA RefuseSound ==
  ASSUME LockInv, ScriptInv, NEW l \in Launches, Exit(l, "failed"), UNCHANGED <<install, setting>>
  PROVE  Touches(l) /\ ScriptInv'
<1>1. live[l] \ {"shell"} \in SUBSET live[l] /\ ran[l] \in BOOLEAN /\ ran = [ran EXCEPT ![l] = ran[l]]
  BY Zenon DEF ScriptInv
<1>2. ran' = [ran EXCEPT ![l] = ran[l]]
  BY <1>1 DEF Exit
<1>3. Touches(l) /\ at'[l] = "over" /\ exit'[l] = "failed" /\ ran'[l] = ran[l]
  BY <1>1, <1>2, EndsTouches DEF Exit
<1>4. LaunchInv(l)'
  BY <1>3 DEF LaunchInv, ScriptInv, Installing, Replacing, Using, Checked
<1> QED
  BY <1>3, <1>4, TouchesKeeps

\* Every step of a launch's own script keeps it.
LEMMA ScriptSound ==
  ASSUME LockInv, ScriptInv, NEW l \in Launches, ScriptStep(l)
  PROVE  Touches(l) /\ ScriptInv'
<1> USE DEF cache, At, Installing, Replacing, Using, Checked
<1>0. LaunchInv(l) /\ l # Free /\ (live[l] # {} <=> \E p \in live[l] : TRUE)
  BY FreeIsNoLaunch DEF ScriptInv
<1>1. CASE Refuse(l)
  BY <1>1, RefuseSound DEF Refuse
<1>2. CASE To(l, "settings") /\ UNCHANGED <<setting, cache, dist>>
  BY <1>0, <1>2, ToTouches, TouchesKeeps DEF Touches, LaunchInv
<1>3. CASE CheckSettings(l)
  BY <1>0, <1>1, <1>3, ToTouches, TouchesKeeps DEF CheckSettings, Touches, LaunchInv
<1>4. CASE Resolve(l)
  BY <1>0, <1>4, ToTouches, TouchesKeeps DEF Resolve, Touches, LaunchInv
<1>5. CASE LockDistribution(l)
  BY <1>0, <1>1, <1>5, ToTouches, TouchesKeeps DEF LockDistribution, Touches, LaunchInv
<1>6. CASE Recheck(l)
  BY <1>0, <1>6, ToTouches, TouchesKeeps DEF Recheck, Installed, Touches, LaunchInv
<1>7. CASE Fetch(l)
  BY <1>0, <1>1, <1>7, ToTouches, TouchesKeeps DEF Fetch, Touches, LaunchInv
<1>8. CASE Verify(l)
  BY <1>0, <1>8, RefuseSound, ToTouches, TouchesKeeps DEF Verify, Touches, LaunchInv
<1>9. CASE Unpack(l)
  BY <1>0, <1>1, <1>9, ToTouches, TouchesKeeps DEF Unpack, Touches, LaunchInv
<1>10. CASE Replace(l)
  BY <1>0, <1>10, ToTouches, TouchesKeeps DEF Replace, Touches, LaunchInv
<1>11. CASE Publish(l)
  BY <1>0, <1>11, ToTouches, TouchesKeeps DEF Publish, Installed, Touches, LaunchInv
<1>12. CASE EnterFlock(l)
  <2>1. /\ Touches(l) /\ at[l] = "workspace" /\ at' = at /\ live[l] # {} /\ exit' = exit /\ ran' = ran
        /\ install' = install
    BY <1>12 DEF EnterFlock, Touches, LockInv, ScriptInv
  <2> QED
    BY <1>0, <1>12, <2>1, TouchesKeeps DEF LaunchInv, Touches
<1>13. CASE LockWorkspace(l)
  BY <1>0, <1>13, ToTouches, TouchesKeeps DEF LockWorkspace, Touches, LaunchInv
<1>14. CASE LockTimesOut(l)
  <2>0. /\ Left(l, {}) /\ exit' = [exit EXCEPT ![l] = "locked"]
        /\ at' = [at EXCEPT ![l] = "over"] /\ UNCHANGED <<setting, cache, ran>>
    BY <1>14 DEF LockTimesOut
  <2>1. ran' = [ran EXCEPT ![l] = ran[l]] /\ {} \in SUBSET live[l] /\ ran[l] \in BOOLEAN
    BY <2>0 DEF ScriptInv
  <2>2. Touches(l) /\ at'[l] = "over" /\ live'[l] = {} /\ exit'[l] = "locked" /\ ran'[l] = ran[l]
    BY <2>0, <2>1, EndsTouches
  <2> QED
    BY <1>0, <2>0, <2>2, TouchesKeeps DEF LaunchInv
<1>15. CASE Extension(l) /\ ~Refuse(l)
  <2>1. /\ Touches(l) /\ at'[l] = "build" /\ live[l] # {} /\ exit' = exit /\ ran' = ran
        /\ install' = install /\ at[l] = "extension"
    BY <1>15 DEF Extension, Touches, LockInv, ScriptInv
  <2> QED
    BY <1>0, <2>1, TouchesKeeps DEF LaunchInv, Touches
<1>16. CASE PassStatusOn(l)
  <2>1. /\ ran' = [ran EXCEPT ![l] = ran[l]] /\ {} \in SUBSET live[l] /\ ran[l] \in BOOLEAN
        /\ exit' = [exit EXCEPT ![l] = exit[l]] /\ exit[l] \in {"none", "ok", "failed", "locked"}
    BY <1>16 DEF PassStatusOn, ScriptInv
  <2>2. Touches(l) /\ at'[l] = "over" /\ live'[l] = {} /\ exit'[l] = exit[l] /\ ran'[l] = ran[l]
    BY <1>16, <2>1, EndsTouches DEF PassStatusOn
  <2> QED
    BY <1>0, <1>16, <2>2, TouchesKeeps DEF LaunchInv, PassStatusOn
<1>17. ASSUME NEW status \in {"ok", "failed"}, ToolEnds(l, status) PROVE Touches(l) /\ ScriptInv'
  <2>1. PICK x \in {status, exit[l]} : exit' = [exit EXCEPT ![l] = x]
    BY <1>17 DEF ToolEnds, ScriptInv
  <2>2. PICK q \in {"status", "over"} : at' = [at EXCEPT ![l] = q]
    BY <1>17 DEF ToolEnds
  <2>3. x \in {"none", "ok", "failed", "locked"} /\ live[l] \ {"tool"} \in SUBSET live[l]
    BY <2>1 DEF ScriptInv
  <2>4. Touches(l) /\ at'[l] = q /\ exit'[l] = x /\ ran'[l] = TRUE
    BY <1>17, <2>1, <2>2, <2>3, EndsTouches DEF ToolEnds
  <2>5. install = "whole" /\ setting.ready /\ UNCHANGED <<install, setting>>
    BY <1>0, <1>17 DEF ToolEnds, Building, LaunchInv
  <2>6. LaunchInv(l)'
    BY <2>2, <2>4, <2>5 DEF LaunchInv
  <2> QED
    BY <2>4, <2>6, TouchesKeeps
<1>18. CASE CheckGuard(l)
  BY <1>1, <1>2, <1>18 DEF CheckGuard
<1> QED
  BY <1>1, <1>2, <1>3, <1>4, <1>5, <1>6, <1>7, <1>8, <1>9, <1>10, <1>11, <1>12, <1>13,
     <1>14, <1>15, <1>16, <1>17, <1>18 DEF ScriptStep

\* So does a signal, which ends processes and never begins one.
LEMMA SurviveSound ==
  ASSUME LockInv, ScriptInv, NEW l \in Launches, NEW rest \in SUBSET live[l], Survive(l, rest)
  PROVE  Touches(l) /\ live'[l] = rest /\ ScriptInv'
<1> DEFINE q == CASE rest = {}                     -> "over"
                  [] "tool" \in live[l] \ rest   -> "status"
                  [] OTHER                        -> at[l]
           y == ran[l] \/ (Building(l) /\ "tool" \notin rest)
<1>1. q \in {"over", "status"} \/ (q = at[l] /\ rest # {})
  OBVIOUS
<1>2. y \in BOOLEAN
  BY Zenon
<1>3. /\ Left(l, rest) /\ at' = [at EXCEPT ![l] = q] /\ exit' = [exit EXCEPT ![l] = "failed"]
      /\ ran' = [ran EXCEPT ![l] = y] /\ UNCHANGED <<install, setting>>
  BY DEF Survive, cache
<1>4. LaunchInv(l) /\ (y => ran[l] \/ Building(l))
  BY DEF ScriptInv
<1> HIDE DEF q, y
<1>5. /\ Touches(l) /\ at'[l] = q /\ live'[l] = rest /\ exit'[l] = "failed" /\ ran'[l] = y
      /\ "shell" \in rest => dist' = dist
  BY <1>2, <1>3, EndsTouches
<1>6. y => install = "whole" /\ setting.ready
  BY <1>4 DEF LaunchInv, Building, Using, Checked
<1>7. LaunchInv(l)'
  BY <1>1, <1>3, <1>4, <1>5, <1>6 DEF LaunchInv, Installing, Replacing, Using, Checked
<1> QED
  BY <1>5, <1>7, TouchesKeeps

\* A new launch starts with nothing done.
LEMMA LaunchSound ==
  ASSUME LockInv, ScriptInv, NEW l \in Launches, NEW q \in {"guard", "settings"}, Launch(l, q),
         UNCHANGED <<install, setting, dist>>
  PROVE  Touches(l) /\ at'[l] = q /\ live'[l] = {"shell"} /\ ScriptInv'
<1>1. Touches(l) /\ at'[l] = q /\ live'[l] = {"shell"} /\ exit'[l] = "none" /\ ran'[l] = FALSE
  BY DEF Launch, Touches, LockInv, ScriptInv
<1>2. LaunchInv(l)'
  BY <1>1 DEF LaunchInv, Installing, Replacing, Using, Checked
<1> QED
  BY <1>1, <1>2, TouchesKeeps

\* What does not concern the launches keeps what is known of them.
LEMMA ScriptIdle ==
  ASSUME ScriptInv, UNCHANGED <<launches, install, setting, dist>>
  PROVE  ScriptInv'
  BY DEF ScriptInv, LaunchInv, launches

\* A launch is over when it has no process left.
LEMMA ScriptLives == ASSUME NEW l, ScriptStep(l) PROVE live[l] # {}
<1>1. ASSUME NEW status, ToolEnds(l, status) PROVE live[l] # {}
  BY <1>1 DEF ToolEnds, Building
<1> QED
  BY <1>1 DEF ScriptStep, CheckGuard, CheckSettings, Resolve, LockDistribution, Recheck, Fetch, Verify,
     Unpack, Replace, Publish, EnterFlock, LockWorkspace, LockTimesOut, Extension, PassStatusOn, At

\* What follows a launch is the next one or the end of the verification.
LEMMA AfterIs ==
  ASSUME StepInv, NEW h \in Helpers, NEW outcome, After(h, outcome)
  PROVE  \/ \E v \in {"PASS", "FAIL", "BLOCKED"} : Ends(h, v)
         \/ /\ Gradle /\ UNCHANGED <<guard, verdict, history>>
            /\ \E s \in Steps : RunStep(h, s) /\ (s = "primary" => outcome = "ok")
<1>1. CASE ~Gradle
  <2>1. step[h] \in {"idle", "primary"}
    BY <1>1 DEF StepInv
  <2> QED
    BY <1>1, <2>1 DEF After, MavenPrimary, Diagnose
<1>2. CASE Gradle
  <2>1. CASE step[h] = "capability"
    BY <1>2, <2>1 DEF After, Capability, Steps
  <2>2. CASE step[h] = "primary"
    BY <1>2, <2>2 DEF After, GradlePrimary, Steps
  <2>3. CASE step[h] \notin {"capability", "primary"}
    BY <1>2, <2>3 DEF After, Diagnose, Steps
  <2> QED
    BY <2>1, <2>2, <2>3
<1> QED
  BY <1>1, <1>2

-----------------------------------------------------------------------------
\* Every step of the system is one launch's or leaves the launches alone.
LEMMA SystemTouches ==
  ASSUME LockInv, StepInv, ScriptInv, [SystemNext]_vars
  PROVE  /\ ScriptInv'
         /\ (\E l \in Launches : Touches(l)) \/ UNCHANGED <<at, live, exit, ran, install, setting>>
<1> USE DEF Launches, cache, launches
<1>1. ASSUME NEW h \in Helpers, Begin(h)
      PROVE  ScriptInv' /\ \E l \in Launches : Touches(l)
  BY <1>1, LaunchSound DEF Begin, RunStep
<1>2. ASSUME NEW h \in Helpers, NEW outcome, After(h, outcome)
      PROVE  /\ ScriptInv'
             /\ (\E l \in Launches : Touches(l)) \/ UNCHANGED <<at, live, exit, ran, install, setting>>
  <2>1. ASSUME NEW v, Ends(h, v)
        PROVE  ScriptInv' /\ UNCHANGED <<at, live, exit, ran, install, setting>>
    BY <1>2, <2>1, ScriptIdle DEF Ends, After
  <2>2. ASSUME NEW s, RunStep(h, s)
        PROVE  ScriptInv' /\ \E l \in Launches : Touches(l)
    BY <1>2, <2>2, LaunchSound DEF RunStep, After
  <2>3. (\E v : Ends(h, v)) \/ (\E s : RunStep(h, s))
    BY <1>2, AfterIs
  <2> QED
    BY <2>1, <2>2, <2>3
<1>3. ASSUME NEW l \in Launches, NEW rest \in SUBSET live[l], Survive(l, rest)
      PROVE  ScriptInv' /\ \E m \in Launches : Touches(m)
  BY <1>3, SurviveSound
<1>4. ASSUME UNCHANGED lvars
      PROVE  ScriptInv' /\ UNCHANGED <<at, live, exit, ran, install, setting>>
  BY <1>4, ScriptIdle DEF lvars
<1>5. ASSUME NEW h \in Helpers, HelperStep(h) \/ HelperDies(h)
      PROVE  /\ ScriptInv'
             /\ (\E l \in Launches : Touches(l)) \/ UNCHANGED <<at, live, exit, ran, install, setting>>
  <2>1. {} \in SUBSET live[h]
    OBVIOUS
  <2> QED
    BY <1>2, <1>3, <1>4, <1>5, <2>1 DEF HelperStep, Finishes, TimesOut, Terminate, GracePeriodEnds, KillGroup, Reap, HelperDies
<1>6. ASSUME NEW d \in Directs, StartDirect(d)
      PROVE  ScriptInv' /\ \E l \in Launches : Touches(l)
  BY <1>6, LaunchSound DEF StartDirect
<1>7. ASSUME NEW l \in Launches, LaunchStep(l)
      PROVE  ScriptInv' /\ \E m \in Launches : Touches(m)
  BY <1>7, ScriptSound DEF LaunchStep
<1>8. ASSUME Killing
      PROVE  ScriptInv' /\ \E l \in Launches : Touches(l)
  <2>1. PICK l \in Launches : \E rest \in SUBSET live[l] : Survive(l, rest)
    BY <1>8 DEF Killing
  <2> QED
    BY <1>3, <2>1
<1>9. CASE UNCHANGED vars
  BY <1>4, <1>9 DEF vars
<1> QED
  BY <1>1, <1>5, <1>6, <1>7, <1>8, <1>9 DEF SystemNext

LaunchersInv == LockInv /\ StepInv /\ ScriptInv

\* The invariant of the launches holds throughout.
LEMMA LaunchersHold == Spec => []LaunchersInv
<1>1. Init => ScriptInv
  BY DEF Init, LauncherInit, ScriptInv, LaunchInv, Installing, Replacing, Using, Checked
<1>2. LaunchersInv /\ [SystemNext]_vars => LaunchersInv'
  BY LockInvStep, SystemTouches DEF LaunchersInv
<1> QED
  BY <1>1, <1>2, LockInvInit, PTL DEF Spec, LaunchersInv

\* Nobody installs the distribution again under a launch that has found it whole.
THEOREM DistributionWhole == Spec => []DistributionStaysWhole
<1>1. LaunchersInv => DistributionStaysWhole
  BY DEF LaunchersInv, ScriptInv, LaunchInv, Using, DistributionStaysWhole
<1> QED
  BY <1>1, LaunchersHold, PTL

-----------------------------------------------------------------------------
(* The helpers: what a timeout leaves, and what a verdict rests on *)

\* A helper comes to the end of a timeout only with its group gone.
PhaseInv ==
  /\ phase \in [Helpers -> {"run", "probe", "term", "kill", "reap"}]
  /\ verdict \in [Helpers -> {"none", "PASS", "FAIL", "BLOCKED"}]
  /\ \A h \in Helpers : /\ step[h] = "idle" => phase[h] = "run"
                        /\ phase[h] = "reap" => live[h] = {}

\* Every step keeps the order of a timeout: probe, TERM, KILL, reap.
LEMMA PhaseStep == LaunchersInv /\ PhaseInv /\ [SystemNext]_vars => PhaseInv'
<1> SUFFICES ASSUME LockInv, StepInv, ScriptInv, PhaseInv, [SystemNext]_vars PROVE PhaseInv'
  BY DEF LaunchersInv
<1> USE DEF PhaseInv, Launches, launches, StepInv, Steps
<1>1. ASSUME NEW h \in Helpers, NEW s \in Steps, RunStep(h, s),
             verdict' \in [Helpers -> {"none", "PASS", "FAIL", "BLOCKED"}]
      PROVE  PhaseInv'
  BY <1>1 DEF RunStep, Launch, LockInv
<1>2. ASSUME NEW h \in Helpers, NEW outcome, After(h, outcome) PROVE PhaseInv'
  <2>1. ASSUME NEW v \in {"PASS", "FAIL", "BLOCKED"}, Ends(h, v) PROVE PhaseInv'
    BY <2>1 DEF Ends
  <2> QED
    BY <1>1, <1>2, <2>1, AfterIs
<1>3. ASSUME NEW l \in Launches, NEW rest \in SUBSET live[l], Survive(l, rest)
      PROVE  \A h \in Helpers : live[h] = {} => live'[h] = {}
  BY <1>3 DEF Survive, Left, LockInv
<1>4. ASSUME NEW h \in Helpers, Begin(h) \/ HelperStep(h) \/ HelperDies(h) PROVE PhaseInv'
  <2>1. CASE Begin(h)
    BY <1>1, <2>1 DEF Begin
  <2>2. CASE Finishes(h) \/ Reap(h)
    BY <1>2, <2>2 DEF Finishes, Reap
  <2>3. CASE TimesOut(h) \/ GracePeriodEnds(h) \/ HelperDies(h)
    BY <2>3 DEF TimesOut, GracePeriodEnds, HelperDies, lvars
  <2>4. CASE Terminate(h)
    BY <1>3, <2>4 DEF Terminate
  <2>5. CASE KillGroup(h)
    <3>1. live'[h] = {} /\ \A g \in Helpers : live[g] = {} => live'[g] = {}
      BY <1>3, <2>5 DEF KillGroup, Survive, Left, LockInv
    <3> QED
      BY <2>5, <3>1 DEF KillGroup
  <2> QED
    BY <1>4, <2>1, <2>2, <2>3, <2>4, <2>5 DEF HelperStep
<1>5. ASSUME NEW d \in Directs, StartDirect(d) PROVE PhaseInv'
  BY <1>5, DisjointAssumption DEF StartDirect, Launch, LockInv, helper
<1>6. ASSUME NEW l \in Launches, LaunchStep(l) PROVE PhaseInv'
  <2>1. Touches(l) /\ live[l] # {} /\ UNCHANGED helper
    BY <1>6, ScriptSound, ScriptLives DEF LaunchStep
  <2> QED
    BY <2>1 DEF Touches, helper
<1>7. ASSUME Killing, UNCHANGED helper PROVE PhaseInv'
  <2>1. PICK l \in Launches : \E rest \in SUBSET live[l] : Survive(l, rest)
    BY <1>7 DEF Killing
  <2> QED
    BY <1>3, <1>7, <2>1 DEF helper
<1>8. CASE UNCHANGED vars
  BY <1>8 DEF vars, lvars, helper
<1> QED
  BY <1>4, <1>5, <1>6, <1>7, <1>8 DEF SystemNext

\* The invariant of the timeouts holds throughout.
LEMMA PhaseHolds == Spec => []PhaseInv
<1>1. Init => PhaseInv
  BY DEF Init, PhaseInv
<1> QED
  BY <1>1, PhaseStep, LaunchersHold, PTL DEF Spec

\* When a launch has timed out, its helper goes on only after every process of
\* its group is gone.
THEOREM NobodyLeft == Spec => TimeoutLeavesNobody
<1>1. PhaseInv => \A h \in Helpers : phase[h] = "reap" => live[h] = {}
  BY DEF PhaseInv
<1>2. PhaseInv /\ [SystemNext]_vars
        => [\A h \in Helpers : (phase[h] = "reap" /\ phase'[h] = "run") => live[h] = {}]_vars
  BY <1>1
<1> QED
  BY <1>2, PhaseHolds, PTL DEF Spec, TimeoutLeavesNobody

\* The tool ran, or the launch gave up the lock of the workspace.
Tried(h) == ran[h] \/ exit[h] = "locked"

\* After the capability check a Gradle build needs nothing else that it might be
\* refused: it goes straight to the lock and its tool, or has tried them.
PrimaryInv ==
  \A h \in Helpers : Gradle /\ step[h] = "primary" /\ phase[h] = "run" =>
    /\ setting.ready /\ install = "whole"
    /\ \/ at[h] \in {"settings", "resolve", "workspace", "build"} /\ "shell" \in live[h]
       \/ at[h] \in {"status", "over"} /\ Tried(h)

\* A step of the launch itself, after the capability check, stays on the way to
\* its tool.
LEMMA PrimaryScript ==
  ASSUME LockInv, ScriptInv, PrimaryInv, NEW h \in Helpers, ScriptStep(h), Touches(h),
         Gradle, step[h] = "primary", phase[h] = "run"
  PROVE  \/ at'[h] \in {"settings", "resolve", "workspace", "build"} /\ "shell" \in live'[h]
         \/ at'[h] \in {"status", "over"} /\ Tried(h)'
<1>1. /\ h \in Launches /\ h \notin Directs /\ setting.ready /\ install = "whole"
      /\ \/ at[h] \in {"settings", "resolve", "workspace", "build"} /\ "shell" \in live[h]
         \/ at[h] \in {"status", "over"} /\ Tried(h)
  BY DisjointAssumption DEF PrimaryInv, Launches
<1>2. at \in [Launches -> Points] /\ live \in [Launches -> SUBSET {"shell", "tool"}] /\ ran \in [Launches -> BOOLEAN]
  BY DEF LockInv, ScriptInv
<1>3. CASE CheckSettings(h)
  BY <1>1, <1>2, <1>3 DEF CheckSettings, To, At
<1>4. CASE Resolve(h)
  BY <1>1, <1>2, <1>4 DEF Resolve, To, At
<1>5. CASE EnterFlock(h)
  BY <1>1, <1>2, <1>5 DEF EnterFlock, At
<1>6. CASE LockWorkspace(h)
  BY <1>1, <1>2, <1>6 DEF LockWorkspace, To
<1>7. ASSUME NEW status \in {"ok", "failed"}, ToolEnds(h, status)
      PROVE  at'[h] \in {"status", "over"} /\ Tried(h)'
  BY <1>1, <1>2, <1>7 DEF ToolEnds, Tried
<1>8. CASE PassStatusOn(h)
  <2>1. at'[h] = "over" /\ ran' = ran /\ exit' = exit /\ at[h] = "status"
    BY <1>1, <1>2, <1>8 DEF PassStatusOn, At
  <2> QED
    BY <1>1, <2>1 DEF Tried
<1>9. CASE LockTimesOut(h)
  <2>1. at'[h] = "over" /\ exit'[h] = "locked"
    BY <1>1, <1>2, <1>9 DEF LockTimesOut, ScriptInv
  <2> QED
    BY <2>1 DEF Tried
<1>10. CASE CheckGuard(h) \/ LockDistribution(h) \/ Recheck(h) \/ Fetch(h) \/ Verify(h) \/ Unpack(h)
            \/ Replace(h) \/ Publish(h) \/ Extension(h)
  BY <1>1, <1>10 DEF CheckGuard, LockDistribution, Recheck, Fetch, Verify, Unpack, Replace, Publish,
     Extension, At
<1> QED
  BY <1>3, <1>4, <1>5, <1>6, <1>7, <1>8, <1>9, <1>10 DEF ScriptStep

\* Every step keeps a build that was found capable on the way to its tool.
LEMMA PrimaryStep == LaunchersInv /\ PhaseInv /\ PrimaryInv /\ [SystemNext]_vars => PrimaryInv'
<1> SUFFICES ASSUME LockInv, StepInv, ScriptInv, PhaseInv, PrimaryInv, [SystemNext]_vars,
                    NEW h \in Helpers, Gradle', step'[h] = "primary", phase'[h] = "run"
             PROVE  /\ setting'.ready /\ install' = "whole"
                    /\ \/ at'[h] \in {"settings", "resolve", "workspace", "build"} /\ "shell" \in live'[h]
                       \/ at'[h] \in {"status", "over"} /\ Tried(h)'
  BY DEF LaunchersInv, PrimaryInv
<1> DEFINE Ready == setting'.ready /\ install' = "whole"
           Going == \/ at'[h] \in {"settings", "resolve", "workspace", "build"} /\ "shell" \in live'[h]
                    \/ at'[h] \in {"status", "over"} /\ Tried(h)'
<1>0. h \in Launches /\ h \notin Directs
  BY DisjointAssumption DEF Launches
<1>1. ASSUME NEW l \in Launches, l # h, Touches(l), step'[h] = step[h], phase'[h] = phase[h]
      PROVE  Ready /\ Going
  <2>1. Gradle /\ step[h] = "primary" /\ phase[h] = "run"
    BY <1>1 DEF Touches, Gradle
  <2> QED
    BY <1>0, <1>1, <2>1 DEF Touches, PrimaryInv, Tried
<1>2. ASSUME UNCHANGED <<setting, install, launches>>, step'[h] = step[h], phase'[h] = phase[h]
      PROVE  Ready /\ Going
  BY <1>2 DEF PrimaryInv, Gradle, launches, Tried
<1>3. ASSUME NEW g \in Helpers, Begin(g) PROVE Ready /\ Going
  <2>1. Touches(g) /\ g # h /\ step'[h] = step[h] /\ phase'[h] = phase[h]
    <3>1. Touches(g)
      BY <1>3, LaunchSound DEF Begin, RunStep, Launches, cache
    <3>2. Gradle
      BY <3>1 DEF Touches, Gradle
    <3>3. step'[g] = "capability"
      BY <1>3, <3>2 DEF Begin, RunStep, StepInv
    <3> QED
      BY <1>3, <3>1, <3>3 DEF Begin, RunStep, StepInv, PhaseInv
  <2> QED
    BY <1>1, <2>1 DEF Launches
<1>4. ASSUME NEW g \in Helpers, NEW outcome, After(g, outcome), outcome = "ok" => exit[g] = "ok"
      PROVE  Ready /\ Going
  <2>0. UNCHANGED <<setting, cache, dist>>
    BY <1>4 DEF After
  <2>1. ASSUME NEW v, Ends(g, v) PROVE Ready /\ Going
    <3>1. step'[h] = step[h] /\ phase'[h] = phase[h]
      BY <2>1 DEF Ends, StepInv, PhaseInv
    <3> QED
      BY <1>2, <2>0, <2>1, <3>1 DEF Ends, cache
  <2>2. ASSUME NEW s \in Steps, RunStep(g, s), s = "primary" => outcome = "ok" PROVE Ready /\ Going
    <3>1. Touches(g) /\ at'[g] = "settings" /\ live'[g] = {"shell"} /\ step'[g] = s
      BY <2>0, <2>2, LaunchSound DEF RunStep, Launches, StepInv, cache
    <3>2. CASE g = h
      <4>1. ran[h]
        BY <1>4, <1>0, <2>2, <3>1, <3>2 DEF ScriptInv, LaunchInv
      <4> QED
        BY <1>0, <2>0, <3>1, <3>2, <4>1 DEF ScriptInv, LaunchInv, cache
    <3>3. CASE g # h
      <4>1. step'[h] = step[h] /\ phase'[h] = phase[h]
        BY <2>2, <3>3 DEF RunStep, StepInv, PhaseInv
      <4> QED
        BY <1>1, <3>1, <3>3, <4>1 DEF Launches
    <3> QED
      BY <3>2, <3>3
  <2> QED
    BY <1>4, <2>1, <2>2, AfterIs
<1>5. ASSUME NEW g \in Helpers, HelperStep(g) \/ HelperDies(g) PROVE Ready /\ Going
  <2>1. CASE Finishes(g)
    BY <1>4, <2>1 DEF Finishes
  <2>2. CASE Reap(g)
    BY <1>4, <2>2 DEF Reap
  <2>3. CASE TimesOut(g) \/ GracePeriodEnds(g) \/ HelperDies(g)
    <3>1. step'[h] = step[h] /\ phase'[h] = phase[h]
      BY <2>3 DEF TimesOut, GracePeriodEnds, HelperDies, StepInv, PhaseInv
    <3> QED
      BY <1>2, <2>3, <3>1 DEF TimesOut, GracePeriodEnds, HelperDies, lvars, cache
  <2>4. ASSUME NEW rest \in SUBSET live[g], Survive(g, rest), step' = step,
               phase' = [phase EXCEPT ![g] = "term"] \/ phase' = [phase EXCEPT ![g] = "reap"]
        PROVE  Ready /\ Going
    <3>1. g # h /\ phase'[h] = phase[h]
      BY <2>4 DEF PhaseInv
    <3> QED
      BY <1>1, <2>4, <3>1, SurviveSound DEF Launches
  <2>5. CASE Terminate(g)
    BY <2>4, <2>5 DEF Terminate
  <2>6. CASE KillGroup(g)
    <3>1. {} \in SUBSET live[g]
      OBVIOUS
    <3> QED
      BY <2>4, <2>6, <3>1 DEF KillGroup
  <2> QED
    BY <1>5, <2>1, <2>2, <2>3, <2>5, <2>6 DEF HelperStep
<1>6. ASSUME NEW d \in Directs, StartDirect(d) PROVE Ready /\ Going
  <2>1. Touches(d) /\ d # h /\ d \in Launches /\ UNCHANGED <<step, phase>>
    BY <1>0, <1>6, LaunchSound DEF StartDirect, Launches, helper, cache
  <2> QED
    BY <1>1, <2>1
<1>7. ASSUME NEW l \in Launches, LaunchStep(l) PROVE Ready /\ Going
  <2>1. Touches(l) /\ ScriptStep(l) /\ UNCHANGED <<step, phase>>
    BY <1>7, ScriptSound DEF LaunchStep, helper
  <2>2. CASE l = h
    <3>1. Gradle /\ step[h] = "primary" /\ phase[h] = "run"
      BY <2>1 DEF Touches, Gradle
    <3>2. Going
      BY <2>1, <2>2, <3>1, PrimaryScript
    <3>3. Ready
      BY <2>1, <3>1 DEF PrimaryInv, Touches
    <3> QED
      BY <3>2, <3>3
  <2>3. CASE l # h
    BY <1>1, <2>1, <2>3
  <2> QED
    BY <2>2, <2>3
<1>8. ASSUME Killing, UNCHANGED helper PROVE Ready /\ Going
  <2>1. CASE \E l \in Launches : l # h /\ \E rest \in SUBSET live[l] : Survive(l, rest)
    <3>1. PICK l \in Launches : l # h /\ \E rest \in SUBSET live[l] : Survive(l, rest)
      BY <2>1
    <3>2. Touches(l)
      BY <3>1, SurviveSound
    <3> QED
      BY <1>1, <1>8, <3>1, <3>2 DEF helper
  <2>2. CASE Building(h) /\ Survive(h, live[h] \ {"tool"})
    <3>1. live[h] \ {"tool"} \in SUBSET live[h]
      OBVIOUS
    <3>2. Touches(h)
      BY <1>0, <2>2, <3>1, SurviveSound
    <3>3. Gradle /\ step[h] = "primary" /\ phase[h] = "run"
      BY <1>8, <3>2 DEF Touches, Gradle, helper
    <3>4. ran'[h] /\ at'[h] \in {"status", "over"}
      BY <1>0, <2>2 DEF Survive, Building, LockInv, ScriptInv
    <3> QED
      BY <3>2, <3>3, <3>4 DEF PrimaryInv, Touches, Tried
  <2>3. CASE \E d \in Directs : \E rest \in SUBSET live[d] : Survive(d, rest)
    BY <1>0, <2>1, <2>3 DEF Launches
  <2>4. CASE \E g \in Helpers : g # h /\ Survive(g, live[g] \ {"tool"})
    BY <2>1, <2>4 DEF Launches
  <2> QED
    BY <1>8, <2>2, <2>3, <2>4 DEF Killing
<1>9. CASE UNCHANGED vars
  BY <1>2, <1>9 DEF vars, lvars, cache, helper
<1> QED
  BY <1>3, <1>5, <1>6, <1>7, <1>8, <1>9 DEF SystemNext

\* The invariant of the primary builds holds throughout.
LEMMA PrimaryHolds == Spec => []PrimaryInv
<1>1. Init => PrimaryInv
  BY DEF Init, PrimaryInv
<1> QED
  BY <1>1, PrimaryStep, PhaseHolds, LaunchersHold, PTL DEF Spec

\* A verdict that is given follows a tool that ran or was not let in, a PASS the
\* former.
LEMMA EarnedStep ==
  ASSUME LaunchersInv, PhaseInv, PrimaryInv, [SystemNext]_vars,
         NEW h \in Helpers, verdict[h] = "none", verdict'[h] \in {"PASS", "FAIL"}
  PROVE  Tried(h) /\ (verdict'[h] = "PASS" => ran[h])
<1> DEFINE Earned == Tried(h) /\ (verdict'[h] = "PASS" => ran[h])
<1> USE DEF LaunchersInv
<1>1. h \in Launches
  BY DEF Launches
<1>2. ASSUME NEW outcome, After(h, outcome), outcome = "timeout" \/ (Finishes(h) /\ outcome = exit[h])
      PROVE  Earned
  <2>1. CASE outcome = "ok"
    BY <1>1, <1>2, <2>1 DEF ScriptInv, LaunchInv, Tried
  <2>2. CASE outcome # "ok"
    <3>1. Gradle /\ step[h] = "primary" /\ outcome # "timeout"
      <4>1. ASSUME NEW v, Ends(h, v) PROVE v \in {"PASS", "FAIL"}
        BY <4>1 DEF Ends, PhaseInv
      <4>2. ASSUME verdict' = verdict PROVE FALSE
        BY <4>2
      <4>3. CASE step[h] = "capability"
        BY <1>2, <2>2, <4>1, <4>3 DEF After, Capability
      <4>4. CASE step[h] = "primary" /\ ~Gradle
        BY <1>2, <2>2, <4>1, <4>4 DEF After, MavenPrimary
      <4>5. CASE step[h] = "primary" /\ outcome = "timeout"
        BY <1>2, <4>1, <4>2, <4>5 DEF After, GradlePrimary, MavenPrimary
      <4>6. CASE step[h] \notin {"capability", "primary"}
        BY <1>2, <4>1, <4>2, <4>6 DEF After, Diagnose
      <4> QED
        BY <4>3, <4>4, <4>5, <4>6
    <3>2. phase[h] = "run" /\ live[h] = {}
      BY <1>2, <3>1 DEF Finishes, Returned
    <3>3. verdict'[h] # "PASS"
      BY <1>2, <2>2, <3>1 DEF After, GradlePrimary, Ends, PhaseInv
    <3> QED
      BY <3>1, <3>2, <3>3 DEF PrimaryInv
  <2> QED
    BY <2>1, <2>2
<1>3. ASSUME NEW g \in Helpers, NEW outcome, g # h, After(g, outcome) PROVE FALSE
  <2>1. ASSUME NEW v, Ends(g, v) PROVE FALSE
    BY <1>3, <2>1 DEF Ends, PhaseInv
  <2> QED
    BY <1>3, <2>1, AfterIs
<1>4. ASSUME NEW g \in Helpers, Begin(g) \/ HelperStep(g) \/ HelperDies(g) PROVE Earned
  <2>1. CASE Begin(g)
    BY <2>1 DEF Begin, PhaseInv
  <2>2. CASE Finishes(g)
    BY <1>2, <1>3, <2>2 DEF Finishes
  <2>3. CASE Reap(g)
    BY <1>2, <1>3, <2>3 DEF Reap
  <2>4. CASE TimesOut(g) \/ Terminate(g) \/ GracePeriodEnds(g) \/ KillGroup(g) \/ HelperDies(g)
    BY <2>4 DEF TimesOut, Terminate, GracePeriodEnds, KillGroup, HelperDies
  <2> QED
    BY <1>4, <2>1, <2>2, <2>3, <2>4 DEF HelperStep
<1>5. ASSUME NEW d \in Directs, StartDirect(d) PROVE FALSE
  BY <1>5 DEF StartDirect, helper
<1>6. CASE UNCHANGED helper
  BY <1>6 DEF helper
<1>7. CASE UNCHANGED vars
  BY <1>7 DEF vars, helper
<1> QED
  BY <1>4, <1>5, <1>6, <1>7 DEF SystemNext, LaunchStep

\* A PASS is that of a build that ran to its end, and so is a FAIL unless the
\* launch gave up the lock of the workspace; no other refusal and no timeout
\* earns one.
THEOREM VerdictEarned == Spec => VerdictIsEarned
<1>1. LaunchersInv /\ PhaseInv /\ PrimaryInv /\ [SystemNext]_vars
        => [\A h \in Helpers : verdict[h] = "none" =>
              /\ verdict'[h] = "PASS" => ran[h]
              /\ verdict'[h] = "FAIL" => ran[h] \/ exit[h] = "locked"]_vars
  BY EarnedStep DEF Tried
<1> QED
  BY <1>1, LaunchersHold, PhaseHolds, PrimaryHolds, PTL DEF Spec, VerdictIsEarned

-----------------------------------------------------------------------------
(* The blocked session *)

\* While the session is blocked the marker is there, and its direct launches
\* that began since then are in front of it or were turned away.
Turned(d) == at[d] \in {"guard", "over"} /\ "tool" \notin live[d]

QuietInv ==
  /\ late \subseteq Directs \intersect setting.session /\ (late # {} => quiet)
  /\ quiet /\ Gradle => guard
  /\ Gradle => \A d \in late : Turned(d)

\* A late launch stays in front of the guard, or is turned away there.
LEMMA TurnedAway ==
  ASSUME LaunchersInv, PhaseInv, QuietInv, [SystemNext]_vars, Gradle, NEW d \in late
  PROVE  Turned(d)'
<1> USE DEF LaunchersInv, Launches
<1>1. d \in Directs /\ d \notin Helpers /\ d \in Launches /\ Turned(d) /\ guard /\ InSession(d)
  BY DisjointAssumption DEF QuietInv, InSession
<1>2. ASSUME NEW l \in Launches, l # d, Touches(l) PROVE Turned(d)'
  BY <1>1, <1>2 DEF Touches, Turned
<1>3. ASSUME UNCHANGED launches PROVE Turned(d)'
  BY <1>1, <1>3 DEF Turned, launches
<1>4. ASSUME NEW l \in Launches, NEW rest \in SUBSET live[l], Survive(l, rest) PROVE Turned(d)'
  <2>1. CASE l = d
    BY <1>1, <1>4, <2>1 DEF Survive, Left, Turned, LockInv
  <2>2. CASE l # d
    BY <1>2, <1>4, <2>2, SurviveSound
  <2> QED
    BY <2>1, <2>2
<1>5. ASSUME NEW h \in Helpers, NEW outcome, After(h, outcome) PROVE Turned(d)'
  <2>1. ASSUME NEW v, Ends(h, v) PROVE Turned(d)'
    BY <1>3, <2>1 DEF Ends
  <2>2. ASSUME NEW s, RunStep(h, s) PROVE Turned(d)'
    BY <1>1, <1>2, <1>5, <2>2, LaunchSound DEF RunStep, After, cache
  <2> QED
    BY <1>5, <2>1, <2>2, AfterIs
<1>6. ASSUME NEW h \in Helpers, Begin(h) \/ HelperStep(h) \/ HelperDies(h) PROVE Turned(d)'
  <2>1. CASE Begin(h)
    BY <1>1, <1>2, <2>1, LaunchSound DEF Begin, RunStep, cache
  <2>2. CASE Finishes(h) \/ Reap(h)
    BY <1>5, <2>2 DEF Finishes, Reap
  <2>3. CASE TimesOut(h) \/ GracePeriodEnds(h) \/ HelperDies(h)
    BY <1>3, <2>3 DEF TimesOut, GracePeriodEnds, HelperDies, lvars
  <2>4. CASE Terminate(h) \/ KillGroup(h)
    <3>1. {} \in SUBSET live[h]
      OBVIOUS
    <3> QED
      BY <1>4, <2>4, <3>1 DEF Terminate, KillGroup
  <2> QED
    BY <1>6, <2>1, <2>2, <2>3, <2>4 DEF HelperStep
<1>7. ASSUME NEW e \in Directs, StartDirect(e) PROVE Turned(d)'
  <2>1. Touches(e) /\ at'[e] = "guard" /\ live'[e] = {"shell"}
    BY <1>7, LaunchSound DEF StartDirect, cache
  <2> QED
    BY <1>2, <2>1 DEF Turned
<1>8. ASSUME NEW l \in Launches, LaunchStep(l) PROVE Turned(d)'
  <2>1. CASE l = d
    <3>1. CheckGuard(d)
      <4>1. at[d] \in {"guard", "over"} /\ "tool" \notin live[d] /\ ScriptStep(d)
        BY <1>1, <1>8, <2>1 DEF Turned, LaunchStep
      <4>2. ASSUME NEW status, ToolEnds(d, status) PROVE FALSE
        BY <4>1, <4>2 DEF ToolEnds, Building
      <4> QED
        BY <4>1, <4>2 DEF ScriptStep, CheckSettings, Resolve, LockDistribution, Recheck, Fetch, Verify,
           Unpack, Replace, Publish, EnterFlock, LockWorkspace, LockTimesOut, Extension, PassStatusOn, At
    <3>2. Exit(d, "failed")
      BY <1>1, <3>1 DEF CheckGuard, Refuse
    <3> QED
      BY <1>1, <3>2 DEF Exit, Left, Turned, LockInv
  <2>2. CASE l # d
    BY <1>2, <1>8, <2>2, ScriptSound DEF LaunchStep
  <2> QED
    BY <2>1, <2>2
<1>9. ASSUME Killing PROVE Turned(d)'
  <2>1. PICK l \in Launches : \E rest \in SUBSET live[l] : Survive(l, rest)
    BY <1>9 DEF Killing
  <2> QED
    BY <1>4, <2>1
<1>10. CASE UNCHANGED vars
  BY <1>3, <1>10 DEF vars, lvars
<1> QED
  BY <1>6, <1>7, <1>8, <1>9, <1>10 DEF SystemNext

\* Every step keeps a blocked session quiet.
LEMMA QuietStep == LaunchersInv /\ PhaseInv /\ QuietInv /\ [SystemNext]_vars => QuietInv'
<1> SUFFICES ASSUME LaunchersInv, PhaseInv, QuietInv, [SystemNext]_vars PROVE QuietInv'
  OBVIOUS
<1> USE DEF LaunchersInv, Launches
<1>0. (\E l \in Launches : Touches(l)) \/ UNCHANGED <<at, live, exit, ran, install, setting>>
  BY SystemTouches
<1>1. (Gradle' <=> Gradle) /\ setting' = setting
  BY <1>0 DEF Touches, Gradle
<1>2. ASSUME late' \subseteq late, late' # {} => quiet', quiet' /\ Gradle => guard' PROVE QuietInv'
  BY <1>1, <1>2, TurnedAway DEF QuietInv
<1>3. ASSUME NEW h \in Helpers, NEW outcome, After(h, outcome) PROVE QuietInv'
  <2>1. ASSUME NEW v, Ends(h, v) PROVE QuietInv'
    <3>1. CASE InSession(h)
      BY <1>2, <2>1, <3>1 DEF Ends, QuietInv
    <3>2. CASE ~InSession(h)
      BY <1>2, <2>1, <3>2 DEF Ends, QuietInv, history
    <3> QED
      BY <3>1, <3>2
  <2>2. ASSUME UNCHANGED <<guard, quiet, late>> PROVE QuietInv'
    BY <1>2, <2>2 DEF QuietInv
  <2> QED
    BY <1>3, <2>1, <2>2, AfterIs DEF history
<1>4. ASSUME UNCHANGED <<guard, quiet, late>> PROVE QuietInv'
  BY <1>2, <1>4 DEF QuietInv
<1>5. ASSUME NEW h \in Helpers, Begin(h) \/ HelperStep(h) \/ HelperDies(h) PROVE QuietInv'
  <2>1. CASE Begin(h)
    <3>1. CASE InSession(h)
      BY <1>2, <2>1, <3>1 DEF Begin, QuietInv
    <3>2. CASE ~InSession(h)
      BY <1>2, <2>1, <3>2 DEF Begin, QuietInv, history
    <3> QED
      BY <3>1, <3>2
  <2>2. CASE Finishes(h) \/ Reap(h)
    BY <1>3, <2>2 DEF Finishes, Reap
  <2>3. CASE TimesOut(h) \/ GracePeriodEnds(h) \/ HelperDies(h) \/ Terminate(h) \/ KillGroup(h)
    BY <1>4, <2>3 DEF TimesOut, GracePeriodEnds, HelperDies, Terminate, KillGroup, Survive, lvars, history
  <2> QED
    BY <1>5, <2>1, <2>2, <2>3 DEF HelperStep
<1>6. ASSUME NEW d \in Directs, StartDirect(d) PROVE QuietInv'
  <2>1. at'[d] = "guard" /\ live'[d] = {"shell"}
    BY <1>6, LaunchSound DEF StartDirect, cache
  <2>2. late' \subseteq late \union {d} /\ (late' # late => quiet /\ d \in setting.session)
        /\ UNCHANGED <<quiet, guard>>
    BY <1>6 DEF StartDirect, InSession
  <2>3. Turned(d)'
    BY <2>1 DEF Turned
  <2> QED
    BY <1>1, <2>2, <2>3, TurnedAway DEF QuietInv
<1>7. ASSUME NEW l \in Launches, LaunchStep(l) PROVE QuietInv'
  <2>1. guard' = guard
    BY <1>7 DEF LaunchStep, ScriptStep, CheckGuard, CheckSettings, Resolve, LockDistribution,
       Recheck, Fetch, Verify, Unpack, Replace, Publish, EnterFlock, LockWorkspace,
       LockTimesOut, Extension, PassStatusOn, ToolEnds, Refuse
  <2> QED
    BY <1>4, <1>7, <2>1 DEF LaunchStep, history
<1>8. CASE Killing /\ UNCHANGED history
  BY <1>4, <1>8 DEF Killing, Survive, history
<1>9. CASE UNCHANGED vars
  BY <1>4, <1>9 DEF vars, lvars, history
<1> QED
  BY <1>5, <1>6, <1>7, <1>8, <1>9 DEF SystemNext

\* Once a verification of the session has ended BLOCKED, no direct launch of the
\* session that begins builds with Gradle before another verification of the
\* session has begun.
THEOREM BlockedIsQuiet == Spec => BlockedSessionIsQuiet
<1>1. Init => QuietInv
  BY DEF Init, LauncherInit, QuietInv
<1>2. Spec => []QuietInv
  BY <1>1, QuietStep, LaunchersHold, PhaseHolds, PTL DEF Spec
<1>3. LaunchersInv /\ PhaseInv /\ QuietInv /\ [SystemNext]_vars
        => [\A d \in late : (quiet /\ Gradle) => ~(~Building(d) /\ Building(d)')]_vars
  BY TurnedAway DEF Turned, Building
<1> QED
  BY <1>2, <1>3, LaunchersHold, PhaseHolds, PTL DEF Spec, BlockedSessionIsQuiet
=============================================================================
