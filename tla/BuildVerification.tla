--------------------------- MODULE BuildVerification ---------------------------
(***************************************************************************)
(* gradle_verification.py and maven_verification.py: a helper runs its     *)
(* launches one after the other, each in a process group of its own and    *)
(* for a bounded time (process_execution.py).                              *)
(*                                                                         *)
(*   Maven   primary                                                       *)
(*   Gradle  capability, primary; if the primary times out, online and     *)
(*           offline help and perhaps a dry run, to tell why               *)
(*                                                                         *)
(* A Gradle verification of a session that ends BLOCKED leaves a marker    *)
(* that stops its direct launches, until its next verification.  Without   *)
(* a task id and a session id there is no marker; the model has one        *)
(* session, and launches outside it.                                       *)
(* Time is abstracted: a timeout may come at any moment, a bounded wait    *)
(* may end at any moment.  SIGTERM may be ignored, SIGKILL may not.        *)
(***************************************************************************)
EXTENDS BuildLauncher

CONSTANT MaxRuns  \* bound: verifications and direct launches in a behaviour

ASSUME RunsAssumption == MaxRuns \in Nat

VARIABLES
  step,     \* the launch each helper is at, "idle" between verifications
  phase,    \* of that launch: "run", then on a timeout "probe", "term", "kill", "reap"
  online,   \* whether the online help succeeded
  verdict,  \* of the helper's last verification
  runs,     \* verifications and direct launches so far
  quiet,    \* history: the last verification of the session to end was
            \* BLOCKED, and none of the session has begun since
  late      \* history: its direct launches that began while it has been quiet

helper  == <<step, phase, online, verdict>>
history == <<quiet, late>>
vars    == <<lvars, helper, runs, history>>

Steps == {"capability", "primary", "online", "offline", "dry"}

Init ==
  /\ LauncherInit
  /\ step = [h \in Helpers |-> "idle"] /\ phase = [h \in Helpers |-> "run"]
  /\ online = [h \in Helpers |-> FALSE] /\ verdict = [h \in Helpers |-> "none"]
  /\ runs = 0 /\ quiet = FALSE /\ late = {}

TypeOK ==
  /\ LauncherTypeOK
  /\ step \in [Helpers -> Steps \union {"idle"}]
  /\ phase \in [Helpers -> {"run", "probe", "term", "kill", "reap"}]
  /\ verdict \in [Helpers -> {"none", "PASS", "FAIL", "BLOCKED"}]
  /\ \A h \in Helpers : step[h] # "idle" => at[h] # "off"

-----------------------------------------------------------------------------
\* A helper's launches carry HERMES_GRADLE_BOUNDED_HELPER, which the guard lets
\* through.
RunStep(h, s) ==
  /\ Launch(h, "settings")
  /\ step' = [step EXCEPT ![h] = s] /\ phase' = [phase EXCEPT ![h] = "run"]

Begin(h) ==
  /\ step[h] = "idle" /\ live[h] = {} /\ runs < MaxRuns
  /\ runs' = runs + 1
  /\ guard' = IF Gradle /\ InSession(h) THEN FALSE ELSE guard
  /\ RunStep(h, IF Gradle THEN "capability" ELSE "primary")
  /\ verdict' = [verdict EXCEPT ![h] = "none"]
  /\ IF InSession(h) THEN quiet' = FALSE /\ late' = {} ELSE UNCHANGED history
  /\ UNCHANGED <<setting, cache, dist, ws, online>>

StartDirect(d) ==
  /\ live[d] = {} /\ runs < MaxRuns
  /\ runs' = runs + 1
  /\ Launch(d, "guard")
  /\ late' = IF quiet /\ InSession(d) THEN late \union {d} ELSE late
  /\ UNCHANGED <<setting, cache, dist, ws, guard, helper, quiet>>

\* The verification ends; the session's marker is written or removed with it.
Ends(h, v) ==
  /\ verdict' = [verdict EXCEPT ![h] = v]
  /\ step' = [step EXCEPT ![h] = "idle"] /\ phase' = [phase EXCEPT ![h] = "run"]
  /\ guard' = IF Gradle /\ InSession(h) THEN v = "BLOCKED" ELSE guard
  /\ IF InSession(h) THEN quiet' = (v = "BLOCKED") /\ late' = IF v = "BLOCKED" THEN late ELSE {}
                     ELSE UNCHANGED history
  /\ UNCHANGED <<launches, online>>

\* What follows a launch that ended with the given outcome: "ok", "failed" or
\* "timeout".
CapabilityMutant(h, outcome) ==  \* mutant: a failed capability check is passed over
  IF outcome # "timeout" THEN RunStep(h, "primary") /\ UNCHANGED <<guard, verdict, online, history>>
                         ELSE Ends(h, "BLOCKED")

Capability(h, outcome) ==
  IF outcome = "ok" THEN RunStep(h, "primary") /\ UNCHANGED <<guard, verdict, online, history>>
                    ELSE Ends(h, "BLOCKED")

GradlePrimary(h, outcome) ==
  CASE outcome = "timeout" -> RunStep(h, "online") /\ UNCHANGED <<guard, verdict, online, history>>
    [] outcome = "ok"      -> Ends(h, "PASS")
    [] OTHER               -> Ends(h, "FAIL")

MavenPrimary(h, outcome) == Ends(h, IF outcome = "ok" THEN "PASS" ELSE "BLOCKED")

\* classify_timeout: only after a successful online help is it a task that
\* took too long, and worth a dry run.
Diagnose(h, outcome) ==
  CASE step[h] = "online" ->
         /\ online' = [online EXCEPT ![h] = (outcome = "ok")]
         /\ RunStep(h, "offline") /\ UNCHANGED <<guard, verdict, history>>
    [] step[h] = "offline" /\ online[h] ->
         RunStep(h, "dry") /\ UNCHANGED <<guard, verdict, online, history>>
    [] OTHER -> Ends(h, "BLOCKED")

After(h, outcome) ==
  /\ CASE step[h] = "capability" -> Capability(h, outcome)
       [] step[h] = "primary"    -> IF Gradle THEN GradlePrimary(h, outcome) ELSE MavenPrimary(h, outcome)
       [] OTHER                  -> Diagnose(h, outcome)
  /\ UNCHANGED <<setting, cache, dist, ws, runs>>

-----------------------------------------------------------------------------
\* run_capture waits for the leader and for the end of its output, which every
\* process of the group has open; run_to_stream waits for the leader alone.
Returned(h) == IF Gradle THEN live[h] = {} ELSE "shell" \notin live[h]

Finishes(h) ==
  /\ step[h] # "idle" /\ phase[h] = "run" /\ Returned(h)
  /\ After(h, exit[h])

\* The timeout: the processes and their threads are looked at first, which
\* takes a while; the launch may end meanwhile and has timed out all the same.
TimesOut(h) ==
  /\ step[h] # "idle" /\ phase[h] = "run" /\ ~Returned(h)
  /\ phase' = [phase EXCEPT ![h] = "probe"]
  /\ UNCHANGED <<lvars, step, online, verdict, runs, history>>

\* SIGTERM to the group; a process may ignore it, the leader may be the first
\* to go.
Terminate(h) ==
  /\ phase[h] = "probe"
  /\ \E rest \in SUBSET live[h] : Survive(h, rest)
  /\ phase' = [phase EXCEPT ![h] = "term"]
  /\ UNCHANGED <<step, online, verdict, runs, history>>

GracePeriodEndsMutant(h) ==  \* mutant: the wait is over when the leader is gone
  /\ phase[h] = "term"
  /\ phase' = [phase EXCEPT ![h] = IF "shell" \in live[h] THEN "kill" ELSE "reap"]
  /\ UNCHANGED <<lvars, step, online, verdict, runs, history>>

\* The bounded wait ends early if the whole group is gone.
GracePeriodEnds(h) ==
  /\ phase[h] = "term"
  /\ phase' = [phase EXCEPT ![h] = IF live[h] # {} THEN "kill" ELSE "reap"]
  /\ UNCHANGED <<lvars, step, online, verdict, runs, history>>

KillGroupMutant(h) ==  \* mutant: waits for the group to go instead of killing it
  /\ phase[h] = "kill" /\ live[h] = {}
  /\ phase' = [phase EXCEPT ![h] = "reap"]
  /\ UNCHANGED <<lvars, step, online, verdict, runs, history>>

KillGroup(h) ==
  /\ phase[h] = "kill"
  /\ Survive(h, {})
  /\ phase' = [phase EXCEPT ![h] = "reap"]
  /\ UNCHANGED <<step, online, verdict, runs, history>>

\* The leader is waited for, for a bounded time; then the rest of the output.
Reap(h) ==
  /\ phase[h] = "reap" /\ (Gradle => live[h] = {})
  /\ After(h, "timeout")

\* The helper is killed: its group is left to itself.
HelperDies(h) ==
  /\ step[h] # "idle"
  /\ step' = [step EXCEPT ![h] = "idle"] /\ phase' = [phase EXCEPT ![h] = "run"]
  /\ UNCHANGED <<lvars, online, verdict, runs, history>>

\* What happens to processes: a direct launch may be killed in part, the tool
\* of a helper's launch by the system.
Killing ==
  \/ \E d \in Directs : \E rest \in SUBSET live[d] : rest # live[d] /\ Survive(d, rest)
  \/ \E h \in Helpers : Building(h) /\ Survive(h, live[h] \ {"tool"})

LaunchStep(l) == ScriptStep(l) /\ UNCHANGED <<helper, runs, history>>

HelperStep(h) ==
  \/ Finishes(h) \/ TimesOut(h) \/ Terminate(h)
  \/ GracePeriodEnds(h) \/ KillGroup(h) \/ Reap(h)

SystemNext ==
  \/ \E h \in Helpers : Begin(h) \/ HelperStep(h) \/ HelperDies(h)
  \/ \E d \in Directs : StartDirect(d)
  \/ \E l \in Launches : LaunchStep(l)
  \/ Killing /\ UNCHANGED <<helper, runs, history>>

\* The helpers run; nothing is assumed of the launches.
Spec == Init /\ [][SystemNext]_vars /\ \A h \in Helpers : WF_vars(HelperStep(h))

-----------------------------------------------------------------------------
\* When a launch has timed out, the helper goes on only after every process of
\* its group is gone, even if the leader was the first to exit.
TimeoutLeavesNobody ==
  [][ \A h \in Helpers : (phase[h] = "reap" /\ phase'[h] = "run") => live[h] = {} ]_vars

\* A PASS is that of a build which ran to its end.  So is a FAIL, or else the
\* launch gave up the lock of the workspace: nothing else by which a launch can
\* be refused is taken for a failed build.
VerdictIsEarned ==
  [][ \A h \in Helpers : verdict[h] = "none" =>
        /\ verdict'[h] = "PASS" => ran[h]
        /\ verdict'[h] = "FAIL" => ran[h] \/ exit[h] = "locked" ]_vars

\* Once a verification of the session has ended BLOCKED, no direct launch of the
\* session that begins builds with Gradle before another verification of the
\* session has begun; what is verified outside it changes nothing.
BlockedSessionIsQuiet ==
  [][ \A d \in late : (quiet /\ Gradle) => ~(~Building(d) /\ Building(d)') ]_vars

\* Every verification ends, also when its processes hang and ignore SIGTERM.
EveryVerificationEnds ==
  \A h \in Helpers : step[h] # "idle" ~> step[h] = "idle"
==============================================================================
