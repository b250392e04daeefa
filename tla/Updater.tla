------------------------------- MODULE Updater -------------------------------
(***************************************************************************)
(* update-devkit.ps1: brings the checkout up to date, plans the migration  *)
(* read-only, builds the image, plans again, stops the container, plans a  *)
(* third time, recreates the container with its mounts and looks whether   *)
(* it has come up.                                                         *)
(*                                                                         *)
(*   checkout (-> restart) -> compose -> plan-old -> build -> plan-new     *)
(*     -> stop -> plan-stopped -> recreate -> inspect -> wait -> status    *)
(*     -> runtime -> services -> ready (-> rescanned) -> contract          *)
(*     -> publish -> passed                                                *)
(*                                                                         *)
(* Meanwhile the container boots, migrates and starts its gateway          *)
(* (GatewayReadiness), and people edit the configuration and .env, create  *)
(* profiles, start tasks, stop and start the container, all of it at any   *)
(* moment.  The boot and its migration are those of BootGate and           *)
(* AtomicMigration with their inner steps left out.  A checkout is which   *)
(* updater script it has; the mounts are the volume /opt/data is on and    *)
(* whether there is a further mount; time is not seen, so that a bounded   *)
(* wait may end at any moment.                                             *)
(***************************************************************************)
EXTENDS GatewayReadiness

VARIABLES
  up,         \* where the updater is
  pull,       \* it may fetch: not -NoPull
  verify,     \* it verifies the runtime: not -SkipVerify
  checkout,   \* the updater script in the checkout
  script,     \* the one that runs, "none" if none does
  boot,       \* the container: "none", or how far its boot is
  notifier,   \* whether its notifier service runs
  migrated,   \* whether config.yaml has the managed values, and no overlay
  phase,      \* the migration: "settled", "open", or "stranded"
  tasks,      \* whether a board has a running or a review task
  mounts,     \* the container's mounts
  before,     \* the mounts the updater found, if it found a container
  meddled,    \* history: others have made a plan fail that passed
  shown       \* history: what the new container has shown so far

updater   == <<up, pull, verify, script, before>>
services  == <<gateway, notifier>>
volume    == <<migrated, roles, phase, tasks>>
container == <<boot, services, mounts>>
history   == <<meddled, shown>>
vars      == <<updater, checkout, container, volume, record, history>>

Mounts == [data : {"own", "other"}, extra : BOOLEAN]

Idle  == {"idle", "passed", "failed"}
Waits == {"wait", "ready", "rescanned"}

Up == boot \notin {"none", "off", "halted"}

\* build_plan: no migration was cut short, and no task keeps one from starting.
Work      == ~migrated \/ roles
PlanValid == phase = "settled" /\ (Work => ~tasks)

Init ==
  /\ up = "idle" /\ pull = FALSE /\ verify = FALSE /\ before = {}
  /\ checkout = "old" /\ script = "none"
  /\ boot \in {"none", "off"} /\ gateway = FALSE /\ notifier = FALSE
  /\ migrated \in BOOLEAN /\ roles \in BOOLEAN /\ tasks = FALSE
  /\ phase \in {"settled", "stranded"}
  /\ mounts = [data |-> "own", extra |-> FALSE]
  /\ record \in Records
  /\ meddled = FALSE /\ shown = {}

-----------------------------------------------------------------------------
(* The boot *)

BootPlans ==
  /\ boot = "start"
  /\ \/ PlanValid /\ ~Work /\ boot' = "services" /\ UNCHANGED phase
     \/ PlanValid /\ Work /\ boot' = "migrate" /\ phase' = "open"
     \/ boot' = "failing" /\ UNCHANGED phase
  /\ UNCHANGED <<services, migrated, roles>>

\* It commits, rolls back, or cannot even do that.
BootMigrates ==
  /\ boot = "migrate"
  /\ \/ boot' = "services" /\ phase' = "settled" /\ migrated' = TRUE /\ roles' = FALSE
     \/ boot' = "failing" /\ phase' \in {"settled", "stranded"} /\ UNCHANGED <<migrated, roles>>
  /\ UNCHANGED services

BootServes ==
  /\ boot = "services"
  /\ \/ boot' = "up" /\ gateway' = TRUE /\ notifier' = TRUE
     \/ boot' = "failing" /\ gateway' \in BOOLEAN /\ notifier' \in BOOLEAN
  /\ UNCHANGED <<migrated, roles, phase>>

BootHalts ==
  /\ boot = "failing"
  /\ boot' = "halted" /\ gateway' = FALSE /\ notifier' = FALSE
  /\ UNCHANGED <<migrated, roles, phase>>

BootStep == BootPlans \/ BootMigrates \/ BootServes \/ BootHalts

\* The container is stopped or replaced, whatever it is doing.
Killed ==
  /\ gateway' = FALSE /\ notifier' = FALSE
  /\ phase' = IF phase = "open" THEN "stranded" ELSE phase

-----------------------------------------------------------------------------
(* The updater *)

Go(where) == up' = where

\* A step that touches the updater's own place alone.
Looks == UNCHANGED <<pull, verify, script, before, checkout, container,
                     volume, record>>

\* Its local state goes with the process.
Leaves(how) ==
  Go(how) /\ pull' = FALSE /\ verify' = FALSE /\ script' = "none" /\ before' = {}

Ends(how) ==
  /\ Leaves(how)
  /\ UNCHANGED <<checkout, container, volume, record>>

StartUpdate ==
  /\ up \in Idle
  /\ Go("checkout")
  /\ pull' \in BOOLEAN /\ verify' \in BOOLEAN
  /\ script' = checkout /\ before' = {}
  /\ UNCHANGED <<checkout, container, volume, record>>

FastForward ==
  /\ up = "checkout"
  /\ checkout' \in IF pull THEN {checkout, "new"} ELSE {checkout}
  /\ Go(IF checkout' = checkout THEN "compose" ELSE "restart")
  /\ pull' = FALSE
  /\ UNCHANGED <<verify, script, before, container, volume, record>>

\* The fast-forward brought another updater: that one starts over, with -NoPull.
RestartUpdater ==
  /\ up = "restart"
  /\ script' = checkout /\ Go("checkout")
  /\ UNCHANGED <<pull, verify, before, checkout, container, volume, record>>

\* The mounts compose.yml and .env ask for now, .env being edited at any time.
\* Nobody points the first container elsewhere.
Asked == {m \in Mounts : before = {} => m.data = "own"}

\* The mounts of an existing container are pinned by an override, unless
\* Compose asks for one it does not have.
PinMounts ==
  /\ up = "compose" /\ boot # "none"
  /\ \E asked \in Asked : asked.extra => mounts.extra
  /\ before' = {mounts}
  /\ Go("plan-old")
  /\ UNCHANGED <<pull, verify, script, checkout, container, volume, record>>

NothingToPin == up = "compose" /\ boot = "none" /\ Go("build") /\ Looks

\* The plan of the migration, in a throw-away container that has the volumes of
\* the existing one read-only.
PlanFrom(point, next) == up = point /\ PlanValid /\ Go(next) /\ Looks

PlanOld == PlanFrom("plan-old", "build")

\* The image of the container is gone: the plan waits for the new one.
NoImageForPlan == up = "plan-old" /\ Go("build") /\ Looks

Build ==
  /\ up = "build"
  /\ Go(IF before = {} THEN "recreate" ELSE "plan-new") /\ Looks

PlanNew == PlanFrom("plan-new", "stop")

StopContainer ==
  /\ up = "stop"
  /\ boot' = "off" /\ Killed /\ RecordOutlives
  /\ Go("plan-stopped")
  /\ UNCHANGED <<pull, verify, script, before, checkout, mounts, migrated,
                 roles, tasks>>

PlanStoppedMutant ==  \* mutant: no plan after the stop
  up = "plan-stopped" /\ Go("recreate") /\ Looks

PlanStopped == PlanFrom("plan-stopped", "recreate")

\* Compose merges the override into what it reads now, mount by mount.
NewMountsMutant(asked) == asked  \* mutant: up without the override

NewMounts(asked) ==
  IF before = {} THEN asked
  ELSE LET pinned == CHOOSE m \in before : TRUE
       IN  [data |-> pinned.data, extra |-> pinned.extra \/ asked.extra]

\* up -d --force-recreate, ...
Recreate ==
  /\ up = "recreate"
  /\ \E asked \in Asked : mounts' = NewMounts(asked)
  /\ Killed /\ RecordOutlives
  /\ boot' = "start" /\ Go("inspect")
  /\ UNCHANGED <<pull, verify, script, before, checkout, migrated, roles, tasks>>

\* ... which may leave a container that Docker cannot start.
RecreateFails ==
  /\ up = "recreate"
  /\ \E asked \in Asked : mounts' = NewMounts(asked)
  /\ Killed /\ RecordOutlives
  /\ boot' = "off" /\ Leaves("failed")
  /\ UNCHANGED <<checkout, migrated, roles, tasks>>

\* Assert-PostUpdate: it runs, on the mounts that were found.
CheckMounts ==
  /\ up = "inspect" /\ Up
  /\ before # {} => before = {mounts}
  /\ Go("wait") /\ Looks

\* status: asks in the container for a plan that finds nothing to do.
StatusReady == Up /\ PlanValid /\ ~Work

WaitForStatus == up = "wait" /\ StatusReady /\ Go("status") /\ Looks

ConfirmStatus ==
  /\ up = "status" /\ StatusReady
  /\ Go(IF verify THEN "runtime" ELSE "publish") /\ Looks

\* verify-container-runtime.ps1: the tools of the image answer; ...
CheckRuntime == up = "runtime" /\ Up /\ Go("services") /\ Looks

\* ... the services are up; ...
CheckServices == up = "services" /\ notifier /\ gateway /\ Go("ready") /\ Looks

\* ... the gateway is ready, after one rescan at most; ...
ProbeGateway == up \in {"ready", "rescanned"} /\ Ready /\ Go("contract") /\ Looks

RescanGateway ==
  /\ up = "ready" /\ ~Ready /\ Rescan
  /\ Go("rescanned")
  /\ UNCHANGED <<pull, verify, script, before, checkout, container, volume>>

\* ... the status once more, and no role has a home.
CheckContract == up = "contract" /\ StatusReady /\ Go("publish") /\ Looks

\* The identity for commits and the login of gh.
Publish == up = "publish" /\ Up /\ Ends("passed")

\* The bounded waits end: 30 attempts for the status, 60 s for the gateway.
GiveUpMutant ==  \* mutant: waits for the status while the container runs
  up \in Waits /\ (up = "wait" => ~Up) /\ Ends("failed")

GiveUp == up \in Waits /\ Ends("failed")

\* Any other command may fail, and nothing is undone.
Throws == up \notin Idle \union Waits /\ Ends("failed")

\* The updater is interrupted, or its computer goes down.
UpdaterDies == up \notin Idle /\ Ends("failed")

UpdaterStep ==
  \/ FastForward \/ RestartUpdater \/ PinMounts \/ NothingToPin \/ PlanOld
  \/ NoImageForPlan \/ Build \/ PlanNew \/ StopContainer \/ PlanStopped
  \/ Recreate \/ RecreateFails \/ CheckMounts \/ WaitForStatus \/ ConfirmStatus
  \/ CheckRuntime \/ CheckServices \/ ProbeGateway \/ RescanGateway
  \/ CheckContract \/ Publish \/ GiveUp \/ Throws

-----------------------------------------------------------------------------
(* The container and the people around it *)

HooksRun ==
  /\ BootStep /\ RecordOutlives
  /\ UNCHANGED <<updater, checkout, mounts, tasks>>

StartedOrStopped ==
  /\ \/ boot \in {"off", "halted"} /\ boot' = "start" /\ UNCHANGED <<services, phase>>
     \/ Up /\ boot' = "off" /\ Killed
  /\ RecordOutlives
  /\ UNCHANGED <<updater, checkout, mounts, migrated, roles, tasks>>

GatewayWrites ==
  GatewayStep /\ UNCHANGED <<updater, checkout, container, volume>>

\* While a migration is open only tasks come and go, as in AtomicMigration.
VolumeChanges ==
  /\ \/ tasks' = ~tasks /\ UNCHANGED <<migrated, roles>>
     \/ phase # "open" /\ migrated' = FALSE /\ UNCHANGED <<roles, tasks>>
     \/ phase # "open" /\ roles' = TRUE /\ UNCHANGED <<migrated, tasks>>
  /\ UNCHANGED <<updater, checkout, container, phase, record>>

OthersStep == HooksRun \/ StartedOrStopped \/ GatewayWrites \/ VolumeChanges

-----------------------------------------------------------------------------
\* What the new container shows of itself.
Shows == { s \in {"mounts", "default", "serving"} :
             CASE s = "mounts"  -> before # {} => mounts \in before
               [] s = "default" -> phase = "settled" /\ ~Work
               [] s = "serving" -> gateway /\ record.own /\ Serves }

\* The points of the updater at which a new container is there.
After == {"inspect", "wait", "status", "runtime", "services", "ready", "rescanned",
          "contract", "publish"}

Watch == shown' = IF up' \in After THEN shown \union Shows' ELSE {}

UpdaterNext ==
  /\ StartUpdate \/ UpdaterStep \/ UpdaterDies
  /\ meddled' = FALSE /\ Watch

OthersNext ==
  /\ OthersStep
  /\ meddled' = (meddled \/ (PlanValid /\ ~PlanValid')) /\ Watch

Next == UpdaterNext \/ OthersNext

Spec == Init /\ [][Next]_vars

\* Docker and git answer the updater, in the end.
FairSpec == Spec /\ WF_vars(UpdaterStep /\ meddled' = FALSE /\ Watch)

-----------------------------------------------------------------------------
(* Properties *)

\* README: the actual /opt/data is never replaced by a new empty volume,
\* whatever .env says by the time the container is recreated.
VolumeKept == mounts.data = "own"

\* The container is stopped, and later replaced, only if nothing speaks against
\* the migration: no running task, none that is open or was cut short, unless
\* that has come up since the last look at it.
UpdateIsPlanned ==
  [][ (\/ up = "stop" /\ up' = "plan-stopped"
       \/ up = "recreate" /\ up' = "inspect" /\ before # {})
      => PlanValid \/ meddled ]_vars

\* An update that reports success has seen the new container on the mounts of
\* the old one, with the default configuration in place and, unless -SkipVerify
\* was given, with its own gateway serving no retired role.
PassedUpdateServes ==
  [][ up = "publish" /\ up' = "passed" =>
        /\ {"mounts", "default"} \subseteq shown
        /\ verify => "serving" \in shown ]_vars

\* Every update ends, however the boot goes on.
EveryUpdateEnds == up \notin Idle ~> up \in Idle
==============================================================================
