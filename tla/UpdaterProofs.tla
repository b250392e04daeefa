---------------------------- MODULE UpdaterProofs ----------------------------
(***************************************************************************)
(* What the updater promises, whatever its commands, the boot and the      *)
(* people around it do, for any number of updates: the data volume stays,  *)
(* nothing is stopped or replaced without a plan, and a success that is    *)
(* reported has been seen.                                                 *)
(***************************************************************************)
EXTENDS Updater, TLAPS

Own == {m \in Mounts : m.data = "own"}

\* The container is on its own volume, and so are the mounts that were found.
Pinned ==
  /\ mounts \in Own
  /\ before = {} \/ \E m \in Own : before = {m}

\* At the two points of no return the last plan still holds, or others have
\* made it fail; a first container replaces nothing.
Planned ==
  up = "stop" \/ (up = "recreate" /\ before # {}) => PlanValid \/ meddled

\* What each of the later points rests on has been shown by this container.
Seen ==
  /\ up \in After \ {"inspect"} => "mounts" \in shown
  /\ up \in After \ {"inspect", "wait"} => "default" \in shown
  /\ verify \in BOOLEAN
  /\ verify /\ up \in {"contract", "publish"} => "serving" \in shown

Inv == Pinned /\ Planned /\ Seen

\* The invariant holds before the first update.
LEMMA UpdaterInit == Init => Inv
<1>1. Init => Pinned
  BY DEF Init, Pinned, Own, Mounts
<1>2. Init => Planned
  BY DEF Init, Planned
<1>3. Init => Seen
  BY DEF Init, Seen, After
<1> QED
  BY <1>1, <1>2, <1>3 DEF Inv

-----------------------------------------------------------------------------
(* The data volume *)

\* Compose keeps what is pinned, and a first container gets its own volume.
LEMMA NewMountsOwn ==
  ASSUME Pinned, NEW asked \in Asked
  PROVE  NewMounts(asked) \in Own
<1>1. CASE before = {}
  BY <1>1 DEF NewMounts, Asked, Own
<1>2. ASSUME NEW m \in Own, before = {m} PROVE NewMounts(asked) \in Own
  <2>1. (CHOOSE x \in before : TRUE) = m
    BY <1>2
  <2>2. NewMounts(asked) = [data |-> m.data, extra |-> m.extra \/ asked.extra]
    BY <1>2, <2>1 DEF NewMounts
  <2>3. m.data = "own" /\ "own" \in {"own", "other"}
    BY DEF Own
  <2>4. (m.extra \/ asked.extra) \in BOOLEAN
    OBVIOUS
  <2>5. [data |-> m.data, extra |-> m.extra \/ asked.extra] \in Mounts
    BY <2>3, <2>4 DEF Mounts
  <2> QED
    BY <2>2, <2>3, <2>5 DEF Own
<1> QED
  BY <1>1, <1>2 DEF Pinned

\* Only Recreate changes the mounts, and it takes the preserved ones.
LEMMA PinnedStep == Pinned /\ [Next]_vars => Pinned'
<1> SUFFICES ASSUME Pinned, [Next]_vars PROVE Pinned'
  OBVIOUS
<1> USE DEF Pinned, Go, Looks, Leaves, Ends, container, updater
<1>1. CASE Recreate \/ RecreateFails
  BY <1>1, NewMountsOwn DEF Recreate, RecreateFails
<1>2. CASE PinMounts
  BY <1>2 DEF PinMounts
<1>3. CASE StartUpdate \/ UpdaterDies \/ FastForward \/ RestartUpdater \/ NothingToPin
  BY <1>3 DEF StartUpdate, UpdaterDies, FastForward, RestartUpdater, NothingToPin
<1>4. CASE PlanOld \/ NoImageForPlan \/ Build \/ PlanNew \/ StopContainer \/ PlanStopped
  BY <1>4 DEF PlanOld, NoImageForPlan, Build, PlanNew, StopContainer, PlanStopped, PlanFrom
<1>5. CASE CheckMounts \/ WaitForStatus \/ ConfirmStatus \/ CheckRuntime \/ CheckServices \/ ProbeGateway
  BY <1>5 DEF CheckMounts, WaitForStatus, ConfirmStatus, CheckRuntime, CheckServices, ProbeGateway
<1>6. CASE RescanGateway \/ CheckContract \/ Publish \/ GiveUp \/ Throws
  BY <1>6 DEF RescanGateway, CheckContract, Publish, GiveUp, Throws
<1>7. CASE OthersStep
  BY <1>7 DEF OthersStep, HooksRun, StartedOrStopped, GatewayWrites, VolumeChanges
<1>8. CASE UNCHANGED vars
  BY <1>8 DEF vars
<1> QED
  BY <1>1, <1>2, <1>3, <1>4, <1>5, <1>6, <1>7, <1>8 DEF Next, UpdaterNext, OthersNext, UpdaterStep

-----------------------------------------------------------------------------
(* The plans *)

\* Neither the updater nor the others reach a point of no return but through a
\* plan that passes.
LEMMA PlannedStep == Planned /\ [Next]_vars => Planned'
<1> SUFFICES ASSUME Planned, [Next]_vars PROVE Planned'
  OBVIOUS
<1> USE DEF Planned, PlanValid, Work, Go, Looks, Leaves, Ends, volume, updater, Waits
<1>1. CASE PlanNew \/ PlanStopped
  BY <1>1 DEF PlanNew, PlanStopped, PlanFrom
<1>2. CASE PlanOld \/ NoImageForPlan \/ Build
  BY <1>2 DEF PlanOld, NoImageForPlan, Build, PlanFrom
<1>3. CASE StartUpdate \/ UpdaterDies \/ FastForward \/ RestartUpdater \/ PinMounts \/ NothingToPin
  BY <1>3 DEF StartUpdate, UpdaterDies, FastForward, RestartUpdater, PinMounts, NothingToPin
<1>4. CASE StopContainer \/ Recreate \/ RecreateFails
  BY <1>4 DEF StopContainer, Recreate, RecreateFails
<1>5. CASE CheckMounts \/ WaitForStatus \/ ConfirmStatus \/ CheckRuntime \/ CheckServices \/ ProbeGateway
  BY <1>5 DEF CheckMounts, WaitForStatus, ConfirmStatus, CheckRuntime, CheckServices, ProbeGateway
<1>6. CASE RescanGateway \/ CheckContract \/ Publish \/ GiveUp \/ Throws
  BY <1>6 DEF RescanGateway, CheckContract, Publish, GiveUp, Throws
<1>7. CASE OthersNext
  <2>1. up' = up /\ before' = before
    BY <1>7 DEF OthersNext, OthersStep, HooksRun, StartedOrStopped, GatewayWrites, VolumeChanges
  <2>2. meddled' = (meddled \/ (PlanValid /\ ~PlanValid'))
    BY <1>7 DEF OthersNext
  <2>3. PlanValid \/ meddled => PlanValid' \/ meddled'
    BY <2>2
  <2> QED
    BY ONLY <2>1, <2>3, Planned DEF Planned
<1>8. CASE UNCHANGED vars
  BY <1>8 DEF vars, history
<1> QED
  BY <1>1, <1>2, <1>3, <1>4, <1>5, <1>6, <1>7, <1>8 DEF Next, UpdaterNext, UpdaterStep

-----------------------------------------------------------------------------
(* The report *)

\* A step keeps what was shown as long as the updater watches.
LEMMA Kept ==
  ASSUME Watch, up' \in After
  PROVE  shown \subseteq shown' /\ Shows' \subseteq shown'
  BY DEF Watch

\* Each look leaves its evidence in shown, which speaks of the container that runs.
LEMMA SeenStep == Seen /\ [Next]_vars => Seen'
<1> SUFFICES ASSUME Seen, [Next]_vars PROVE Seen'
  OBVIOUS
<1>1. CASE UNCHANGED vars
  BY <1>1 DEF Seen, vars, updater, history
<1> SUFFICES ASSUME Watch PROVE Seen'
  BY <1>1 DEF Next, UpdaterNext, OthersNext
<1> USE DEF Go, Looks, Leaves, Ends, updater
<1>2. CASE OthersStep
  <2>1. up' = up /\ verify' = verify
    BY <1>2 DEF OthersStep, HooksRun, StartedOrStopped, GatewayWrites, VolumeChanges
  <2> QED
    BY <2>1, Kept DEF Seen, After
<1>3. CASE CheckMounts
  <2>1. up' = "wait" /\ verify' = verify
    BY <1>3 DEF CheckMounts
  <2>2. before' # {} => mounts' \in before'
    BY <1>3 DEF CheckMounts, container
  <2>3. "mounts" \in Shows'
    BY <2>2 DEF Shows
  <2> QED
    BY <2>1, <2>3, Kept DEF Seen, After
<1>4. CASE WaitForStatus
  <2>1. up = "wait" /\ up' = "status" /\ verify' = verify
    BY <1>4 DEF WaitForStatus
  <2>2. phase' = "settled" /\ ~Work'
    BY <1>4 DEF WaitForStatus, StatusReady, PlanValid, Work, volume
  <2>3. "default" \in Shows'
    BY <2>2 DEF Shows
  <2> QED
    BY <2>1, <2>3, Kept DEF Seen, After
<1>5. CASE ProbeGateway
  <2>1. up \in {"ready", "rescanned"} /\ up' = "contract" /\ verify' = verify
    BY <1>5 DEF ProbeGateway
  <2>2. gateway' /\ record'.own /\ Serves'
    BY <1>5 DEF ProbeGateway, Ready, Serves, container, services
  <2>3. "serving" \in Shows'
    BY <2>2 DEF Shows
  <2> QED
    BY <2>1, <2>3, Kept DEF Seen, After
<1>6. CASE ConfirmStatus
  <2>1. up = "status" /\ verify' = verify /\ up' = IF verify THEN "runtime" ELSE "publish"
    BY <1>6 DEF ConfirmStatus
  <2> QED
    BY <2>1, Kept DEF Seen, After
<1>7. CASE CheckRuntime \/ CheckServices \/ RescanGateway \/ CheckContract
  <2>1. /\ up \in {"runtime", "services", "ready", "contract"} /\ verify' = verify
        /\ up' \in After \ {"inspect", "wait", "status"}
        /\ up' = "contract" => FALSE
        /\ up' = "publish" => up = "contract"
    BY <1>7 DEF CheckRuntime, CheckServices, RescanGateway, CheckContract, After
  <2> QED
    BY <2>1, Kept DEF Seen, After
<1>8. CASE StartUpdate \/ UpdaterDies \/ FastForward \/ RestartUpdater \/ PinMounts \/ NothingToPin
  <2>1. up' \notin After \ {"inspect"} /\ verify' \in BOOLEAN
    BY <1>8 DEF StartUpdate, UpdaterDies, FastForward, RestartUpdater, PinMounts, NothingToPin, After, Seen
  <2> QED
    BY <2>1 DEF Seen, After
<1>9. CASE PlanOld \/ NoImageForPlan \/ Build \/ PlanNew \/ StopContainer \/ PlanStopped \/ Recreate \/ RecreateFails
  <2>1. up' \notin After \ {"inspect"} /\ verify' \in BOOLEAN
    BY <1>9 DEF PlanOld, NoImageForPlan, Build, PlanNew, StopContainer, PlanStopped, PlanFrom,
                Recreate, RecreateFails, After, Seen
  <2> QED
    BY <2>1 DEF Seen, After
<1>10. CASE Publish \/ GiveUp \/ Throws
  <2>1. up' \notin After /\ verify' \in BOOLEAN
    BY <1>10 DEF Publish, GiveUp, Throws, After
  <2> QED
    BY <2>1 DEF Seen, After
<1> QED
  BY <1>1, <1>2, <1>3, <1>4, <1>5, <1>6, <1>7, <1>8, <1>9, <1>10
     DEF Next, UpdaterNext, OthersNext, UpdaterStep

-----------------------------------------------------------------------------
\* Every step keeps the invariant.
LEMMA InvStep == Inv /\ [Next]_vars => Inv'
  BY PinnedStep, PlannedStep, SeenStep DEF Inv

\* The container is never moved to another volume, however often it is updated,
\* whichever step fails and whatever .env asks for meanwhile.
THEOREM VolumeIsKept == Spec => []VolumeKept
<1>1. Inv => VolumeKept
  BY DEF Inv, Pinned, Own, VolumeKept
<1> QED
  BY <1>1, UpdaterInit, InvStep, PTL DEF Spec

\* A container is stopped or replaced only under a plan of the migration that
\* passes, or passed when it was last looked at.
THEOREM StopsArePlanned == Spec => UpdateIsPlanned
<1>1. Inv /\ [Next]_vars =>
        [(\/ up = "stop" /\ up' = "plan-stopped"
          \/ up = "recreate" /\ up' = "inspect" /\ before # {})
         => PlanValid \/ meddled]_vars
  BY DEF Inv, Planned
<1> QED
  BY <1>1, UpdaterInit, InvStep, PTL DEF Spec, UpdateIsPlanned

\* What an update reports as a success has been shown by the new container.
THEOREM ReportsWhatWasSeen == Spec => PassedUpdateServes
<1>1. Inv /\ [Next]_vars =>
        [up = "publish" /\ up' = "passed" =>
           /\ {"mounts", "default"} \subseteq shown
           /\ verify => "serving" \in shown]_vars
  BY DEF Inv, Seen, After
<1> QED
  BY <1>1, UpdaterInit, InvStep, PTL DEF Spec, PassedUpdateServes
=============================================================================
