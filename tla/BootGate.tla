------------------------------ MODULE BootGate ------------------------------
(***************************************************************************)
(* The start of a container: the cont-init hooks of docker/cont-init.d     *)
(* around the profile migration, in the order s6 runs them.                *)
(*                                                                         *)
(*   018-devkit-init                    clears the ready marker, migrates, *)
(*                                      publishes the marker               *)
(*   019-devkit-kanban-notifier-policy  refuses without the marker, sets   *)
(*                                      two config keys, registers the     *)
(*                                      notifier service                   *)
(*   02-devkit-reconcile-guard          refuses without the marker, starts *)
(*                                      the gateways                       *)
(*                                                                         *)
(* s6 goes on to the next hook when one fails, and stops the container     *)
(* after the last one because S6_BEHAVIOUR_IF_STAGE2_FAILS is 2.  The      *)
(* marker is in the container's own file system, so that it survives a     *)
(* stop and a start of the same container.                                 *)
(***************************************************************************)
EXTENDS ProfileMigration

VARIABLES
  hook,      \* the point each container has reached in its hooks
  failed,    \* whether a hook has failed in this start
  ready,     \* /run/devkit-ready
  notifier,  \* whether the notifier service is registered
  gateway    \* whether the gateways run

services == <<notifier, gateway>>
bootVars == <<hook, failed, ready, services>>
allVars  == <<vars, bootVars>>

Hook == {"off", "018-clear", "018-apply", "018-run", "018-publish", "019", "019-register",
         "02", "last", "up", "halted"}

\* The values of the boot's own variables, on top of those of the migration: the
\* journal never carries a phase the next boot could not read.
BootTypeOK ==
  /\ TypeOK
  /\ hook \in [Proc -> Hook]
  /\ \A f \in {failed, ready, notifier, gateway} : f \in [Proc -> BOOLEAN]

To(c, where) == hook' = [hook EXCEPT ![c] = where]
Set(f, c)    == [f EXCEPT ![c] = TRUE]
Clear(f, c)  == [f EXCEPT ![c] = FALSE]

Start(c) ==
  /\ hook[c] \in {"off", "halted"} /\ runs < MaxRuns
  /\ To(c, "018-clear")
  /\ failed' = Clear(failed, c)
  /\ UNCHANGED <<vars, ready, services>>

\* rm -f of the marker, then the check of the s6 contract.
ClearMarkerMutant(c) ==  \* mutant: no rm -f
  /\ hook[c] = "018-clear"
  /\ \/ To(c, "018-apply") /\ UNCHANGED failed
     \/ To(c, "019") /\ failed' = Set(failed, c)
  /\ UNCHANGED <<vars, ready, services>>

ClearMarker(c) ==
  /\ hook[c] = "018-clear"
  /\ ready' = Clear(ready, c)
  /\ \/ To(c, "018-apply") /\ UNCHANGED failed
     \/ To(c, "019") /\ failed' = Set(failed, c)
  /\ UNCHANGED <<vars, services>>

\* assert_boot_quiet: no gateway of this container is up.
Apply(c) ==
  /\ hook[c] = "018-apply" /\ ~gateway[c]
  /\ Begin(c)
  /\ To(c, "018-run")
  /\ UNCHANGED <<failed, ready, services>>

Migrate(c) ==
  /\ hook[c] = "018-run"
  /\ ProgressStep(c)
  /\ UNCHANGED bootVars

\* set -e: the marker is published only after exit status 0.
Succeeded(c) == pc[c] \in {"applied", "unchanged"}

MigratedMutant(c) ==  \* mutant: waits for a success
  /\ hook[c] = "018-run" /\ Succeeded(c)
  /\ To(c, "018-publish")
  /\ UNCHANGED <<vars, failed, ready, services>>

Migrated(c) ==
  /\ hook[c] = "018-run" /\ pc[c] \in Ended
  /\ \/ Succeeded(c) /\ To(c, "018-publish") /\ UNCHANGED failed
     \/ ~Succeeded(c) /\ To(c, "019") /\ failed' = Set(failed, c)
  /\ UNCHANGED <<vars, ready, services>>

PublishMarker(c) ==
  /\ hook[c] = "018-publish"
  /\ ready' = Set(ready, c)
  /\ To(c, "019")
  /\ UNCHANGED <<vars, failed, services>>

\* `hermes config set` of two keys that the migration does not manage.
NotifierPolicy(c) ==
  /\ hook[c] = "019"
  /\ IF ready[c]
     THEN /\ To(c, "019-register") /\ UNCHANGED failed
          /\ \/ UNCHANGED vars
             \/ /\ edits < MaxEdits
                /\ edits' = edits + 1
                /\ config' = [config EXCEPT !.user = edits + 1]
                /\ UNCHANGED <<active, archive, overlay, locks, past, legacyArchive,
                               legacyDir, legacyJournal, tasks, journal, backups,
                               pc, tx, runs>>
     ELSE /\ To(c, "02") /\ failed' = Set(failed, c)
          /\ UNCHANGED vars
  /\ UNCHANGED <<ready, services>>

\* Initialises the notifier's state and registers the service, or fails.
RegisterNotifier(c) ==
  /\ hook[c] = "019-register"
  /\ To(c, "02")
  /\ \/ notifier' = Set(notifier, c) /\ UNCHANGED failed
     \/ failed' = Set(failed, c) /\ notifier' \in {notifier, Set(notifier, c)}
  /\ UNCHANGED <<vars, ready, gateway>>

ReconcileGuardMutant(c) ==  \* mutant: the upstream hook, without the guard
  /\ hook[c] = "02"
  /\ gateway' = Set(gateway, c) /\ UNCHANGED failed
  /\ To(c, "last")
  /\ UNCHANGED <<vars, ready, notifier>>

ReconcileGuard(c) ==
  /\ hook[c] = "02"
  /\ IF ready[c]
     THEN gateway' = Set(gateway, c) /\ UNCHANGED failed
     ELSE failed' = Set(failed, c) /\ UNCHANGED gateway
  /\ To(c, "last")
  /\ UNCHANGED <<vars, ready, notifier>>

\* S6_BEHAVIOUR_IF_STAGE2_FAILS=2
HooksDone(c) ==
  /\ hook[c] = "last"
  /\ IF failed[c]
     THEN /\ To(c, "halted")
          /\ gateway' = Clear(gateway, c) /\ notifier' = Clear(notifier, c)
     ELSE To(c, "up") /\ UNCHANGED services
  /\ UNCHANGED <<vars, failed, ready>>

\* docker stop or kill, a crash of the host: at any point.
Stop(c) ==
  /\ hook[c] \notin {"off", "halted"}
  /\ To(c, "off")
  /\ gateway' = Clear(gateway, c) /\ notifier' = Clear(notifier, c)
  /\ \/ Killed(c)
     \/ pc[c] \in Ended /\ UNCHANGED vars
  /\ UNCHANGED <<failed, ready>>

BootStep(c) ==
  \/ ClearMarker(c) \/ Apply(c) \/ Migrate(c) \/ Migrated(c) \/ PublishMarker(c)
  \/ NotifierPolicy(c) \/ RegisterNotifier(c) \/ ReconcileGuard(c) \/ HooksDone(c)

BootInit ==
  /\ Init
  /\ hook = [c \in Proc |-> "off"]
  /\ failed = [c \in Proc |-> FALSE] /\ ready = [c \in Proc |-> FALSE]
  /\ notifier = [c \in Proc |-> FALSE] /\ gateway = [c \in Proc |-> FALSE]

BootNext ==
  \/ \E c \in Proc : Start(c) \/ BootStep(c) \/ Stop(c)
  \/ Environment /\ UNCHANGED bootVars

BootSpec == BootInit /\ [][BootNext]_allVars

\* A container that is not stopped runs its hooks.
BootFairSpec == BootSpec /\ \A c \in Proc : WF_allVars(BootStep(c))

-----------------------------------------------------------------------------
\* The notifier and the gateways of a container run only if the migration of
\* this very start succeeded, whatever an earlier start left in /run.
ServicesNeedMigration ==
  \A c \in Proc : gateway[c] \/ notifier[c] => Succeeded(c)

\* README: the next start fails too, "so that no worker starts on a partial
\* state".  With one container on the volume, no gateway runs while the
\* journal of the migration says that it is under way or was cut short.
NoWorkerOnPartialState ==
  (\E c \in Proc : gateway[c]) => journal.phase # "prepared"

\* Every start of a container that is not stopped ends: it serves or it halts.
EveryStartEnds ==
  \A c \in Proc : hook[c] = "018-clear" ~> hook[c] \in {"up", "halted", "off"}
=============================================================================
