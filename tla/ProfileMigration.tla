-------------------------- MODULE ProfileMigration --------------------------
(***************************************************************************)
(* The default-only profile migration, scripts/devkit_default_profile.py.  *)
(*                                                                         *)
(* An invocation of `apply` plans, takes the migration locks, plans again, *)
(* backs the configuration up, journals "prepared", renames every legacy   *)
(* role home into the archive, rewrites config.yaml, retires the overlay   *)
(* marker and journals "applied".  Any exception after "prepared" starts a *)
(* rollback; a kill, or a failing rollback, leaves the journal "prepared". *)
(*                                                                         *)
(* Every system call that changes the data root is a step of its own, and  *)
(* before each of them the process may be killed or the call may fail.     *)
(* What is abstracted: a configuration is the number of the user edit it   *)
(* stems from and whether it carries the migrated values; a role home is a *)
(* number naming its content.  An unreadable, malformed or symlinked file  *)
(* makes a plan fail, which PlanBlocked and ReplanBlocked allow always.    *)
(***************************************************************************)
EXTENDS Integers

CONSTANTS
  Proc,         \* invocations of apply that may run at the same time
  Role,         \* ROLES: the retired role profiles
  NoProc,       \* the owner of a free lock
  OldVersion,   \* the owner of a lock held by a release before the rename
  MaxRuns,      \* bound: invocations of apply in a behaviour
  MaxEdits,     \* bound: changes made by users and other programs
  Accepted,     \* the edits that leave the overlay's recorded fields as they were
  Quiet         \* TRUE: nobody else writes the data root during a transaction

ASSUME ProcAssumption == NoProc \notin Proc /\ OldVersion \notin Proc
                         /\ NoProc # OldVersion
ASSUME BoundAssumption == MaxRuns \in Nat /\ MaxEdits \in Nat
ASSUME AcceptedAssumption == Accepted \subseteq Nat
ASSUME QuietAssumption == Quiet \in BOOLEAN

VARIABLES
  config,         \* config.yaml
  active,         \* profiles/<role>: the home there, 0 if none
  archive,        \* devkit-state/legacy-profiles/<role>
  legacyArchive,  \* devkit-lite/legacy-profiles/<role>
  overlay,        \* the state directories holding a profile-state.json marker
  journal,        \* devkit-state/migration-state.json
  legacyJournal,  \* the phase in devkit-lite/migration-state.json
  backups,        \* devkit-state/backups/<tx>
  legacyDir,      \* whether devkit-lite exists
  lock,           \* who holds devkit-state/migration.lock
  legacyLock,     \* who holds devkit-lite/migration.lock
  tasks,          \* whether a board has a running or a review task
  pc,             \* where each invocation is
  tx,             \* the local variables of each invocation
  runs,           \* invocations so far; the number of the run names its backup
  edits,          \* outside changes so far
  homes,          \* history: every home that ever existed, by role
  snap            \* history: what the transaction of the journal started from

data  == <<config, active, archive, overlay>>
locks == <<lock, legacyLock>>
past  == <<homes, snap>>
outer == <<legacyArchive, legacyDir, legacyJournal, tasks, edits>>
vars  == <<data, locks, past, outer, journal, backups, pc, tx, runs>>

-----------------------------------------------------------------------------
NoHome    == 0
FirstHome == 1
MarkerDir == {"devkit-lite", "devkit-state"}
NoMarker  == "none"

Config == [user: Nat, migrated: BOOLEAN]
Blank  == [user |-> 0, migrated |-> FALSE]  \* before a value is assigned

\* desired(): idempotent, and only the managed fields change.
DesiredMutant(c) == [user |-> 0, migrated |-> TRUE]  \* mutant: does not copy the document
Desired(c) == [c EXCEPT !.migrated = TRUE]

JournalPhase == {"none", "prepared", "applied", "rolled-back"}
Journal == [phase: JournalPhase, run: Nat, target: Config, moved: SUBSET Role]
Backup  == [config: Config, overlay: MarkerDir \union {NoMarker}]

\* The local variables of apply(); jobs are the roles still to archive and
\* restored the moved roles that the rollback has put back.
Tx == [run: Nat, original: Config, target: Config, changes: BOOLEAN,
       jobs: SUBSET Role, moved: SUBSET Role, restored: SUBSET Role,
       overlay: MarkerDir \union {NoMarker}, wrote: BOOLEAN, retired: BOOLEAN]

Forward  == {"move", "record-move", "readback", "retire", "commit"}
Rollback == {"rb-overlay", "rb-config", "rb-restore", "rb-move"}
InTx     == {"backup", "prepare"} \union Forward \union Rollback
Locking  == {"exclusive", "lock"}
Running  == {"plan", "replan"} \union Locking \union InTx
Ended    == {"idle", "unchanged", "applied", "rolled-back", "blocked",
             "interrupted", "killed"}

Snapshot == [config: Config, active: [Role -> Nat], archive: [Role -> Nat],
             overlay: SUBSET MarkerDir, edits: Nat]

\* The values the code's variables range over; the journal only carries the
\* phases validate_journals knows.
TypeOK ==
  /\ config \in Config
  /\ active \in [Role -> Nat] /\ archive \in [Role -> Nat]
  /\ legacyArchive \in [Role -> Nat]
  /\ overlay \in SUBSET MarkerDir
  /\ journal \in Journal /\ legacyJournal \in JournalPhase
  /\ backups \in [1..MaxRuns -> Backup]
  /\ legacyDir \in BOOLEAN /\ tasks \in BOOLEAN
  /\ lock \in Proc \union {NoProc}
  /\ legacyLock \in Proc \union {NoProc, OldVersion}
  /\ pc \in [Proc -> Running \union Ended]
  /\ tx \in [Proc -> Tx]
  /\ runs \in 0..MaxRuns /\ edits \in 0..MaxEdits
  /\ homes \in [Role -> SUBSET Nat]
  /\ snap \in Snapshot

-----------------------------------------------------------------------------
(* build_plan *)

JournalsValidMutant == legacyJournal # "prepared"  \* mutant: looks at devkit-lite only
JournalsValid == journal.phase # "prepared" /\ legacyJournal # "prepared"

\* overlay_check: at most one marker, whose recorded fields are still in place.
OverlayValid ==
  /\ \A c, d \in overlay : c = d
  /\ overlay # {} => config.user \in Accepted /\ ~config.migrated

\* archive_job: a home may be active, or in one archive, never in two places.
NoArchiveConflict ==
  \A r \in Role :
    /\ archive[r] = NoHome \/ legacyArchive[r] = NoHome
    /\ active[r] # NoHome => archive[r] = NoHome /\ legacyArchive[r] = NoHome

Jobs == {r \in Role : active[r] # NoHome}
Work == config # Desired(config) \/ Jobs # {} \/ overlay # {}

\* active_tasks is consulted only when there is something to change.
TasksQuietMutant == TRUE  \* mutant: no look at the boards
TasksQuiet == Work => ~tasks

PlanValid == JournalsValid /\ OverlayValid /\ NoArchiveConflict /\ TasksQuiet

-----------------------------------------------------------------------------
Goto(p, where) == pc' = [pc EXCEPT ![p] = where]

\* The finally of exclusive(), or the kernel closing a dead process's files.
Release(p) ==
  /\ lock' = IF lock = p THEN NoProc ELSE lock
  /\ legacyLock' = IF legacyLock = p THEN NoProc ELSE legacyLock

EmptyTx(n) ==
  [run |-> n, original |-> Blank, target |-> Blank, changes |-> FALSE,
   jobs |-> {}, moved |-> {}, restored |-> {}, overlay |-> NoMarker,
   wrote |-> FALSE, retired |-> FALSE]

Begin(p) ==
  /\ pc[p] \in Ended /\ runs < MaxRuns
  /\ Goto(p, "plan")
  /\ runs' = runs + 1
  /\ tx' = [tx EXCEPT ![p] = EmptyTx(runs + 1)]
  /\ UNCHANGED <<data, locks, past, outer, journal, backups>>

\* The plan outside the lock only decides whether to go on.
PlanUnchanged(p) ==
  /\ pc[p] = "plan" /\ PlanValid /\ ~Work
  /\ Goto(p, "unchanged")
  /\ UNCHANGED <<data, locks, past, outer, journal, backups, tx, runs>>

PlanWork(p) ==
  /\ pc[p] = "plan" /\ PlanValid /\ Work
  /\ Goto(p, "exclusive")
  /\ UNCHANGED <<data, locks, past, outer, journal, backups, tx, runs>>

PlanBlocked(p) ==
  /\ pc[p] = "plan"
  /\ Goto(p, "blocked")
  /\ UNCHANGED <<data, locks, past, outer, journal, backups, tx, runs>>

\* exclusive(): devkit-lite/migration.lock comes first, if devkit-lite exists.
LockLegacy(p) ==
  /\ pc[p] = "exclusive"
  /\ \/ ~legacyDir /\ UNCHANGED legacyLock
     \/ legacyDir /\ legacyLock = NoProc /\ legacyLock' = p
  /\ Goto(p, "lock")
  /\ UNCHANGED <<data, lock, past, outer, journal, backups, tx, runs>>

\* Then devkit-state/migration.lock, and a second look at devkit-lite.
LegacyStillCoveredMutant(p) == TRUE  \* mutant: no second look
LegacyStillCovered(p) == legacyDir => legacyLock = p

LockNewMutant(p) ==  \* mutant: LOCK_SH instead of LOCK_EX
  /\ pc[p] = "lock"
  /\ LegacyStillCovered(p)
  /\ lock' = p
  /\ Goto(p, "replan")
  /\ UNCHANGED <<data, legacyLock, past, outer, journal, backups, tx, runs>>

LockNew(p) ==
  /\ pc[p] = "lock" /\ lock = NoProc
  /\ LegacyStillCovered(p)
  /\ lock' = p
  /\ Goto(p, "replan")
  /\ UNCHANGED <<data, legacyLock, past, outer, journal, backups, tx, runs>>

\* LOCK_NB on a lock that is taken, devkit-lite appeared, or an OS error.
LockFails(p) ==
  /\ pc[p] \in Locking
  /\ Goto(p, "blocked") /\ Release(p)
  /\ UNCHANGED <<data, past, outer, journal, backups, tx, runs>>

-----------------------------------------------------------------------------
(* The transaction, under the locks *)

Replan(p) ==
  /\ pc[p] = "replan" /\ PlanValid
  /\ tx' = [tx EXCEPT ![p].target  = Desired(config),
                      ![p].changes = config # Desired(config),
                      ![p].jobs    = Jobs,
                      ![p].overlay = IF overlay = {} THEN NoMarker
                                     ELSE CHOOSE d \in MarkerDir : d \in overlay]
  /\ Goto(p, "backup")
  /\ UNCHANGED <<data, locks, past, outer, journal, backups, runs>>

\* The bytes that are backed up are read again, after the plan.
BackUpMutant(p) ==  \* mutant: the directory is made, the file is not copied
  /\ pc[p] = "backup"
  /\ tx' = [tx EXCEPT ![p].original = config]
  /\ Goto(p, "prepare")
  /\ UNCHANGED <<data, locks, past, outer, journal, backups, runs>>

BackUp(p) ==
  /\ pc[p] = "backup"
  /\ tx' = [tx EXCEPT ![p].original = config]
  /\ backups' = [backups EXCEPT ![tx[p].run].config = config]
  /\ Goto(p, "prepare")
  /\ UNCHANGED <<data, locks, past, outer, journal, runs>>

\* An exception before "prepared": nothing to roll back.
FailsEarly(p) ==
  /\ pc[p] \in {"replan", "backup", "prepare"}
  /\ Goto(p, "blocked") /\ Release(p)
  /\ UNCHANGED <<data, past, outer, journal, backups, tx, runs>>

Prepare(p) ==
  /\ pc[p] = "prepare"
  /\ journal' = [phase |-> "prepared", run |-> tx[p].run,
                 target |-> tx[p].target, moved |-> {}]
  /\ snap' = [config |-> config, active |-> active, archive |-> archive,
              overlay |-> overlay, edits |-> edits]
  /\ Goto(p, "move")
  /\ UNCHANGED <<data, locks, homes, outer, backups, tx, runs>>

\* os.rename onto an existing home fails even if it appeared after the check.
MoveRole(p, r) ==
  /\ pc[p] = "move" /\ r \in tx[p].jobs
  /\ archive[r] = NoHome /\ active[r] # NoHome
  /\ archive' = [archive EXCEPT ![r] = active[r]]
  /\ active' = [active EXCEPT ![r] = NoHome]
  /\ tx' = [tx EXCEPT ![p].jobs = @ \ {r}, ![p].moved = @ \union {r}]
  /\ Goto(p, "record-move")
  /\ UNCHANGED <<config, overlay, locks, past, outer, journal, backups, runs>>

RecordMove(p) ==
  /\ pc[p] = "record-move"
  /\ journal' = [journal EXCEPT !.phase = "prepared", !.moved = tx[p].moved]
  /\ Goto(p, "move")
  /\ UNCHANGED <<data, locks, past, outer, backups, tx, runs>>

WriteConfig(p) ==
  /\ pc[p] = "move" /\ tx[p].jobs = {} /\ tx[p].changes
  /\ config' = tx[p].target
  /\ tx' = [tx EXCEPT ![p].wrote = TRUE]
  /\ Goto(p, "readback")
  /\ UNCHANGED <<active, archive, overlay, locks, past, outer, journal, backups, runs>>

ConfigSettled(p) ==
  \/ pc[p] = "move" /\ tx[p].jobs = {} /\ ~tx[p].changes
  \/ pc[p] = "readback" /\ config = tx[p].target

ConfigInPlace(p) ==
  /\ ConfigSettled(p)
  /\ Goto(p, "retire")
  /\ UNCHANGED <<data, locks, past, outer, journal, backups, tx, runs>>

NoOverlayToRetire(p) ==
  /\ pc[p] = "retire" /\ tx[p].overlay = NoMarker
  /\ Goto(p, "commit")
  /\ UNCHANGED <<data, locks, past, outer, journal, backups, tx, runs>>

RetireOverlay(p) ==
  /\ pc[p] = "retire" /\ tx[p].overlay \in overlay
  /\ overlay' = overlay \ {tx[p].overlay}
  /\ backups' = [backups EXCEPT ![tx[p].run].overlay = tx[p].overlay]
  /\ tx' = [tx EXCEPT ![p].retired = TRUE]
  /\ Goto(p, "commit")
  /\ UNCHANGED <<config, active, archive, locks, past, outer, journal, runs>>

Commit(p) ==
  /\ pc[p] = "commit"
  /\ journal' = [journal EXCEPT !.phase = "applied", !.moved = tx[p].moved]
  /\ Goto(p, "applied") /\ Release(p)
  /\ UNCHANGED <<data, past, outer, backups, tx, runs>>

\* A call fails, a home appeared or vanished, or the read-back differs.
Fails(p) ==
  /\ pc[p] \in Forward
  /\ Goto(p, "rb-overlay")
  /\ UNCHANGED <<data, locks, past, outer, journal, backups, tx, runs>>

-----------------------------------------------------------------------------
(* The rollback *)

RollBackOverlay(p) ==
  /\ pc[p] = "rb-overlay"
  /\ IF tx[p].retired /\ tx[p].overlay \notin overlay
     THEN /\ overlay' = overlay \union {tx[p].overlay}
          /\ backups' = [backups EXCEPT ![tx[p].run].overlay = NoMarker]
     ELSE UNCHANGED <<overlay, backups>>
  /\ Goto(p, "rb-config")
  /\ UNCHANGED <<config, active, archive, locks, past, outer, journal, tx, runs>>

\* The written configuration is restored only if it is still what was written.
CheckConfigMutant(p) ==  \* mutant: wrote is not remembered
  /\ pc[p] = "rb-config"
  /\ Goto(p, "rb-move")
  /\ UNCHANGED <<data, locks, past, outer, journal, backups, tx, runs>>

CheckConfig(p) ==
  /\ pc[p] = "rb-config"
  /\ \/ ~tx[p].wrote /\ Goto(p, "rb-move")
     \/ tx[p].wrote /\ config = tx[p].target /\ Goto(p, "rb-restore")
  /\ UNCHANGED <<data, locks, past, outer, journal, backups, tx, runs>>

RestoreConfig(p) ==
  /\ pc[p] = "rb-restore"
  /\ config' = tx[p].original
  /\ Goto(p, "rb-move")
  /\ UNCHANGED <<active, archive, overlay, locks, past, outer, journal, backups, tx, runs>>

RestoreRoleMutant(p, r) ==  \* mutant: no check that the place is still free
  /\ pc[p] = "rb-move" /\ r \in tx[p].moved \ tx[p].restored
  /\ archive[r] # NoHome
  /\ active' = [active EXCEPT ![r] = archive[r]]
  /\ archive' = [archive EXCEPT ![r] = NoHome]
  /\ tx' = [tx EXCEPT ![p].restored = @ \union {r}]
  /\ UNCHANGED <<config, overlay, locks, past, outer, journal, backups, pc, runs>>

RestoreRole(p, r) ==
  /\ pc[p] = "rb-move" /\ r \in tx[p].moved \ tx[p].restored
  /\ active[r] = NoHome /\ archive[r] # NoHome
  /\ active' = [active EXCEPT ![r] = archive[r]]
  /\ archive' = [archive EXCEPT ![r] = NoHome]
  /\ tx' = [tx EXCEPT ![p].restored = @ \union {r}]
  /\ UNCHANGED <<config, overlay, locks, past, outer, journal, backups, pc, runs>>

RecordRolledBackMutant(p) ==  \* mutant: a phase validate_journals does not know
  /\ pc[p] = "rb-move" /\ tx[p].restored = tx[p].moved
  /\ journal' = [journal EXCEPT !.phase = "rolled_back", !.moved = tx[p].moved]
  /\ Goto(p, "rolled-back") /\ Release(p)
  /\ UNCHANGED <<data, past, outer, backups, tx, runs>>

RecordRolledBack(p) ==
  /\ pc[p] = "rb-move" /\ tx[p].restored = tx[p].moved
  /\ journal' = [journal EXCEPT !.phase = "rolled-back", !.moved = tx[p].moved]
  /\ Goto(p, "rolled-back") /\ Release(p)
  /\ UNCHANGED <<data, past, outer, backups, tx, runs>>

\* Divergent data or a failing call: the prepared journal stays.
RollbackFails(p) ==
  /\ pc[p] \in Rollback
  /\ Goto(p, "interrupted") /\ Release(p)
  /\ UNCHANGED <<data, past, outer, journal, backups, tx, runs>>

Killed(p) ==
  /\ pc[p] \in Running
  /\ Goto(p, "killed") /\ Release(p)
  /\ UNCHANGED <<data, past, outer, journal, backups, tx, runs>>

-----------------------------------------------------------------------------
(* Everybody else who writes the data root *)

MayInterfere == edits < MaxEdits /\ (Quiet => \A p \in Proc : pc[p] \notin InTx)

\* A user, `hermes config set` or another program rewrites config.yaml.
EditConfig ==
  /\ MayInterfere
  /\ edits' = edits + 1
  /\ \E m \in BOOLEAN : config' = [user |-> edits + 1, migrated |-> m]
  /\ UNCHANGED <<active, archive, overlay, locks, past, legacyArchive, legacyDir,
                 legacyJournal, tasks, journal, backups, pc, tx, runs>>

\* A role profile is created anew.
CreateHome(r) ==
  /\ MayInterfere /\ active[r] = NoHome
  /\ edits' = edits + 1
  /\ active' = [active EXCEPT ![r] = FirstHome + edits + 1]
  /\ homes' = [homes EXCEPT ![r] = @ \union {FirstHome + edits + 1}]
  /\ UNCHANGED <<config, archive, overlay, locks, snap, legacyArchive, legacyDir,
                 legacyJournal, tasks, journal, backups, pc, tx, runs>>

StartTask ==
  /\ MayInterfere /\ ~tasks
  /\ tasks' = TRUE
  /\ edits' = edits + 1
  /\ UNCHANGED <<data, locks, past, legacyArchive, legacyDir, legacyJournal,
                 journal, backups, pc, tx, runs>>

FinishTask ==
  /\ tasks
  /\ tasks' = FALSE
  /\ UNCHANGED <<data, locks, past, legacyArchive, legacyDir, legacyJournal,
                 edits, journal, backups, pc, tx, runs>>

\* A release before the rename knows devkit-lite alone: it creates and locks it.
OldVersionStarts ==
  /\ edits < MaxEdits /\ legacyLock = NoProc
  /\ edits' = edits + 1
  /\ legacyDir' = TRUE
  /\ legacyLock' = OldVersion
  /\ legacyJournal' = "prepared"
  /\ UNCHANGED <<data, lock, past, legacyArchive, tasks, journal, backups, pc, tx, runs>>

\* It commits, rolls back, or dies and leaves its journal prepared.
OldVersionEnds ==
  /\ legacyLock = OldVersion
  /\ legacyLock' = NoProc
  /\ legacyJournal' \in {"prepared", "applied", "rolled-back"}
  /\ UNCHANGED <<data, lock, past, legacyArchive, legacyDir, tasks, edits, journal,
                 backups, pc, tx, runs>>

-----------------------------------------------------------------------------
ProgressStep(p) ==
  \/ PlanUnchanged(p) \/ PlanWork(p) \/ PlanBlocked(p)
  \/ LockLegacy(p) \/ LockNew(p) \/ LockFails(p)
  \/ Replan(p) \/ BackUp(p) \/ Prepare(p) \/ FailsEarly(p)
  \/ \E r \in Role : MoveRole(p, r)
  \/ RecordMove(p) \/ WriteConfig(p) \/ ConfigInPlace(p)
  \/ NoOverlayToRetire(p) \/ RetireOverlay(p) \/ Commit(p) \/ Fails(p)
  \/ RollBackOverlay(p) \/ CheckConfig(p) \/ RestoreConfig(p)
  \/ \E r \in Role : RestoreRole(p, r)
  \/ RecordRolledBack(p) \/ RollbackFails(p)

Environment ==
  \/ EditConfig \/ StartTask \/ FinishTask
  \/ \E r \in Role : CreateHome(r)
  \/ OldVersionStarts \/ OldVersionEnds

Next ==
  \/ \E p \in Proc : Begin(p) \/ ProgressStep(p) \/ Killed(p)
  \/ Environment

\* Any volume a release of the kit can have left behind, quiescent.
Init ==
  /\ config \in [user: {0}, migrated: BOOLEAN]
  /\ active \in [Role -> {NoHome, FirstHome}]
  /\ archive = [r \in Role |-> NoHome]
  /\ \/ /\ legacyDir = TRUE
        /\ legacyArchive \in [Role -> {NoHome, FirstHome + MaxEdits + 1}]
        /\ overlay \in SUBSET MarkerDir
        /\ legacyJournal \in JournalPhase
     \/ /\ legacyDir = FALSE
        /\ legacyArchive = [r \in Role |-> NoHome]
        /\ overlay \in SUBSET {"devkit-state"}
        /\ legacyJournal = "none"
  /\ journal = [phase |-> "none", run |-> 0, target |-> Blank, moved |-> {}]
  /\ backups = [n \in 1..MaxRuns |-> [config |-> Blank, overlay |-> NoMarker]]
  /\ lock = NoProc /\ legacyLock = NoProc
  /\ tasks \in BOOLEAN
  /\ pc = [p \in Proc |-> "idle"]
  /\ tx = [p \in Proc |-> EmptyTx(0)]
  /\ runs = 0 /\ edits = 0
  /\ homes = [r \in Role |-> {active[r], legacyArchive[r]} \ {NoHome}]
  /\ snap = [config |-> config, active |-> active, archive |-> archive,
             overlay |-> overlay, edits |-> 0]

Spec == Init /\ [][Next]_vars

\* The program runs on as long as the process is alive; users owe nothing.
Fairness == \A p \in Proc : WF_vars(ProgressStep(p))
FairSpec == Spec /\ Fairness

-----------------------------------------------------------------------------
(* Properties *)

Exclusive == {"replan"} \union InTx

\* exclusive(): two invocations are never between the plan under the lock and
\* the end of the transaction at the same time.
MutualExclusion ==
  \A p, q \in Proc : pc[p] \in Exclusive /\ pc[q] \in Exclusive => p = q

ExactlyOne(a, b, c) == (a \/ b \/ c) /\ ~(a /\ b) /\ ~(a /\ c) /\ ~(b /\ c)

\* "Legacy role homes are renamed, never deleted or merged with archives":
\* every home that ever existed is in exactly one place, whatever fails,
\* whoever is killed and whatever other programs create meanwhile.
NoHomeLost ==
  \A r \in Role : \A h \in homes[r] :
    ExactlyOne(active[r] = h, archive[r] = h, legacyArchive[r] = h)

Owns(p) == pc[p] \in InTx /\ journal.run = tx[p].run

\* A prepared journal whose transaction is gone blocks every later invocation:
\* none overwrites the journal or its backup, moves a home or a marker, or
\* touches the configuration, until a person has looked at it.
StrandedIsFrozen ==
  [][journal.phase = "prepared" /\ (\A p \in Proc : ~Owns(p))
       => /\ UNCHANGED <<journal, archive, overlay, backups>>
          /\ edits' = edits => UNCHANGED <<config, active>>]_vars

\* When a rollback is journalled, the data root is exactly what the
\* transaction found: configuration, homes, archives and overlay marker.
RollbackIsExact ==
  [][journal.phase = "prepared" /\ journal'.phase = "rolled-back"
       => /\ config' = snap.config /\ active' = snap.active
          /\ archive' = snap.archive /\ overlay' = snap.overlay]_vars

\* As long as nobody else has written, a prepared journal and its backup are
\* enough to go back: the configuration is the old or the new one and the old
\* one is backed up, the marker is in place or backed up, every home is still
\* active or archived.
Recoverable ==
  journal.phase = "prepared" /\ edits = snap.edits =>
    /\ backups[journal.run].config = snap.config
    /\ config \in {snap.config, journal.target}
    /\ overlay \union ({backups[journal.run].overlay} \ {NoMarker}) = snap.overlay
    /\ \A r \in Role : snap.active[r] # NoHome => snap.active[r] \in {active[r], archive[r]}

\* No home is archived under a board that has a running or a review task.
NoArchiveUnderTasks ==
  [][\A r \in Role : archive'[r] # archive[r] /\ archive'[r] # NoHome => ~tasks]_vars

\* Whatever commits, rolls back or dies, the migration never undoes an edit:
\* only another program changes which edit config.yaml stems from.
EditsSurvive == [][config'.user # config.user => edits' # edits]_vars

\* No transaction is entered over a running migration of an old release,
\* even if that one created devkit-lite after the first look at it.
NoEntryOverOldVersion ==
  [][\A p \in Proc : pc[p] \notin Exclusive /\ pc'[p] \in Exclusive
       => legacyLock # OldVersion]_vars

=============================================================================
