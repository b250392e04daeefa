# Verification of hermes-agent-devkit

TLA+ models of the parts of the kit that change durable state while other
processes run, crash or are killed, TLC runs that check them on small
instances, and TLAPS proofs of what must hold on every instance.  Paths below
are relative to the repository.

1. Inventory
2. Modules, and how they correspond to the code
3. Runs
4. Bounds, and why they are enough
5. Fairness
6. Proofs
7. Where the code and its documents disagree
8. What is not modelled, and the limits of what is
9. Plan

## 1. Inventory

The kit is a container image (Hermes, its gateways and tool chains), a Windows
updater, boot hooks, and a library of skills whose scripts an agent calls.

| Part | State it keeps | Operations | Talks to | What is hard |
|---|---|---|---|---|
| **Default-profile migration** `scripts/devkit_default_profile.py` | `config.yaml`, `profiles/<role>`, `devkit-state/{migration-state.json, backups, legacy-profiles}`, the same under the older `devkit-lite`, two lock files | `plan`, `apply`, `status` | boot hook 018, the updater (`plan`), the Kanban boards (read), older releases of itself | kills between any two system calls, failing rollbacks, an older release that locks a different directory, users who edit the configuration meanwhile |
| **Boot hooks** `docker/cont-init.d` | `/run/devkit-ready`, two configuration keys, the registered services | 018 migrate, 019 notifier policy, 02 reconcile guard | the migration, s6 | s6 goes on after a failed hook; the marker survives a stop; a kill in the middle |
| **Kanban notifier** `scripts/devkit_kanban_notifier.py` | SQLite database: one cursor per board, `initialized` | set-up, rounds, batches, send, advance | boards written by Hermes, a messaging command, s6 | crash between send and commit, a send that arrives but reports failure, boards that cannot be read or are made anew |
| **Verification evidence cache** `scripts/verification/{gradle,maven}_verification_cached.py`, `dev-node-dependencies/scripts/node_verification_cached.py` | one evidence file per request, Node: a lock file beside it | fingerprint, reuse, remove, run, fingerprint, record | the engines, whoever edits the workspace | the tree changes while it is fingerprinted and built; overlapping runs; kills |
| **Engines and launchers** `scripts/verification/{gradle,maven}_verification.py`, `scripts/hermes-{java,maven}` | session guard, downloaded archive, installed distribution, its lock, the workspace lock | capability, verification, diagnosis; install, lock, build | Gradle, Maven, process execution | two launches installing one distribution, a lock that must outlive its launcher and no longer, a guard of an earlier timeout against a new run |
| **Process execution** `custom-skills/_lib/process_execution.py` | a process group | run with a timeout, TERM, KILL, reap | all engines | a leader that exits before its children |
| **Git PR publish** `custom-skills/core/git-pr-publish/scripts` | index, HEAD, remote branch, pull requests | preview, commit and push, push existing, create | git, GitHub | an edit between the fingerprint and the staging; retries after a lost answer |
| **Git workspace cleanup** `custom-skills/core/git-workspace-cleanup/scripts` | worktrees, local and remote branches | list, inspect, fingerprinted approval, remove in steps | git, GitHub | anything may move between the approval and each step; steps fail after others succeeded |
| **Updater** `update-devkit.ps1`, `scripts/devkit-mounts.ps1`, `scripts/init-devkit.ps1`, `scripts/verify-container-runtime.ps1` | the checkout, the container and its mounts | fast-forward, plan, build, plan, stop, plan, recreate, look | git, Docker, the migration, the boot | work that starts between a plan and the stop; `.env` edited meanwhile; failures after the stop; bounded waits |
| **Gateway readiness** `scripts/devkit_gateway_readiness.py` | none; reads `gateway_state.json` | bounded poll, rescan | the default gateway | a record that outlives the gateway that wrote it |
| **Node runtime and workspace** `dev-node-dependencies/scripts/` | isolated copy, its `node_modules`, the fingerprint of its restore, the workspace lock | preflight, plain sync, Tirith scan, add, restore, mark, decide builds, run | pnpm, the agent, the evidence cache | half-made copies, restores and removals, a fingerprint that outlives its modules or is written for the wrong ones, writers without the lock, a gate read long before the run |
| **Browser verification adapter** `scripts/browser_runtime_adapter.py`, `scripts/probe_managed_dialog.py`, `scripts/ui_runtime` | a directory per attempt with its result file and report, the latest report at the root | serve, probe, judge, stop, publish | process execution, a browser in a session of its own, the probe that writes the result file | a probe that is stopped or killed half way, a dialog that closes by itself, what a killed adapter leaves beside the next attempt |
| Project setup, intake, `parent_tracking_body.py` | project files | one-shot readers and writers | Jira | nothing concurrent |
| Static guards and detectors | none | one-shot readers | - | pure decisions only |
| Build-time patches, smoke checks, CI | the image | run once | - | nothing concurrent |
| Skill documents | none | prose | - | quoted where the code contradicts them |

The parts in bold are modelled.  What makes them correct:

* migration: all or nothing as far as the journal shows; a journal that says
  *prepared* freezes everything until a person has looked; no role home is ever
  lost or merged; no transaction under running tasks, next to another one or
  next to an older release; user edits survive;
* boot: no gateway and no notifier without a successful migration in this very
  start; every start serves or halts;
* notifier: no new event is skipped, nothing old is sent, order per board is
  kept, repeats only after faults, and everything is delivered in the end;
* evidence: a reported PASS is about a tree that an engine passed and that was
  there during the run; no PASS outlives a later failure;
* engines: one build per workspace, a distribution that stays whole under those
  who use it, nothing left of a launch that timed out, a verdict that a build has
  earned, and an end to every verification;
* git: only what was approved is committed, no commit and no change is lost, and
  what a script reports is so;
* updater: the data volume is never replaced, the container is touched only
  under a plan that passes, success is not claimed before the new container has
  shown it, and every update ends;
* browser: a published PASS is that of a probe that ended well, saw everything hold
  and left nothing behind; a published FAIL is about something that was seen to fail;
* Node: what counts as restored is restored, a command runs as the gates say,
  verifications do not disturb each other, and each of them ends.

Where the code has a window of its own, the property names it and excuses it: the
conditions are in the table of runs, in sections 7 and 8 and at the definitions.

PROJECT.json lists the hazards behind these properties at their lines.

## 2. Modules

| Module | Models |
|---|---|
| `ProfileMigration` | `apply` with its two plans, locks, transaction, rollback, and everybody else who writes the data root |
| `AtomicMigration` | what the migration promises: one step, none, or stranded |
| `ProfileMigrationRefinement` | the mapping from the first to the second |
| `ProfileMigrationProofs` | theorems about the migration, its refinement and the boot |
| `BootGate` | extends `ProfileMigration` with the three hooks, the marker and stops and starts of the container |
| `KanbanNotifier` | boards, cursor database, service loop, s6 restarts |
| `OrderedDelivery` | at-least-once delivery in order, per board |
| `KanbanNotifierRefinement` | the mapping for the boards whose file stays the same and readable |
| `KanbanNotifierProofs` | theorems about the notifier and its refinement |
| `VerificationCache` | the three cached runners of one request, and edits of its scope |
| `VerificationCacheProofs` | theorems about the cache |
| `BuildLauncher` | one launch of `hermes-java` or `hermes-maven`: guard, settings, distribution, locks, build |
| `BuildVerification` | extends it with the helpers that start launches, time out, terminate and judge them |
| `BuildVerificationProofs` | theorems about locks, the distribution, timeouts and verdicts |
| `GitRepo` | a worktree, its branches at both sides, pull requests, and everyone else who moves them |
| `PrPublish`, `WorkspaceCleanup` | extend it with the scripts of the two skills |
| `GitLifecycle` | both of them in one session, with everyone else at work |
| `GitLifecycleProofs` | theorems about both, and about the history of commits |
| `GatewayReadiness` | what a gateway writes about itself and what is concluded from it |
| `Updater` | extends it with the updater, the container and its boot, and those who interfere |
| `UpdaterProofs` | theorems about the updater |
| `NodeWorkspace` | the isolated workspace of one package and the sessions that use it |
| `NodeWorkspaceProofs` | theorems about the Node workspace |
| `ProbeReport` | the result file of a browser probe, and the verdict that is drawn from it |
| `BrowserVerification` | the adapter and its two probes on it: attempts in one artifact directory |
| `BrowserVerificationProofs` | theorems about published verdicts |
| `MC...` | instances for TLC: sets, symmetry, a constraint |

**ProfileMigration.**  `pc[p]` is the place of invocation `p` in `apply`, `tx[p]`
its local variables (`moved`, `wrote_config`, `overlay_retired`, the original and
the target text of `config.yaml`).  Every system call that changes the data root
is one action, named after it: `BackUp`, `Prepare`, `MoveRole`, `RecordMove`,
`WriteConfig`, `RetireOverlay`, `Commit`, and in the rollback `RollBackOverlay`,
`RestoreConfig`, `RestoreRole`, `RecordRolledBack`.  `Fails`, `FailsEarly`,
`RollbackFails` and `Killed` are possible between any two of them.  `atomic()`
writes a temporary file and replaces: a journal or a configuration is the old or
the new one, never a part.  A configuration is `[user, migrated]`: the edit it
stems from and whether it carries the managed values; `desired()` changes the
second only.  A home is a number naming its content.  Locks are `flock`s: the
kernel frees them with the process.  `PlanBlocked` and `FailsEarly` stand for all
reasons to stop before anything is written (unreadable boards, symlinks,
malformed YAML).

**BootGate.**  `hook[c]` is the point a container has reached, and each hook is
split where it can be interrupted: 018 clears the marker, runs `apply` step by
step (`Migrate` is `ProgressStep` of the migration), and publishes the marker on
success; 019 writes two configuration keys and registers the notifier; 02 starts
the gateways.  A failed hook sets `failed`, and the container halts after the
last one (`S6_BEHAVIOUR_IF_STAGE2_FAILS=2`).

**KanbanNotifier.**  A board's log is the sequence of its events, each either to
be notified or not.  `InitializeState`, `StartRound`, `FetchEvents`, `SendSucceeds`,
`SendFails`, `PassOver`, `AdvanceCursor`, `EndBoard`, `EndRound` are the steps of
`run_forever` and `process_board`; the cursor is committed for each event.
`Unsound` boards may be unreadable, or deleted and made anew; `mode` is the setting a
run of the service is started with (delivery, no notifications, no target).  In the
abstract specification `muted` stands for a run without notifications.  `delivered`,
`passed`, `past` and `misread` are history.

**VerificationCache.**  A file is a number naming its content, and a fingerprint the
sequence of contents it was computed from, read one file at a time; the engine
reads the same way.  `tool` picks the runner; where the three differ, the guard
says so: only Node locks (`LockEvidence`, after its fingerprint), only Gradle has a
preflight, only Maven removes the evidence again after a failure.  An `Edit` gives a
file a content of its own, removes it, or brings any lower content back, the evidence's
included.  `verified`, `during`, `refuted`, `overlapped`, `rewound` (the runs during which a
content came back) and `doubtful` (the evidence was recorded by such a run) are history.

**BuildLauncher, BuildVerification.**  A launch is two processes, the script
("shell") and the build tool; a lock belongs to whichever of them has its file
open: `Holders` differs between Gradle, whose tool `flock` starts, and Maven, whose
script holds the descriptor and hands it on.  `Resolve`, `LockDistribution`,
`Recheck`, `Fetch`, `Verify`, `Unpack`, `Replace`, `Publish` install the distribution under
its lock; `EnterFlock`, `LockWorkspace`, `LockTimesOut` are the second lock, which any
launch may give up waiting for, a helper's too, and end with a status that its caller takes
for a failed build; `Extension` is the Maven extension.  `setting.session` are the helpers and
launches that run with the task and session id: only they write, clear and look for
the session's marker (`InSession`).  A helper's `step` is the launch it is at; `phase` is
`run_bounded` with `terminate_process_group`: *probe* (the diagnosis of what hangs), *term*,
*kill*, *reap*.  `After` is the control flow of both `main`s, from exit status to the next
launch or to the verdict.  `HelperDies` and `Killing` take any process away at any
moment.  `quiet` and `late` are history.

**GitRepo, PrPublish, WorkspaceCleanup.**  Commits are numbered and carry parents and a
tree; files and the index map paths to contents, with CRLF noise kept apart,
because both skills treat it apart.  The session's `pc` walks through the script that
was started; `approval` is what the user has approved (a preview, with the values
its fingerprint digests), `seen` what the running script remembers.  Each git command
that changes something is an action of its own, and each may fail, or succeed
with its answer lost.  `since` collects what others did after the script's last look;
`excused` the commits pushed into the window that `git push --delete` leaves.

**GatewayReadiness, Updater.**  `up` is the point of `update-devkit.ps1`; `script` is the
version of the updater that runs, since a fast-forward may bring another one and
start it anew (`RestartUpdater`).  The three plans are `PlanOld`, `PlanNew`, `PlanStopped`;
`NewMounts` is the preserved override with which `Recreate` starts the container.
`BootPlans`, `BootMigrates`, `BootServes`, `BootHalts` are `BootGate` with its inner steps
folded together.  `VolumeChanges` are tasks, edits, new role profiles; `StartedOrStopped` a
person with `docker start` and `docker stop`.  The record of a gateway stays on the
volume when the gateway goes; `own` says whether it is the running one's.  `classify` compares
the process ids itself for a sole profile; for several it takes what Hermes'
`recorded_served_profiles` answers, and that this speaks of the running gateway only is
assumed of Hermes.  `meddled`
and `shown` are history.

**NodeWorkspace.**  A file is an id and what the gates see of it; `isolated` is the copy,
`modules` what is in `node_modules` and for which files it was installed, `marker` the
fingerprint.  Modules are `Whole`, or `Partial` when they are half installed or half removed.
A session does one of four things (`Ops`): *verify* is `node_runtime.py` (`PassGate`,
`LockWorkspace`, `CopyFile`, `Assess`, `Refuse` or `Allow`, later `RunCommand`, then `CommandEnds` or
`CommandTimesOut`); *preflight* shares the copy and the assessment without the lock, and ends
in `AskForRestore` or `AskForInstall`, after which the agent restores (`StartInstall`,
`InstallSucceeds`, `MarkRestored`) or scans (`Scan`) and adds (`AddPackage`); *sync* is
`node_workspace.py` by itself, the copy and the assessment alone, with neither gate nor lock
(`SyncEnds`); *decide* is a decision about dependency builds, planned and later written
(`PlanBuilds`, `DecideBuilds`).  `Assess` is `dependency_state` up to its verdict; when it finds modules
that are not ready, `RemoveSome` and `RemoveRest` are its `rmtree`, and a kill (`Abandon`) may
come before, between and after.  Between the last look (`Allow`) and the start of the command
(`RunCommand`) others may write.  The second look at the toolchain reads the copied manifest
only (`DeclaresToolchain`), the gate the lockfile and the policy too.  `Rank` is the order in
which the directory lists its files.  `Edit` and `Revert` are users and git.  History: `astray`
is what has come between the marker and its modules (*lost*: they were removed, *back*: the
source took an earlier content, *crossed*: two sessions wrote at once), `job.edited` and `job.crossed`
what has happened to a session since it looked.

**ProbeReport, BrowserVerification.**  `pc[a]` is the place of the adapter in `run` of
attempt `a`, `step[a]` that of its probe.  `EndCase`, `FinishMatrix`, `RunCheck`,
`FinishSuite` write the result file (`raw`), as the probes do after each item; `Cancelled` is
the exception that SIGTERM raises in the probe of dialogs, `CaseFails` that or another failure
inside a case, which may have launched its browser before it got to its dialog.
`Summarize` and `Aggregate` are the verdicts of the two result formats, `Judged` what the
adapter makes of them and of the exit code.  `live` are the processes of an attempt; the
browser is in no group of the adapter, only the probe's own cleanup ends it.
`Interrupt`, `KillAdapter`, `ServerDies`, `ProbeDies` come at any point; what they
leave goes on beside the next attempt.  `held` and `broken` are history.

Definitions named `...Mutant` stand beside the definition they change; each is a
plausible mistake that the run named in PROJECT.json must, and does, notice.

## 3. Runs

`tlc -workers 2 -config <cfg> <module>`; times are for two workers.

| Run | Shows | States, time |
|---|---|---|
| `migration_quiet` | With nobody else writing during a transaction: `Recoverable` (journal and backup are enough to go back, at every instant), `NoArchiveUnderTasks`, `EditsSurvive`, and `ImplementsAtomic` | 4.2 M, 70 s |
| `migration_noisy` | With users, programs and an old release interfering at any moment: `TypeOK`, `MutualExclusion`, `NoHomeLost`, `StrandedIsFrozen`, `NoEntryOverOldVersion` | 1.5 M, 25 s |
| `boot_gate` | `ServicesNeedMigration`, `NoWorkerOnPartialState`, and that every start ends (`EveryStartEnds`) | 0.4 M, 30 s |
| `notifier_delivery` | `NoEventSkipped`, `PastNotSent`, `RepeatsNeedFaults`, and, beside a board that is unreadable or made anew at any time, `EventuallyDelivered` and `ImplementsOrderedDelivery` | 0.25 M, 32 s |
| `notifier_unreadable` | finding: `PastNeverSent` is violated | - |
| `cache_reuse` | `PassIsReal`, `NoFallback` for the three runners, overlapping runs and contents that come back included | 13.0 M, 160 s |
| `cache_fallback` | finding: `NeverFallsBack` is violated | - |
| `git_lifecycle` | `NoCommitLost`, `CommitIsApproved`, `NothingDiscarded`, `NoWorktreeOrphaned`, `ReportIsTrue` | 2.4 M, 40 s |
| `build_verification` | `NoSecondBuild`, `DistributionStaysWhole`, `TimeoutLeavesNobody`, `VerdictIsEarned`, `BlockedSessionIsQuiet`, `EveryVerificationEnds`, within a session and outside it | 0.76 M, 50 s |
| `updater` | `VolumeKept`, `UpdateIsPlanned`, `PassedUpdateServes`, `EveryUpdateEnds` | 0.5 M, 40 s |
| `node_workspace` | `ReadyIsRestored`, `RunsAsGated`, `RunIsUndisturbed`, `EveryCommandEnds`, beside sessions that take no lock | 0.97 M, 140 s |
| `browser_verification` | `PassIsConfirmed`, `FailIsObserved` | 2.5 M, 25 s |

Deadlock is checked for the notifier, whose service never stops for good, and for
the updater and the Node workspace, which can always be used again.  The migration,
the boot, the cache, the engines, the git skills and the browser attempts really end (`CHECK_DEADLOCK
FALSE`): once the bounded runs, moves and edits are used up, or the worktree is gone,
nothing is left to do.

Several properties carry an exemption, because the code has a window there and the
property says exactly how wide it is.  They are listed in section 7 and 8.

## 4. Bounds, and why they are enough

* Two invocations and two roles: mutual exclusion and the lock order concern
  pairs; with two roles there is a first rename, a last one and a state between
  them.  `MaxRuns = 2` gives every first outcome a second run over what it left;
  in `boot_gate` three starts.
* `MaxEdits` counts changes by users and other programs.  One edit is enough to
  fall into each window; two in `migration_quiet` make an edit before and one
  after the first transaction.
* Notifier: two boards, one sound and one not (fairness between boards, and no mixing
  up of cursors), two events with batches of two (a crash inside a batch), two faults, so
  that a repeat can itself be repeated; the unsound board may be made anew once.  The
  safety properties were checked on two sound boards and on smaller batches as well,
  and are proved for all of them.
* Cache: two files is the least for which a fingerprint is no snapshot, two edits
  the least to make one that matches no tree there ever was, or to take a content away
  and bring it back; three runs are needed to pass, to fail and to reuse.
* Engines: one helper and one direct launch, since both locks and the guard concern
  pairs; `MaxRuns = 4` verifications and direct launches, so that a launch can meet what a
  blocked verification and a killed launch have left.  Every choice of who is in the
  session is an initial state.  More helpers are left to the proofs.
* Git: two files (one inside the approved scope, one outside), two contents, four
  commits and four moves of the others (`MaxCommits`, `MaxMoves`): to have a branch merged,
  to move it on, to fetch and to fall into a window takes four.
* Updater: no counter, hence no bound.  Volume and mounts are reduced to what the
  updater distinguishes.
* Node: two sessions, one new content per behaviour and its way back (`Edit`,
  `Revert`): every window needs one writer and one reader; three sessions and more
  contents are left to the proofs.  `Revert` takes all files back at once, as git does.
  `MCRank` has the manifest copied first; the proofs hold of any order.
* Browser: two items are the first, on which the others depend, and one of the others;
  with one signal every process can be taken away at every point, and a second attempt is
  followed beside what a killed adapter left (`BesideLeftovers`, a state constraint: two
  attempts at full speed beside each other share only the root report).  The proof
  covers any number of items, attempts and signals.
* `Symmetry` is used in safety runs only.

## 5. Fairness

* `FairSpec` of the migration and `BootFairSpec`: weak fairness of each process's own
  steps.  A process that is not killed runs on; nothing is asked of users, of
  other programs, or of the success of any call.  Every wait in the code is
  `LOCK_NB` or has a timeout.
* Notifier: weak fairness of the service (s6 restarts it), and strong fairness of
  starting a round and, on sound boards only, of reading and of a successful send.  Each
  is necessary: with a messaging service that fails for ever nothing is delivered.  That
  the service is not started without a target again and again is part of the property.  The code's retries (`FetchFails` and `SendFails`
  end the turn of the board, the next round comes) turn these assumptions into delivery.
* Engines: weak fairness of the helper's own steps, among them its timeouts.  Nothing is
  asked of the launches: they may hang in a download, behind a lock or in a build,
  and ignore TERM.  KILL is assumed to work, and nobody to leave the process group.
* Updater: weak fairness of the updater's steps, that is, Docker and git answer in the end.
  Nothing is asked of the boot or the gateway: the waits for them are bounded.
* Node: weak fairness of a session's own helper steps and timeouts; nothing is asked of
  pnpm, the agent or users.  A lock that is held is given back by the timeout of the
  command under it, and the wait for it is bounded too.
* The browser adapter has no liveness property: each of its waits has a limit, and nothing
  else delays it.
* The cache has none: a run waits for the engine's timeout only.  The
  git scripts have none either: every step is one git command, and what follows is up
  to a person.

## 6. Proofs

All are checked by `tlapm` with the SMT, Zenon and LS4 backends, from the named
assumptions on the constants that the modules declare.  Where a theorem needs more, its
statement begins with `ASSUME` and the table says so.  Each follows the same
line: the invariant holds initially, one named step per action (or per kind of
action) shows that it is preserved, and PTL closes the argument.  The inductive invariants
were checked by TLC on small instances before they were proved.

`ProfileMigrationProofs`, for any number of invocations, roles, runs and edits.  The
first five hold however noisy the neighbours are; those with *Quiet* assume
`Quiet = TRUE`, that nobody else writes the data root during a transaction, which
`assert_boot_quiet` and the order of the hooks are there for (section 8 says
what happens otherwise).

| Theorem | Statement | Inductive invariant, and why |
|---|---|---|
| `TypeCorrect` | `Spec => []TypeOK` | `TypeInv`: `TypeOK` alone is not inductive, the rollback puts the recorded marker back, so that a retired marker must be a real one (`RetiredWell`) |
| `Exclusion` | `Spec => []MutualExclusion` | `LockHeld`: whoever is in the exclusive part owns `devkit-state/migration.lock`; there is one owner |
| `HomesSurvive` | `Spec => []NoHomeLost` | `HomesInv`: with `HomesBounded`, that no home carries a number still to be given, so that a created home is a new one |
| `StrandedStaysFrozen` | `Spec => StrandedIsFrozen` | `FrozenInv`: while the journal is *prepared* and its transaction is under way, the one process in the exclusive part is its owner; hence without an owner every process is outside, and `JournalsValid` keeps it there |
| `OldVersionIsRespected` | `Spec => NoEntryOverOldVersion` | `MadeItsDir`: an old release that holds its lock has made the directory that `LegacyStillCovered` looks for |
| `RollbackRestores` | *Quiet*: `Spec => RollbackIsExact` | `QuietInv`: from `Replan` to its end a transaction knows where every piece of the data root is (`Course`: what was planned is still so; then every home, the configuration and the marker are where its own record of its steps puts them) |
| `EditsAreKept` | *Quiet*: `Spec => EditsSurvive` | `QuietInv`: what is written stems from `original`, which is what is there |
| `TasksAreSafe` | *Quiet*: `Spec => NoArchiveUnderTasks` | `QuietInv`: the plan that found no task still holds |
| `AlwaysRecoverable` | *Quiet*: `Spec => []Recoverable` | `QuietInv` while the transaction runs; once cut short, what is there stays as it was (`CutShort`) |
| `MigrationIsAtomic` | *Quiet*: `Spec => ImplementsAtomic` | `QuietInv`: `Prepare` opens the abstract transaction, `Commit` and `RecordRolledBack` settle it with the new or the old data root, a kill strands it, every other step stutters (`SettledStep`, `PreparedStep`) |
| `ServicesAreGated` | `BootSpec => []ServicesNeedMigration` | `GateInv`: at each point of the hooks, what the marker says about the run of `apply` in this very start |
| `BootIsMigration` | one container: `BootSpec => Spec` | with it, that `apply` runs within hook 018 alone: every boot is a behaviour of the migration, whose theorems then hold of it |
| `NoWorkerOnPartial` | one container: `BootSpec => []NoWorkerOnPartialState` | `Closed`: after a success the journal is closed; with two containers on one volume it need not be |

`KanbanNotifierProofs`, for any boards, of which any may be unsound, any batch size, settings,
events and faults:

| Theorem | Statement | Inductive invariant, and why |
|---|---|---|
| `NothingSkipped`, `PastIsNotSent`, `InOrder` | `Spec => []NoEventSkipped`, `[]PastNotSent`, `[]DeliveredInOrder` | `Inv`: within a batch the cursor is one behind the current event (`InStep`), between send and commit the message is the last one sent (`Dealt`), and nothing sent is ahead of the cursor by more than one (`SentWithin`) |
| `RepeatsArePaidFor` | `Spec => []RepeatsNeedFaults` | `RepeatsPaid`: repeats, and messages that the cursor does not know of yet (`Owed`), are together no more than the faults; a repeat only pays off what was owed |
| `DeliveryImplemented` | `Spec => ImplementsOrderedDelivery` | `Inv` and that a run is at a board only with a target: a send is `Deliver`, a commit is `Settle`, the process itself and the boards that are not sound stutter |

`BuildVerificationProofs`, for any number of helpers, direct launches and verifications, of
Gradle and Maven:

| Theorem | Statement | Inductive invariant, and why |
|---|---|---|
| `BuildsExclude` | `Spec => []NoSecondBuild` | `LockInv`: who builds owns the workspace lock, and the lock has a holder among the living processes of its owner; hermes-maven owns it from `extension` on, before it builds.  `StepInv`: a Maven verification is one launch, so that a new launch never starts over the living tool of the one before, for which `run_to_stream` would not have waited |
| `DistributionWhole` | `Spec => []DistributionStaysWhole` | `ScriptInv`: who installs owns the lock of the distribution and replaces it only if it is not whole; who is past that has found it whole |
| `NobodyLeft` | `Spec => TimeoutLeavesNobody` | `PhaseInv`: a helper comes to the end of a timeout only with its group gone |
| `VerdictEarned` | `Spec => VerdictIsEarned` | `PrimaryInv`: after the capability check a Gradle build needs nothing else that it might be refused: it goes straight to the lock of the workspace, so that a status at the end is the tool's or that of a wait that was given up |
| `BlockedIsQuiet` | `Spec => BlockedSessionIsQuiet` | `QuietInv`: while the session is blocked the marker is there, whatever is verified outside it, and its later launches are in front of the marker or were turned away |

`VerificationCacheProofs`, for any number of runs and edits and a scope of any size:

| Theorem | Statement | Inductive invariant, and why |
|---|---|---|
| `FailuresCount` | `Spec => NoFallback` | `FallbackInv`: the runs follow each other (the lock of the Node runner, or no overlap), hence the evidence is gone during a fresh run and stays so once it has failed |
| `PassIsEarned` | `Spec => PassIsReal` | `RealInv`: a fingerprint, read file by file, is the tree of some moment of the run, or a file was missed, and, unless a content came back during the run, the second fingerprint cannot agree with it any more (`Missed`, `Compared`, `Traced`) |

Nothing is assumed of the edits: contents come back at any time.  What is excused, by the
property itself, is a run during which one did (`rewound`), and the reuse of what such a run
recorded (`doubtful`); section 7 says why the code cannot tell.

`GitLifecycleProofs`, for any files, scopes, and any number of commits and moves:

| Theorem | Statement | Inductive invariant, and why |
|---|---|---|
| `CommitsAreKept` | `Spec => []NoCommitLost` | `AllKept` with `Deletable`: every commit is in the history of a tip, and a branch to be deleted is proved merged, which it remains |
| `ChangesAreKept`, `WorktreesKeepTheirBranch` | `Spec => NothingDiscarded`, `Spec => NoWorktreeOrphaned` | `Discardable`, `Unshared`: what the look found holds, or `since` has a note of who changed it |
| `CommitsAreApproved` | `Spec => CommitIsApproved` | `AsApproved`: until somebody else writes, HEAD, the index and the files are what the preview showed |
| `ReportsAreTrue` | `Spec => ReportIsTrue` | `OnBranch`, `OnOneBranch` |

`Inv` is the conjunction of these parts.  The moves of the others are summed up once
(`Noted`), so that a step of a script and a move of the others are separate arguments.  What
is proved of histories (`HistTransitive`, `HistAppended`, ...) is induction over the
commits, in the form of the least counterexample, as a principle that takes an
operator is beyond the provers.

`UpdaterProofs`, for any number of updates and any behaviour of Docker, git, the boot and people:

| Theorem | Statement | Inductive invariant, and why |
|---|---|---|
| `VolumeIsKept` | `Spec => []VolumeKept` | `Pinned`: the container, and the mounts that were read from it, are on its own volume |
| `StopsArePlanned` | `Spec => UpdateIsPlanned` | `Planned`: at both points of no return the last plan still holds, or others have made it fail |
| `ReportsWhatWasSeen` | `Spec => PassedUpdateServes` | `Seen`: what each later point of the script rests on was shown by this very container |

`NodeWorkspaceProofs`, for any files, sessions, failures and edits:

| Theorem | Statement | Inductive invariant, and why |
|---|---|---|
| `TypeCorrect` | `Spec => []TypeOK` | `TypeOK` |
| `ReadyMeansRestored` | `Spec => []ReadyIsRestored` | `ReadyInv`: the marker speaks of the modules there are, unless they were lost or two sessions crossed (`Vouched`); a marker whose modules were lost speaks of another copy (`Strayed`), as long as contents only go on (`Onward`, `Counted`); an install that was not crossed is alone with its half-written modules (`Alone`) |
| `CommandsAreGated` | `Spec => RunsAsGated` | `GateInv`: the lock and what it protects (`Placed`); of a verification whose source nobody edited, what has been copied is the source, and what was found at the last look is still so unless an unlocked session crossed it (`Gated`, `Looked`) |
| `OnlyUnlockedDisturb` | `Spec => RunIsUndisturbed` | `GateInv`: between verifications there is the lock, whose holder is the only one past it |

`BrowserVerificationProofs`, for any number of items, attempts, kills and interrupts:

| Theorem | Statement | Inductive invariant, and why |
|---|---|---|
| `PassConfirmed`, `FailObserved` | `Spec => []PassIsConfirmed`, `Spec => []FailIsObserved` | `VerdictInv`: the report in the probe's memory and the one in the file say only what was observed (`Truthful`), the exit code 0 is that of a probe that saw every item hold and closed its browser (`ProbeInv`), and the adapter publishes a PASS only from that (`AdapterInv`) |

They rest on two things that are outside this code: a success of `browser_dialog` means that the
response reached the pending dialog, and a cleanup of the browser that is confirmed
means that it is gone.

Only model-checked: liveness (`EveryStartEnds`, `EventuallyDelivered`,
`EveryVerificationEnds`, `EveryUpdateEnds`, `EveryCommandEnds`), since fairness speaks of
ENABLED and is out of the prover's reach.  Every safety property of a passing run is stated
by a theorem; `RollbackIsExact` and `DeliveredInOrder` are proved without a run of their own: what
they say is part of `ImplementsAtomic` and, for sound boards, of `ImplementsOrderedDelivery`.

## 7. Where the code and its documents disagree

* `board_max_event_id` (`scripts/devkit_kanban_notifier.py:114`) answers 0 for a board
  that cannot be read at the very first start; once it can, its whole history is
  sent.  `docs/kanban-notifications.md` says that past events are not sent again.
  Run `notifier_unreadable`.
* The Gradle runner has no lock and does not remove evidence again after a failed
  run: a PASS that an overlapping run of the same request wrote meanwhile remains,
  and is reused, against the comment at `gradle_verification_cached.py:400`.
  Without overlap `NoFallback` holds; Node's lock makes it hold with overlap too.
  Run `cache_fallback`.

The following were met while modelling.  The properties leave them out by name, so
that they hold of everything else.

* Fingerprints are compared before and after the run.  An edit that is undone
  before the second one goes unnoticed, against
  `shared/references/verification-level-policy.md:37` (a result is void if the code changed
  during the run), and the PASS that was recorded is reused.  `PassIsReal` excuses runs during
  which a content came back and the reuse of what they recorded; with only one of the two
  excuses it is violated.
* `dependency_state` (`node_workspace.py:206`) removes `node_modules` and leaves the
  fingerprint of the restore behind.  When an edit of the manifest is taken back, that
  fingerprint matches again and vouches for whatever is in `node_modules` by then: a
  removal that was cut short, a restore that failed half way; `SKILL.md:512` of
  dev-node-dependencies asks for a new restore.  `ReadyIsRestored` excuses *lost* and *back*
  together; each of them alone is covered.
* Preflights, plain syncs (`node_workspace.py:314`, `SKILL.md:489`), restores and marks take no
  lock.  They may copy other files under a verification that has had its last look, so
  that its command starts on what nobody checked, and remove or replace the modules
  under a running command.  `RunsAsGated` excuses what was *crossed* in that way,
  `RunIsUndisturbed` says that nothing else does it.
* A preflight assesses the modules and removes them later: if another session restores
  and marks in between, marked modules are removed, half or all, and the mark stays.
  *crossed* in `ReadyIsRestored`.
* `mark_dependencies_restored` compares the source with the copy, not with what the
  restore saw.  A copy taken by another session (or by one that was killed) between
  the restore and the mark makes the older modules pass, against `SKILL.md:529`, by
  which a mark is refused when the source has changed since.  *crossed* again.
* `create_pr.py` compares the local head with the remote one, and neither with the
  preview of `prepare_pr.py`: the pull request may show a later commit than the one previewed.
* A browser attempt that is interrupted while it is stopping its probe leaves the probe
  running, and a probe that is killed leaves its browser, which is in a session of its own;
  the report's cleanup speaks of the adapter's process groups only, and says PASS, against
  `browser-verification.md:67` of dev-frontend-test (the end of the parent is no ground to
  declare the whole cleanup passed).  A verdict of PASS is never published then:
  `PassIsConfirmed` asks for the browser to be gone.
* A probe of dialogs that SIGTERM reaches outside a case replaces its report by one without
  any case (`Cancelled`; `probe_managed_dialog.py`, `main`), against line 51 of the same
  document, by which earlier evidence of a failure is not overwritten.
* A launch of the Gradle helper that gives up the lock of the workspace (`hermes-java:289-297`,
  exit status 2) is reported as `FAIL` with `BUILD_FAILURE` (`gradle_verification.py:515-523`), although
  no build ran.  With the default timeouts the helper's own comes first, but both are
  options.  `VerdictIsEarned` excuses exactly this; the helper cannot tell the two apart.
* A Gradle verification without a task id or a session id that ends BLOCKED prints
  `SESSION_DIRECT_GRADLE_ALLOWED=false` (`gradle_verification.py:477`, `:576`) and writes no marker
  (`:75-76`, `:93-94`), and `hermes-java:97-99` looks for none: direct launches go on.
  `BlockedSessionIsQuiet` speaks of the launches and verifications of a session.
* The exit status 73 by which `hermes-java:294` recognises a lock timeout may as well be
  the build's own.

## 8. What is not modelled, and the limits of what is

* Migration: power loss is not modelled: `atomic()` syncs the file and not its directory.
  `Quiet` says that nobody else writes the data root during a transaction, as the boot
  phase is meant to guarantee; without it an edit between the reading of `config.yaml` and its
  replacement, and one between the comparison and the restoration in the
  rollback, are overwritten.  Recovery by a person from a *prepared* journal is not
  modelled; `Recoverable` says that what is needed is there.
* Boot: two containers on one volume are not; `assert_boot_quiet` looks at its own
  `/run/service` only.
* Notifier: a board file deleted and made anew under its name inherits the old cursor,
  since cursors are looked up by name: its first events are skipped.  `NoEventSkipped`
  leaves such boards out.
* Cache: two overlapping Maven runs have the window of the Gradle runner too, on the exit
  after a failed second fingerprint.  The engine is what it reads and whether it passes;
  that it takes the locks of `BuildLauncher` is left to that module.
* Engines: what a build prints, and how a failure is classified from it, is one of a few
  outcomes.  The look at hanging processes changes nothing, but takes time.  Temporary
  files of killed launches stay and are nobody else's.  By default the helpers' timeouts
  (180 and 240 s, up to 600 s under the cached runner) run out before those of the locks
  (600 s each, which begin later); all of them are options, and here any
  of them may be the first, for the launches of a helper as for direct ones.  The model
  has one session beside those that run outside any.
  The session guard is looked at before the wait for the lock, so that a direct launch
  that began before the session was blocked may still build in it (it is not in `late`).  An archive that is
  bad and has no checksum to tell stays in the cache, and every later launch fails.
* Git: remotes that are not at GitHub are left out, a fingerprint is read in one step,
  and the base branch is known.  `NothingDiscarded`, `NoWorktreeOrphaned`, `CommitIsApproved` and
  `ReportIsTrue` excuse what others do after the last look of the script (`since`);
  `NoCommitLost` excuses what they push between `ls-remote` and `git push --delete`, which
  names no commit.  The blocked report of a cleanup on the base branch does not say that
  a tracked local branch was deleted already.
* Updater: a person who removes the container, or brings it up without the preserved
  mounts, is not modelled, nor are two updaters at once or a foreign edit of the checkout; a
  container that is not the kit's is as good as a stopped one.  What comes up after the
  last look at the plan is excused (`meddled`), and `-SkipVerify` does without the last
  part of `PassedUpdateServes`.  A failure after the stop leaves the container stopped, as
  README.md says; a person starts it.
* Node: gates, fingerprints and marks read their files in one step, copies are taken file
  by file, and a removal is in two steps with everything half removed between them.  Modules are
  what the package asks for or they are not: which of them are missing is abstracted.
  The gate reads the source before a wait of up to 600 s; `RunsAsGated` excuses what was
  edited meanwhile.  A decision about builds
  is written as it was planned, over what another session has decided in between; no
  property speaks of that.  A command whose runtime was killed may run on without the
  lock, and is not followed further.  Tirith answers anything; its daemon has no effect
  on what is modelled.
* Browser: hermes mode only; `testing.py`, the modes for development (agent-browser,
  policy-model) and the older trace format of `browser_dialog_trace.py` are left out, and
  what a check does on its page is one of its outcomes.  Between `_port` and the start of
  the server another process may take the port; then the server fails to start or the probe
  talks to a stranger, and the model has the first only.  `verify_*_runtime.py` install no
  handler for SIGTERM, which kills them (`KillAdapter`).  Attempts share nothing but the root
  report, which is the latest of them by design.
* One-shot readers and writers (guards, detectors, project setup, intake), build-time
  patches and smoke checks have no state to get wrong over time.
* Wording, YAML layout, the parsing of boards and of engine output are abstracted.

## 9. Plan

Done, in this order because a mistake in the first loses user data and the others
build on durable state in the same way: migration, boot, notifier, cache, git, engines,
updater, Node workspace, browser; then the proofs of every safety property and of both
refinements.

1. Pure decisions (`desired`, `renamed_skill_dir`, the classification of engine output, the
   detectors and guards) against reference definitions.
2. Abstract specifications of the engines (a lock service) and of the evidence cache, with
   refinements to be checked and proved.
3. Theorems under weaker assumptions: the migration with edits that fall outside the two
   windows of section 8 in place of `Quiet`; the boot with several containers.
