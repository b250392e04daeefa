--------------------- MODULE ProfileMigrationRefinement ---------------------
(***************************************************************************)
(* The migration implements AtomicMigration when nobody else writes during *)
(* a transaction (Quiet).  While the journal is "prepared" the data root   *)
(* to be had is the one the transaction found; Recoverable says that it    *)
(* can be had from the journal and the backup.                             *)
(***************************************************************************)
EXTENDS ProfileMigration

Prepared == journal.phase = "prepared"

AbstractPhase ==
  IF ~Prepared THEN "settled"
  ELSE IF \E p \in Proc : Owns(p) THEN "open" ELSE "stranded"

Atomic == INSTANCE AtomicMigration WITH
  config  <- IF Prepared THEN snap.config ELSE config,
  active  <- IF Prepared THEN snap.active ELSE active,
  archive <- IF Prepared THEN snap.archive ELSE archive,
  overlay <- IF Prepared THEN snap.overlay ELSE overlay,
  phase   <- AbstractPhase

\* Every behaviour of the program is, seen through its journal, one of a
\* migration that happens at once or not at all.
ImplementsAtomic == Atomic!Spec
=============================================================================
