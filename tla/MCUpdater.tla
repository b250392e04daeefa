------------------------------ MODULE MCUpdater ------------------------------
(* Model checking of Updater: any number of updates of one container. *)
EXTENDS Updater
==============================================================================
