--------------------------- MODULE AtomicMigration ---------------------------
(***************************************************************************)
(* What the profile migration promises: it is all or nothing.  The data    *)
(* root changes to its migrated form in one step, or not at all, and a     *)
(* migration that was cut short is stranded for good, with the data root   *)
(* it started from still to be had (from the journal and its backup).      *)
(***************************************************************************)
EXTENDS Integers

CONSTANTS Role, NoHome

VARIABLES
  config,   \* the configuration: the edit it stems from, and if it is migrated
  active,   \* the home of each role, NoHome if none
  archive,  \* the archived home of each role
  overlay,  \* the overlay markers
  phase     \* "settled", "open" while a migration runs, or "stranded"

world == <<config, active, archive, overlay>>
vars  == <<world, phase>>

Init ==
  /\ phase = "settled"
  /\ config \in [user: {0}, migrated: BOOLEAN]
  /\ active \in [Role -> Nat]
  /\ archive = [r \in Role |-> NoHome]

\* Users and other programs: a new configuration, or a home in a free place.
Outside ==
  /\ phase = "settled" /\ UNCHANGED <<archive, overlay, phase>>
  /\ \/ config' \in [user: Nat, migrated: BOOLEAN] /\ UNCHANGED active
     \/ /\ UNCHANGED config
        /\ \E r \in Role :
             /\ active[r] = NoHome /\ active'[r] # NoHome
             /\ active' = [active EXCEPT ![r] = active'[r]]

Start == phase = "settled" /\ phase' = "open" /\ UNCHANGED world

Commit ==
  /\ phase = "open" /\ phase' = "settled"
  /\ config' = [config EXCEPT !.migrated = TRUE]
  /\ active' = [r \in Role |-> NoHome]
  /\ archive' = [r \in Role |-> IF active[r] = NoHome THEN archive[r] ELSE active[r]]
  /\ overlay' = {}

Abort  == phase = "open" /\ phase' = "settled" /\ UNCHANGED world
Strand == phase = "open" /\ phase' = "stranded" /\ UNCHANGED world

Next == Outside \/ Start \/ Commit \/ Abort \/ Strand
Spec == Init /\ [][Next]_vars
=============================================================================
