------------------------- MODULE MCProfileMigration -------------------------
(* Model checking of ProfileMigration, and of its refinement of            *)
(* AtomicMigration, on small instances.                                    *)
EXTENDS ProfileMigrationRefinement, TLC

\* Invocations are interchangeable, and so are the roles.
Symmetry == Permutations(Proc) \union Permutations(Role)
=============================================================================
