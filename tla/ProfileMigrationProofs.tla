----------------------- MODULE ProfileMigrationProofs -----------------------
(***************************************************************************)
(* Machine-checked proofs about the profile migration and the boot hooks   *)
(* around it, for any number of containers, invocations and roles and any  *)
(* bounds.                                                                 *)
(***************************************************************************)
EXTENDS ProfileMigrationRefinement, BootGate, TLAPS

-----------------------------------------------------------------------------
(* Type correctness *)

\* The initial values have their types.
LEMMA TypeInit == Init => TypeOK
<1> SUFFICES ASSUME Init PROVE TypeOK
  OBVIOUS
<1>1. config \in Config /\ Blank \in Config
  BY DEF Init, Config, Blank
<1>2. active \in [Role -> Nat] /\ archive \in [Role -> Nat]
  BY DEF Init, NoHome, FirstHome
<1>3. legacyArchive \in [Role -> Nat]
  BY BoundAssumption DEF Init, NoHome, FirstHome
<1>4. overlay \in SUBSET MarkerDir
  BY DEF Init, MarkerDir
<1>5. journal \in Journal /\ legacyJournal \in JournalPhase
  BY <1>1 DEF Init, Journal, JournalPhase
<1>6. backups \in [1..MaxRuns -> Backup]
  BY <1>1 DEF Init, Backup
<1>7. tx \in [Proc -> Tx]
  BY <1>1 DEF Init, EmptyTx, Tx
<1>8. pc \in [Proc -> Running \union Ended]
  BY DEF Init, Ended
<1>9. homes \in [Role -> SUBSET Nat]
  BY <1>2, <1>3 DEF Init
<1>10. snap \in Snapshot
  BY <1>1, <1>2, <1>4 DEF Init, Snapshot
<1>11. legacyDir \in BOOLEAN /\ tasks \in BOOLEAN
  BY Zenon DEF Init
<1>12. runs \in 0..MaxRuns /\ edits \in 0..MaxEdits
  BY BoundAssumption DEF Init
<1>13. lock \in Proc \union {NoProc} /\ legacyLock \in Proc \union {NoProc, OldVersion}
  BY DEF Init
<1> QED
  BY <1>1, <1>2, <1>3, <1>4, <1>5, <1>6, <1>7, <1>8, <1>9, <1>10, <1>11,
     <1>12, <1>13
  DEF TypeOK

\* TypeOK alone is not inductive: the rollback puts the recorded marker back, so
\* a retired marker has to be a real one, and nothing is retired before Replan.
Early == {"plan", "exclusive", "lock", "replan"}

RetiredWell ==
  \A p \in Proc : /\ pc[p] \in Early => ~tx[p].retired
                  /\ tx[p].retired => tx[p].overlay \in MarkerDir

TypeInv == TypeOK /\ RetiredWell

\* Every step keeps the types; the rollback needs that a retired marker was a real
\* one.
LEMMA TypeStep == TypeInv /\ [Next]_vars => TypeOK'
<1> SUFFICES ASSUME TypeOK, RetiredWell, Next PROVE TypeOK'
  BY DEF TypeInv, vars, data, locks, past, outer, TypeOK
<1> USE DEF TypeOK, data, locks, past, outer
<1>1. ASSUME NEW p \in Proc, Begin(p) PROVE TypeOK'
  <2>1. runs + 1 \in Nat /\ runs + 1 \in 0..MaxRuns
    BY <1>1, BoundAssumption DEF Begin
  <2>2. EmptyTx(runs + 1) \in Tx
    BY <2>1 DEF EmptyTx, Tx, Config, Blank
  <2>3. tx' \in [Proc -> Tx]
    BY <1>1, <2>2 DEF Begin
  <2> QED
    BY <1>1, <2>1, <2>3 DEF Begin, Goto, Running
<1>2. ASSUME NEW p \in Proc, PlanUnchanged(p) PROVE TypeOK'
  BY <1>2 DEF PlanUnchanged, Goto, Ended
<1>3. ASSUME NEW p \in Proc, PlanWork(p) PROVE TypeOK'
  BY <1>3 DEF PlanWork, Goto, Running, Locking
<1>4. ASSUME NEW p \in Proc, PlanBlocked(p) PROVE TypeOK'
  BY <1>4 DEF PlanBlocked, Goto, Ended
<1>5. ASSUME NEW p \in Proc, LockLegacy(p) PROVE TypeOK'
  BY <1>5 DEF LockLegacy, Goto, Running, Locking
<1>6. ASSUME NEW p \in Proc, LockNew(p) PROVE TypeOK'
  BY <1>6 DEF LockNew, Goto, Running
<1>7. ASSUME NEW p \in Proc, LockFails(p) PROVE TypeOK'
  BY <1>7 DEF LockFails, Goto, Ended, Release
<1>8. ASSUME NEW p \in Proc, Replan(p) PROVE TypeOK'
  <2> DEFINE changes == config # Desired(config)
             marker  == IF overlay = {} THEN NoMarker
                        ELSE CHOOSE d \in MarkerDir : d \in overlay
             planned == [tx[p] EXCEPT !.target = Desired(config), !.changes = changes,
                                      !.jobs = Jobs, !.overlay = marker]
  <2>1. Desired(config) \in Config /\ Jobs \subseteq Role
    BY DEF Desired, Config, Jobs
  <2>2. marker \in MarkerDir \union {NoMarker}
    OBVIOUS
  <2>3. changes \in BOOLEAN
    OBVIOUS
  <2>4. tx' = [tx EXCEPT ![p] = planned]
    BY <1>8 DEF Replan
  <2> HIDE DEF changes, marker
  <2>5. planned \in Tx
    BY <2>1, <2>2, <2>3 DEF Tx
  <2>6. tx' \in [Proc -> Tx]
    BY <2>4, <2>5
  <2> QED
    BY <1>8, <2>6 DEF Replan, Goto, Running, InTx
<1>9. ASSUME NEW p \in Proc, BackUp(p) PROVE TypeOK'
  BY <1>9 DEF BackUp, Goto, Running, InTx, Tx, Backup
<1>10. ASSUME NEW p \in Proc, Prepare(p) PROVE TypeOK'
  BY <1>10 DEF Prepare, Goto, Running, InTx, Forward, Journal, JournalPhase, Tx, Snapshot
<1>11. ASSUME NEW p \in Proc, FailsEarly(p) PROVE TypeOK'
  BY <1>11 DEF FailsEarly, Goto, Ended, Release
<1>12. ASSUME NEW p \in Proc, NEW r \in Role, MoveRole(p, r) PROVE TypeOK'
  <2> DEFINE jobs  == tx[p].jobs \ {r}
             moved == tx[p].moved \union {r}
             going == [tx[p] EXCEPT !.jobs = jobs, !.moved = moved]
  <2>1. jobs \in SUBSET Role /\ moved \in SUBSET Role
    BY DEF Tx
  <2>2. tx' = [tx EXCEPT ![p] = going]
    BY <1>12 DEF MoveRole
  <2>3. tx' \in [Proc -> Tx]
    <3> HIDE DEF jobs, moved
    <3>1. tx[p] \in Tx
      OBVIOUS
    <3>2. going \in Tx
      BY ONLY <2>1, <3>1 DEF Tx
    <3> QED
      BY <2>2, <3>2
  <2>4. active' \in [Role -> Nat] /\ archive' \in [Role -> Nat]
    BY <1>12 DEF MoveRole, NoHome
  <2> QED
    BY <1>12, <2>3, <2>4 DEF MoveRole, Goto, Running, InTx, Forward
<1>13. ASSUME NEW p \in Proc, RecordMove(p) PROVE TypeOK'
  BY <1>13 DEF RecordMove, Goto, Running, InTx, Forward, Journal, JournalPhase, Tx
<1>14. ASSUME NEW p \in Proc, WriteConfig(p) PROVE TypeOK'
  BY <1>14 DEF WriteConfig, Goto, Running, InTx, Forward, Tx
<1>15. ASSUME NEW p \in Proc, ConfigInPlace(p) PROVE TypeOK'
  BY <1>15 DEF ConfigInPlace, Goto, Running, InTx, Forward
<1>16. ASSUME NEW p \in Proc, NoOverlayToRetire(p) PROVE TypeOK'
  BY <1>16 DEF NoOverlayToRetire, Goto, Running, InTx, Forward
<1>17. ASSUME NEW p \in Proc, RetireOverlay(p) PROVE TypeOK'
  <2>1. overlay' \in SUBSET MarkerDir
    BY <1>17 DEF RetireOverlay
  <2>2. backups' \in [1..MaxRuns -> Backup]
    BY <1>17 DEF RetireOverlay, Tx, Backup
  <2>3. tx' \in [Proc -> Tx]
    <3>1. tx[p] \in Tx /\ [tx[p] EXCEPT !.retired = TRUE] \in Tx
      BY ONLY tx \in [Proc -> Tx], p \in Proc DEF Tx
    <3>2. tx' = [tx EXCEPT ![p] = [tx[p] EXCEPT !.retired = TRUE]]
      BY <1>17 DEF RetireOverlay
    <3> QED
      BY <3>1, <3>2
  <2> QED
    BY <1>17, <2>1, <2>2, <2>3 DEF RetireOverlay, Goto, Running, InTx, Forward
<1>18. ASSUME NEW p \in Proc, Commit(p) PROVE TypeOK'
  BY <1>18 DEF Commit, Goto, Ended, Release, Journal, JournalPhase, Tx
<1>19. ASSUME NEW p \in Proc, Fails(p) PROVE TypeOK'
  BY <1>19 DEF Fails, Goto, Running, InTx, Rollback
<1>20. ASSUME NEW p \in Proc, RollBackOverlay(p) PROVE TypeOK'
  <2>1. CASE tx[p].retired /\ tx[p].overlay \notin overlay
    <3>1. overlay' \in SUBSET MarkerDir
      BY <1>20, <2>1 DEF RollBackOverlay, RetiredWell
    <3>2. backups' = [backups EXCEPT ![tx[p].run].overlay = NoMarker]
      BY <1>20, <2>1 DEF RollBackOverlay
    <3>3. backups' \in [1..MaxRuns -> Backup]
      BY <3>2 DEF Backup
    <3> QED
      BY <1>20, <3>1, <3>3 DEF RollBackOverlay, Goto, Running, InTx, Rollback
  <2>2. CASE ~(tx[p].retired /\ tx[p].overlay \notin overlay)
    BY <1>20, <2>2 DEF RollBackOverlay, Goto, Running, InTx, Rollback
  <2> QED
    BY <2>1, <2>2
<1>21. ASSUME NEW p \in Proc, CheckConfig(p) PROVE TypeOK'
  BY <1>21 DEF CheckConfig, Goto, Running, InTx, Rollback
<1>22. ASSUME NEW p \in Proc, RestoreConfig(p) PROVE TypeOK'
  BY <1>22 DEF RestoreConfig, Goto, Running, InTx, Rollback, Tx
<1>23. ASSUME NEW p \in Proc, NEW r \in Role, RestoreRole(p, r) PROVE TypeOK'
  <2>1. tx' \in [Proc -> Tx]
    BY <1>23 DEF RestoreRole, Tx
  <2>2. active' \in [Role -> Nat] /\ archive' \in [Role -> Nat]
    BY <1>23 DEF RestoreRole, NoHome
  <2> QED
    BY <1>23, <2>1, <2>2 DEF RestoreRole
<1>24. ASSUME NEW p \in Proc, RecordRolledBack(p) PROVE TypeOK'
  BY <1>24 DEF RecordRolledBack, Goto, Ended, Release, Journal, JournalPhase, Tx
<1>25. ASSUME NEW p \in Proc, RollbackFails(p) PROVE TypeOK'
  BY <1>25 DEF RollbackFails, Goto, Ended, Release
<1>26. ASSUME NEW p \in Proc, Killed(p) PROVE TypeOK'
  BY <1>26 DEF Killed, Goto, Ended, Release
<1>27. CASE EditConfig
  BY <1>27, BoundAssumption DEF EditConfig, MayInterfere, Config
<1>28. CASE StartTask
  BY <1>28, BoundAssumption DEF StartTask, MayInterfere
<1>29. CASE FinishTask
  BY <1>29, BoundAssumption DEF FinishTask
<1>30. CASE OldVersionStarts
  BY <1>30, BoundAssumption DEF OldVersionStarts, JournalPhase
<1>31. CASE OldVersionEnds
  BY <1>31, BoundAssumption DEF OldVersionEnds, JournalPhase
<1>32. ASSUME NEW r \in Role, CreateHome(r) PROVE TypeOK'
  BY <1>32, BoundAssumption DEF CreateHome, MayInterfere, NoHome, FirstHome
<1> QED
  BY <1>1, <1>2, <1>3, <1>4, <1>5, <1>6, <1>7, <1>8, <1>9, <1>10, <1>11,
     <1>12, <1>13, <1>14, <1>15, <1>16, <1>17, <1>18, <1>19, <1>20, <1>21,
     <1>22, <1>23, <1>24, <1>25, <1>26, <1>27, <1>28, <1>29, <1>30, <1>31,
     <1>32
  DEF Next, ProgressStep, Environment

\* A marker is only ever retired if there was one.
LEMMA RetiredStep == TypeInv /\ [Next]_vars => RetiredWell'
<1> SUFFICES ASSUME TypeOK, RetiredWell, [Next]_vars PROVE RetiredWell'
  BY DEF TypeInv
<1> USE DEF TypeOK, RetiredWell, Early, Goto, data, locks, past, outer
<1>1. ASSUME NEW p \in Proc, Begin(p) PROVE RetiredWell'
  BY <1>1 DEF Begin, EmptyTx
<1>2. ASSUME NEW p \in Proc, PlanUnchanged(p) PROVE RetiredWell'
  BY <1>2 DEF PlanUnchanged
<1>3. ASSUME NEW p \in Proc, PlanWork(p) PROVE RetiredWell'
  BY <1>3 DEF PlanWork
<1>4. ASSUME NEW p \in Proc, PlanBlocked(p) PROVE RetiredWell'
  BY <1>4 DEF PlanBlocked
<1>5. ASSUME NEW p \in Proc, LockLegacy(p) PROVE RetiredWell'
  BY <1>5 DEF LockLegacy
<1>6. ASSUME NEW p \in Proc, LockNew(p) PROVE RetiredWell'
  BY <1>6 DEF LockNew
<1>7. ASSUME NEW p \in Proc, LockFails(p) PROVE RetiredWell'
  BY <1>7 DEF LockFails
<1>8. ASSUME NEW p \in Proc, Replan(p) PROVE RetiredWell'
  BY <1>8 DEF Replan
<1>9. ASSUME NEW p \in Proc, BackUp(p) PROVE RetiredWell'
  BY <1>9 DEF BackUp
<1>10. ASSUME NEW p \in Proc, Prepare(p) PROVE RetiredWell'
  BY <1>10 DEF Prepare
<1>11. ASSUME NEW p \in Proc, FailsEarly(p) PROVE RetiredWell'
  BY <1>11 DEF FailsEarly
<1>12. ASSUME NEW p \in Proc, RecordMove(p) PROVE RetiredWell'
  BY <1>12 DEF RecordMove
<1>13. ASSUME NEW p \in Proc, WriteConfig(p) PROVE RetiredWell'
  BY <1>13 DEF WriteConfig
<1>14. ASSUME NEW p \in Proc, ConfigInPlace(p) PROVE RetiredWell'
  BY <1>14 DEF ConfigInPlace
<1>15. ASSUME NEW p \in Proc, NoOverlayToRetire(p) PROVE RetiredWell'
  BY <1>15 DEF NoOverlayToRetire
<1>16. ASSUME NEW p \in Proc, RetireOverlay(p) PROVE RetiredWell'
  BY <1>16 DEF RetireOverlay
<1>17. ASSUME NEW p \in Proc, Commit(p) PROVE RetiredWell'
  BY <1>17 DEF Commit
<1>18. ASSUME NEW p \in Proc, Fails(p) PROVE RetiredWell'
  BY <1>18 DEF Fails
<1>19. ASSUME NEW p \in Proc, RollBackOverlay(p) PROVE RetiredWell'
  BY <1>19 DEF RollBackOverlay
<1>20. ASSUME NEW p \in Proc, CheckConfig(p) PROVE RetiredWell'
  BY <1>20 DEF CheckConfig
<1>21. ASSUME NEW p \in Proc, RestoreConfig(p) PROVE RetiredWell'
  BY <1>21 DEF RestoreConfig
<1>22. ASSUME NEW p \in Proc, RecordRolledBack(p) PROVE RetiredWell'
  BY <1>22 DEF RecordRolledBack
<1>23. ASSUME NEW p \in Proc, RollbackFails(p) PROVE RetiredWell'
  BY <1>23 DEF RollbackFails
<1>24. ASSUME NEW p \in Proc, Killed(p) PROVE RetiredWell'
  BY <1>24 DEF Killed
<1>25. ASSUME NEW p \in Proc, NEW r \in Role, MoveRole(p, r) PROVE RetiredWell'
  BY <1>25 DEF MoveRole
<1>26. ASSUME NEW p \in Proc, NEW r \in Role, RestoreRole(p, r) PROVE RetiredWell'
  BY <1>26 DEF RestoreRole
<1>27. CASE EditConfig
  BY <1>27 DEF EditConfig
<1>28. CASE StartTask
  BY <1>28 DEF StartTask
<1>29. CASE FinishTask
  BY <1>29 DEF FinishTask
<1>30. CASE OldVersionStarts
  BY <1>30 DEF OldVersionStarts
<1>31. CASE OldVersionEnds
  BY <1>31 DEF OldVersionEnds
<1>32. ASSUME NEW r \in Role, CreateHome(r) PROVE RetiredWell'
  BY <1>32 DEF CreateHome
<1>33. CASE UNCHANGED vars
  BY <1>33 DEF vars
<1> QED
  BY <1>1, <1>2, <1>3, <1>4, <1>5, <1>6, <1>7, <1>8, <1>9, <1>10, <1>11,
     <1>12, <1>13, <1>14, <1>15, <1>16, <1>17, <1>18, <1>19, <1>20, <1>21,
     <1>22, <1>23, <1>24, <1>25, <1>26, <1>27, <1>28, <1>29, <1>30, <1>31,
     <1>32, <1>33
  DEF Next, ProgressStep, Environment

\* Every variable keeps to its type in every behaviour: in particular a journal
\* on disk always carries a phase the next invocation can read.
THEOREM TypeCorrect == Spec => []TypeOK
<1>1. Init => TypeInv
  BY TypeInit DEF TypeInv, RetiredWell, Init, EmptyTx
<1>2. TypeInv /\ [Next]_vars => TypeInv'
  BY TypeStep, RetiredStep DEF TypeInv
<1> QED
  BY <1>1, <1>2, PTL DEF Spec, TypeInv

-----------------------------------------------------------------------------
(* Mutual exclusion *)

\* Whoever is past LockNew and not yet at its end holds the new lock.
LockHeld == \A p \in Proc : pc[p] \in Exclusive => lock = p

\* Whoever enters the exclusive part takes the lock, and nobody else releases it.
LEMMA LockHeldStep == TypeOK /\ LockHeld /\ [Next]_vars => LockHeld'
<1> SUFFICES ASSUME TypeOK, LockHeld, [Next]_vars PROVE LockHeld'
  OBVIOUS
<1> USE ProcAssumption DEF TypeOK, LockHeld, Exclusive, InTx, Forward, Rollback, Goto,
                           Release, data, locks, past, outer
<1>1. ASSUME NEW p \in Proc, Begin(p) PROVE LockHeld'
  BY <1>1 DEF Begin, Ended
<1>2. ASSUME NEW p \in Proc, PlanUnchanged(p) PROVE LockHeld'
  BY <1>2 DEF PlanUnchanged
<1>3. ASSUME NEW p \in Proc, PlanWork(p) PROVE LockHeld'
  BY <1>3 DEF PlanWork
<1>4. ASSUME NEW p \in Proc, PlanBlocked(p) PROVE LockHeld'
  BY <1>4 DEF PlanBlocked
<1>5. ASSUME NEW p \in Proc, LockLegacy(p) PROVE LockHeld'
  BY <1>5 DEF LockLegacy
<1>6. ASSUME NEW p \in Proc, LockNew(p) PROVE LockHeld'
  BY <1>6 DEF LockNew
<1>7. ASSUME NEW p \in Proc, LockFails(p) PROVE LockHeld'
  BY <1>7 DEF LockFails, Locking
<1>8. ASSUME NEW p \in Proc, Replan(p) PROVE LockHeld'
  BY <1>8 DEF Replan
<1>9. ASSUME NEW p \in Proc, BackUp(p) PROVE LockHeld'
  BY <1>9 DEF BackUp
<1>10. ASSUME NEW p \in Proc, Prepare(p) PROVE LockHeld'
  BY <1>10 DEF Prepare
<1>11. ASSUME NEW p \in Proc, FailsEarly(p) PROVE LockHeld'
  BY <1>11 DEF FailsEarly
<1>12. ASSUME NEW p \in Proc, RecordMove(p) PROVE LockHeld'
  BY <1>12 DEF RecordMove
<1>13. ASSUME NEW p \in Proc, WriteConfig(p) PROVE LockHeld'
  BY <1>13 DEF WriteConfig
<1>14. ASSUME NEW p \in Proc, ConfigInPlace(p) PROVE LockHeld'
  BY <1>14 DEF ConfigInPlace, ConfigSettled
<1>15. ASSUME NEW p \in Proc, NoOverlayToRetire(p) PROVE LockHeld'
  BY <1>15 DEF NoOverlayToRetire
<1>16. ASSUME NEW p \in Proc, RetireOverlay(p) PROVE LockHeld'
  BY <1>16 DEF RetireOverlay
<1>17. ASSUME NEW p \in Proc, Commit(p) PROVE LockHeld'
  BY <1>17 DEF Commit
<1>18. ASSUME NEW p \in Proc, Fails(p) PROVE LockHeld'
  BY <1>18 DEF Fails
<1>19. ASSUME NEW p \in Proc, RollBackOverlay(p) PROVE LockHeld'
  BY <1>19 DEF RollBackOverlay
<1>20. ASSUME NEW p \in Proc, CheckConfig(p) PROVE LockHeld'
  BY <1>20 DEF CheckConfig
<1>21. ASSUME NEW p \in Proc, RestoreConfig(p) PROVE LockHeld'
  BY <1>21 DEF RestoreConfig
<1>22. ASSUME NEW p \in Proc, RecordRolledBack(p) PROVE LockHeld'
  BY <1>22 DEF RecordRolledBack
<1>23. ASSUME NEW p \in Proc, RollbackFails(p) PROVE LockHeld'
  BY <1>23 DEF RollbackFails
<1>24. ASSUME NEW p \in Proc, Killed(p) PROVE LockHeld'
  BY <1>24 DEF Killed, Running
<1>25. ASSUME NEW p \in Proc, NEW r \in Role, MoveRole(p, r) PROVE LockHeld'
  BY <1>25 DEF MoveRole
<1>26. ASSUME NEW p \in Proc, NEW r \in Role, RestoreRole(p, r) PROVE LockHeld'
  BY <1>26 DEF RestoreRole
<1>27. CASE EditConfig
  BY <1>27 DEF EditConfig
<1>28. CASE StartTask
  BY <1>28 DEF StartTask
<1>29. CASE FinishTask
  BY <1>29 DEF FinishTask
<1>30. CASE OldVersionStarts
  BY <1>30 DEF OldVersionStarts
<1>31. CASE OldVersionEnds
  BY <1>31 DEF OldVersionEnds
<1>32. ASSUME NEW r \in Role, CreateHome(r) PROVE LockHeld'
  BY <1>32 DEF CreateHome
<1>33. CASE UNCHANGED vars
  BY <1>33 DEF vars
<1> QED
  BY <1>1, <1>2, <1>3, <1>4, <1>5, <1>6, <1>7, <1>8, <1>9, <1>10, <1>11,
     <1>12, <1>13, <1>14, <1>15, <1>16, <1>17, <1>18, <1>19, <1>20, <1>21,
     <1>22, <1>23, <1>24, <1>25, <1>26, <1>27, <1>28, <1>29, <1>30, <1>31,
     <1>32, <1>33
  DEF Next, ProgressStep, Environment

\* Two transactions never overlap, however many invocations there are.
THEOREM Exclusion == Spec => []MutualExclusion
<1>1. Init => LockHeld
  BY DEF Init, LockHeld, Exclusive, InTx, Forward, Rollback
<1>2. LockHeld => MutualExclusion
  BY DEF LockHeld, MutualExclusion
<1> QED
  BY <1>1, <1>2, LockHeldStep, TypeCorrect, PTL DEF Spec

-----------------------------------------------------------------------------
(* No home is lost *)

\* NoHomeLost is not inductive: a new home has to differ from all there were, and
\* no home is called 0, the content of an empty place.
HomesBounded ==
  \A r \in Role : /\ active[r] <= FirstHome + edits
                  /\ archive[r] <= FirstHome + edits
                  /\ legacyArchive[r] \in {NoHome, FirstHome + MaxEdits + 1}
                  /\ NoHome \notin homes[r]

HomesInv == HomesBounded /\ NoHomeLost

\* Homes are moved and moved back, and a new one gets a number of its own.
LEMMA HomesStep == TypeOK /\ HomesInv /\ [Next]_vars => HomesInv'
<1> SUFFICES ASSUME TypeOK, HomesInv, [Next]_vars PROVE HomesInv'
  OBVIOUS
<1> USE BoundAssumption DEF TypeOK, HomesInv, HomesBounded, NoHomeLost, ExactlyOne,
                            NoHome, FirstHome, MayInterfere, data, locks, past, outer
<1>1. ASSUME NEW p \in Proc, Begin(p) PROVE HomesInv'
  BY <1>1 DEF Begin
<1>2. ASSUME NEW p \in Proc, PlanUnchanged(p) PROVE HomesInv'
  BY <1>2 DEF PlanUnchanged
<1>3. ASSUME NEW p \in Proc, PlanWork(p) PROVE HomesInv'
  BY <1>3 DEF PlanWork
<1>4. ASSUME NEW p \in Proc, PlanBlocked(p) PROVE HomesInv'
  BY <1>4 DEF PlanBlocked
<1>5. ASSUME NEW p \in Proc, LockLegacy(p) PROVE HomesInv'
  BY <1>5 DEF LockLegacy
<1>6. ASSUME NEW p \in Proc, LockNew(p) PROVE HomesInv'
  BY <1>6 DEF LockNew
<1>7. ASSUME NEW p \in Proc, LockFails(p) PROVE HomesInv'
  BY <1>7 DEF LockFails
<1>8. ASSUME NEW p \in Proc, Replan(p) PROVE HomesInv'
  BY <1>8 DEF Replan
<1>9. ASSUME NEW p \in Proc, BackUp(p) PROVE HomesInv'
  BY <1>9 DEF BackUp
<1>10. ASSUME NEW p \in Proc, Prepare(p) PROVE HomesInv'
  BY <1>10 DEF Prepare
<1>11. ASSUME NEW p \in Proc, FailsEarly(p) PROVE HomesInv'
  BY <1>11 DEF FailsEarly
<1>12. ASSUME NEW p \in Proc, RecordMove(p) PROVE HomesInv'
  BY <1>12 DEF RecordMove
<1>13. ASSUME NEW p \in Proc, WriteConfig(p) PROVE HomesInv'
  BY <1>13 DEF WriteConfig
<1>14. ASSUME NEW p \in Proc, ConfigInPlace(p) PROVE HomesInv'
  BY <1>14 DEF ConfigInPlace
<1>15. ASSUME NEW p \in Proc, NoOverlayToRetire(p) PROVE HomesInv'
  BY <1>15 DEF NoOverlayToRetire
<1>16. ASSUME NEW p \in Proc, RetireOverlay(p) PROVE HomesInv'
  BY <1>16 DEF RetireOverlay
<1>17. ASSUME NEW p \in Proc, Commit(p) PROVE HomesInv'
  BY <1>17 DEF Commit
<1>18. ASSUME NEW p \in Proc, Fails(p) PROVE HomesInv'
  BY <1>18 DEF Fails
<1>19. ASSUME NEW p \in Proc, RollBackOverlay(p) PROVE HomesInv'
  BY <1>19 DEF RollBackOverlay
<1>20. ASSUME NEW p \in Proc, CheckConfig(p) PROVE HomesInv'
  BY <1>20 DEF CheckConfig
<1>21. ASSUME NEW p \in Proc, RestoreConfig(p) PROVE HomesInv'
  BY <1>21 DEF RestoreConfig
<1>22. ASSUME NEW p \in Proc, RecordRolledBack(p) PROVE HomesInv'
  BY <1>22 DEF RecordRolledBack
<1>23. ASSUME NEW p \in Proc, RollbackFails(p) PROVE HomesInv'
  BY <1>23 DEF RollbackFails
<1>24. ASSUME NEW p \in Proc, Killed(p) PROVE HomesInv'
  BY <1>24 DEF Killed
<1>25. ASSUME NEW p \in Proc, NEW r \in Role, MoveRole(p, r) PROVE HomesInv'
  BY <1>25 DEF MoveRole
<1>26. ASSUME NEW p \in Proc, NEW r \in Role, RestoreRole(p, r) PROVE HomesInv'
  BY <1>26 DEF RestoreRole
<1>27. CASE EditConfig
  BY <1>27 DEF EditConfig
<1>28. CASE StartTask
  BY <1>28 DEF StartTask
<1>29. CASE FinishTask
  BY <1>29 DEF FinishTask
<1>30. CASE OldVersionStarts
  BY <1>30 DEF OldVersionStarts
<1>31. CASE OldVersionEnds
  BY <1>31 DEF OldVersionEnds
<1>32. ASSUME NEW r \in Role, CreateHome(r) PROVE HomesInv'
  BY <1>32 DEF CreateHome
<1>33. CASE UNCHANGED vars
  BY <1>33 DEF vars
<1> QED
  BY <1>1, <1>2, <1>3, <1>4, <1>5, <1>6, <1>7, <1>8, <1>9, <1>10, <1>11,
     <1>12, <1>13, <1>14, <1>15, <1>16, <1>17, <1>18, <1>19, <1>20, <1>21,
     <1>22, <1>23, <1>24, <1>25, <1>26, <1>27, <1>28, <1>29, <1>30, <1>31,
     <1>32, <1>33
  DEF Next, ProgressStep, Environment

\* Every home that ever existed is in exactly one place, whatever fails.
THEOREM HomesSurvive == Spec => []NoHomeLost
<1>1. Init => HomesInv
  <2> SUFFICES ASSUME Init, NEW r \in Role
               PROVE  /\ active[r] <= FirstHome + edits
                      /\ archive[r] <= FirstHome + edits
                      /\ legacyArchive[r] \in {NoHome, FirstHome + MaxEdits + 1}
                      /\ NoHome \notin homes[r]
                      /\ \A h \in homes[r] :
                           ExactlyOne(active[r] = h, archive[r] = h, legacyArchive[r] = h)
    BY DEF HomesInv, HomesBounded, NoHomeLost
  <2> USE BoundAssumption DEF NoHome, FirstHome
  <2>1. active[r] \in {NoHome, FirstHome} /\ archive[r] = NoHome /\ edits = 0
    BY DEF Init
  <2>2. legacyArchive[r] \in {NoHome, FirstHome + MaxEdits + 1}
    BY DEF Init
  <2>3. homes[r] = {active[r], legacyArchive[r]} \ {NoHome}
    BY DEF Init
  <2> QED
    BY <2>1, <2>2, <2>3 DEF ExactlyOne
<1>2. HomesInv => NoHomeLost
  BY DEF HomesInv
<1> QED
  BY <1>1, <1>2, HomesStep, TypeCorrect, PTL DEF Spec

-----------------------------------------------------------------------------
(* A stranded transaction is frozen *)

\* A transaction past Prepare owns the prepared journal; before Prepare the
\* journal under the lock is not prepared.
OwnerInv ==
  \A p \in Proc :
    /\ pc[p] \in {"backup", "prepare"} => journal.phase # "prepared"
    /\ pc[p] \in Forward \union Rollback =>
         journal.phase = "prepared" /\ journal.run = tx[p].run

FrozenInv == TypeOK /\ LockHeld /\ OwnerInv

\* The transaction of a prepared journal has one owner, while it is under way.
LEMMA OwnerStep == FrozenInv /\ [Next]_vars => OwnerInv'
<1> SUFFICES ASSUME TypeOK, MutualExclusion, OwnerInv, [Next]_vars PROVE OwnerInv'
  BY DEF FrozenInv, LockHeld, MutualExclusion
<1> USE DEF TypeOK, Journal, OwnerInv, MutualExclusion, Exclusive, InTx, Forward, Rollback,
            Goto, data, locks, past, outer
<1>1. ASSUME NEW p \in Proc, Begin(p) PROVE OwnerInv'
  BY <1>1 DEF Begin, Ended
<1>2. ASSUME NEW p \in Proc, PlanUnchanged(p) PROVE OwnerInv'
  BY <1>2 DEF PlanUnchanged
<1>3. ASSUME NEW p \in Proc, PlanWork(p) PROVE OwnerInv'
  BY <1>3 DEF PlanWork
<1>4. ASSUME NEW p \in Proc, PlanBlocked(p) PROVE OwnerInv'
  BY <1>4 DEF PlanBlocked
<1>5. ASSUME NEW p \in Proc, LockLegacy(p) PROVE OwnerInv'
  BY <1>5 DEF LockLegacy
<1>6. ASSUME NEW p \in Proc, LockNew(p) PROVE OwnerInv'
  BY <1>6 DEF LockNew
<1>7. ASSUME NEW p \in Proc, LockFails(p) PROVE OwnerInv'
  BY <1>7 DEF LockFails, Locking
<1>8. ASSUME NEW p \in Proc, Replan(p) PROVE OwnerInv'
  BY <1>8 DEF Replan, PlanValid, JournalsValid
<1>9. ASSUME NEW p \in Proc, BackUp(p) PROVE OwnerInv'
  BY <1>9 DEF BackUp
<1>10. ASSUME NEW p \in Proc, Prepare(p) PROVE OwnerInv'
  BY <1>10 DEF Prepare
<1>11. ASSUME NEW p \in Proc, FailsEarly(p) PROVE OwnerInv'
  BY <1>11 DEF FailsEarly
<1>12. ASSUME NEW p \in Proc, RecordMove(p) PROVE OwnerInv'
  BY <1>12 DEF RecordMove
<1>13. ASSUME NEW p \in Proc, WriteConfig(p) PROVE OwnerInv'
  BY <1>13 DEF WriteConfig
<1>14. ASSUME NEW p \in Proc, ConfigInPlace(p) PROVE OwnerInv'
  BY <1>14 DEF ConfigInPlace, ConfigSettled
<1>15. ASSUME NEW p \in Proc, NoOverlayToRetire(p) PROVE OwnerInv'
  BY <1>15 DEF NoOverlayToRetire
<1>16. ASSUME NEW p \in Proc, RetireOverlay(p) PROVE OwnerInv'
  BY <1>16 DEF RetireOverlay
<1>17. ASSUME NEW p \in Proc, Commit(p) PROVE OwnerInv'
  BY <1>17 DEF Commit
<1>18. ASSUME NEW p \in Proc, Fails(p) PROVE OwnerInv'
  BY <1>18 DEF Fails
<1>19. ASSUME NEW p \in Proc, RollBackOverlay(p) PROVE OwnerInv'
  BY <1>19 DEF RollBackOverlay
<1>20. ASSUME NEW p \in Proc, CheckConfig(p) PROVE OwnerInv'
  BY <1>20 DEF CheckConfig
<1>21. ASSUME NEW p \in Proc, RestoreConfig(p) PROVE OwnerInv'
  BY <1>21 DEF RestoreConfig
<1>22. ASSUME NEW p \in Proc, RecordRolledBack(p) PROVE OwnerInv'
  BY <1>22 DEF RecordRolledBack
<1>23. ASSUME NEW p \in Proc, RollbackFails(p) PROVE OwnerInv'
  BY <1>23 DEF RollbackFails
<1>24. ASSUME NEW p \in Proc, Killed(p) PROVE OwnerInv'
  BY <1>24 DEF Killed, Running
<1>25. ASSUME NEW p \in Proc, NEW r \in Role, MoveRole(p, r) PROVE OwnerInv'
  BY <1>25 DEF MoveRole
<1>26. ASSUME NEW p \in Proc, NEW r \in Role, RestoreRole(p, r) PROVE OwnerInv'
  BY <1>26 DEF RestoreRole
<1>27. CASE EditConfig
  BY <1>27 DEF EditConfig
<1>28. CASE StartTask
  BY <1>28 DEF StartTask
<1>29. CASE FinishTask
  BY <1>29 DEF FinishTask
<1>30. CASE OldVersionStarts
  BY <1>30 DEF OldVersionStarts
<1>31. CASE OldVersionEnds
  BY <1>31 DEF OldVersionEnds
<1>32. ASSUME NEW r \in Role, CreateHome(r) PROVE OwnerInv'
  BY <1>32 DEF CreateHome
<1>33. CASE UNCHANGED vars
  BY <1>33 DEF vars
<1> QED
  BY <1>1, <1>2, <1>3, <1>4, <1>5, <1>6, <1>7, <1>8, <1>9, <1>10, <1>11,
     <1>12, <1>13, <1>14, <1>15, <1>16, <1>17, <1>18, <1>19, <1>20, <1>21,
     <1>22, <1>23, <1>24, <1>25, <1>26, <1>27, <1>28, <1>29, <1>30, <1>31,
     <1>32, <1>33
  DEF Next, ProgressStep, Environment

Untouched == /\ UNCHANGED <<journal, archive, overlay, backups>>
             /\ edits' = edits => UNCHANGED <<config, active>>

Stranded == journal.phase = "prepared" /\ \A p \in Proc : ~Owns(p)

\* Nobody is in a transaction then, and no transaction can start.
LEMMA StrandedIdle ==
  FrozenInv /\ Stranded =>
    \A p \in Proc : pc[p] \notin InTx /\ ~(pc[p] = "replan" /\ PlanValid)
  BY DEF FrozenInv, OwnerInv, Stranded, Owns, InTx, PlanValid, JournalsValid

\* With the owner gone no invocation gets past its plan, so that nothing is
\* touched.
LEMMA StrandedStep == FrozenInv /\ Stranded /\ [Next]_vars => Untouched
<1> SUFFICES ASSUME TypeOK, [Next]_vars,
                    \A p \in Proc : pc[p] \notin InTx /\ ~(pc[p] = "replan" /\ PlanValid)
             PROVE  Untouched
  BY StrandedIdle DEF FrozenInv
<1> USE DEF Untouched, TypeOK, InTx, Forward, Rollback, data, locks, past, outer
<1>1. ASSUME NEW p \in Proc, Begin(p) PROVE Untouched
  BY <1>1 DEF Begin
<1>2. ASSUME NEW p \in Proc, PlanUnchanged(p) PROVE Untouched
  BY <1>2 DEF PlanUnchanged
<1>3. ASSUME NEW p \in Proc, PlanWork(p) PROVE Untouched
  BY <1>3 DEF PlanWork
<1>4. ASSUME NEW p \in Proc, PlanBlocked(p) PROVE Untouched
  BY <1>4 DEF PlanBlocked
<1>5. ASSUME NEW p \in Proc, LockLegacy(p) PROVE Untouched
  BY <1>5 DEF LockLegacy
<1>6. ASSUME NEW p \in Proc, LockNew(p) PROVE Untouched
  BY <1>6 DEF LockNew
<1>7. ASSUME NEW p \in Proc, LockFails(p) PROVE Untouched
  BY <1>7 DEF LockFails
<1>8. ASSUME NEW p \in Proc, Replan(p) PROVE Untouched
  BY <1>8 DEF Replan
<1>9. ASSUME NEW p \in Proc, BackUp(p) PROVE Untouched
  BY <1>9 DEF BackUp
<1>10. ASSUME NEW p \in Proc, Prepare(p) PROVE Untouched
  BY <1>10 DEF Prepare
<1>11. ASSUME NEW p \in Proc, FailsEarly(p) PROVE Untouched
  BY <1>11 DEF FailsEarly
<1>12. ASSUME NEW p \in Proc, RecordMove(p) PROVE Untouched
  BY <1>12 DEF RecordMove
<1>13. ASSUME NEW p \in Proc, WriteConfig(p) PROVE Untouched
  BY <1>13 DEF WriteConfig
<1>14. ASSUME NEW p \in Proc, ConfigInPlace(p) PROVE Untouched
  BY <1>14 DEF ConfigInPlace, ConfigSettled
<1>15. ASSUME NEW p \in Proc, NoOverlayToRetire(p) PROVE Untouched
  BY <1>15 DEF NoOverlayToRetire
<1>16. ASSUME NEW p \in Proc, RetireOverlay(p) PROVE Untouched
  BY <1>16 DEF RetireOverlay
<1>17. ASSUME NEW p \in Proc, Commit(p) PROVE Untouched
  BY <1>17 DEF Commit
<1>18. ASSUME NEW p \in Proc, Fails(p) PROVE Untouched
  BY <1>18 DEF Fails
<1>19. ASSUME NEW p \in Proc, RollBackOverlay(p) PROVE Untouched
  BY <1>19 DEF RollBackOverlay
<1>20. ASSUME NEW p \in Proc, CheckConfig(p) PROVE Untouched
  BY <1>20 DEF CheckConfig
<1>21. ASSUME NEW p \in Proc, RestoreConfig(p) PROVE Untouched
  BY <1>21 DEF RestoreConfig
<1>22. ASSUME NEW p \in Proc, RecordRolledBack(p) PROVE Untouched
  BY <1>22 DEF RecordRolledBack
<1>23. ASSUME NEW p \in Proc, RollbackFails(p) PROVE Untouched
  BY <1>23 DEF RollbackFails
<1>24. ASSUME NEW p \in Proc, Killed(p) PROVE Untouched
  BY <1>24 DEF Killed
<1>25. ASSUME NEW p \in Proc, NEW r \in Role, MoveRole(p, r) PROVE Untouched
  BY <1>25 DEF MoveRole
<1>26. ASSUME NEW p \in Proc, NEW r \in Role, RestoreRole(p, r) PROVE Untouched
  BY <1>26 DEF RestoreRole
<1>27. CASE EditConfig
  BY <1>27 DEF EditConfig
<1>28. CASE StartTask
  BY <1>28 DEF StartTask
<1>29. CASE FinishTask
  BY <1>29 DEF FinishTask
<1>30. CASE OldVersionStarts
  BY <1>30 DEF OldVersionStarts
<1>31. CASE OldVersionEnds
  BY <1>31 DEF OldVersionEnds
<1>32. ASSUME NEW r \in Role, CreateHome(r) PROVE Untouched
  BY <1>32 DEF CreateHome
<1>33. CASE UNCHANGED vars
  BY <1>33 DEF vars
<1> QED
  BY <1>1, <1>2, <1>3, <1>4, <1>5, <1>6, <1>7, <1>8, <1>9, <1>10, <1>11,
     <1>12, <1>13, <1>14, <1>15, <1>16, <1>17, <1>18, <1>19, <1>20, <1>21,
     <1>22, <1>23, <1>24, <1>25, <1>26, <1>27, <1>28, <1>29, <1>30, <1>31,
     <1>32, <1>33
  DEF Next, ProgressStep, Environment

\* A prepared journal nobody owns stays as it is, and with it the archive, the
\* marker and the backups; only other programs touch the rest.
THEOREM StrandedStaysFrozen == Spec => StrandedIsFrozen
<1>1. Init => FrozenInv
  BY TypeInit DEF FrozenInv, Init, LockHeld, OwnerInv, Exclusive, InTx, Forward, Rollback
<1>2. FrozenInv /\ TypeOK' /\ [Next]_vars => FrozenInv'
  BY LockHeldStep, OwnerStep DEF FrozenInv
<1>3. FrozenInv /\ [Next]_vars =>
        [journal.phase = "prepared" /\ (\A p \in Proc : ~Owns(p))
           => /\ UNCHANGED <<journal, archive, overlay, backups>>
              /\ edits' = edits => UNCHANGED <<config, active>>]_vars
  BY StrandedStep DEF Stranded, Untouched
<1> QED
  BY <1>1, <1>2, <1>3, TypeCorrect, PTL DEF Spec, StrandedIsFrozen

-----------------------------------------------------------------------------
(* The transaction, seen from the invocation that runs it *)

Step(p) == Begin(p) \/ ProgressStep(p) \/ Killed(p)

\* A step of one invocation leaves the others where they are.
LEMMA Apart ==
  ASSUME TypeOK, NEW p \in Proc, NEW q \in Proc, p # q, Step(q)
  PROVE  pc'[p] = pc[p] /\ tx'[p] = tx[p]
<1> USE DEF TypeOK, Goto
<1>1. CASE Begin(q) \/ Killed(q)
  BY <1>1 DEF Begin, Killed
<1>2. CASE \/ PlanUnchanged(q) \/ PlanWork(q) \/ PlanBlocked(q)
           \/ LockLegacy(q) \/ LockNew(q) \/ LockFails(q)
  BY <1>2 DEF PlanUnchanged, PlanWork, PlanBlocked, LockLegacy, LockNew, LockFails
<1>3. CASE Replan(q) \/ BackUp(q) \/ Prepare(q) \/ FailsEarly(q)
  BY <1>3 DEF Replan, BackUp, Prepare, FailsEarly
<1>4. CASE \E r \in Role : MoveRole(q, r) \/ RestoreRole(q, r)
  BY <1>4 DEF MoveRole, RestoreRole
<1>5. CASE \/ RecordMove(q) \/ WriteConfig(q) \/ ConfigInPlace(q)
           \/ NoOverlayToRetire(q) \/ RetireOverlay(q) \/ Commit(q) \/ Fails(q)
  BY <1>5 DEF RecordMove, WriteConfig, ConfigInPlace, NoOverlayToRetire,
              RetireOverlay, Commit, Fails
<1>6. CASE \/ RollBackOverlay(q) \/ CheckConfig(q) \/ RestoreConfig(q)
           \/ RecordRolledBack(q) \/ RollbackFails(q)
  BY <1>6 DEF RollBackOverlay, CheckConfig, RestoreConfig, RecordRolledBack, RollbackFails
<1> QED
  BY <1>1, <1>2, <1>3, <1>4, <1>5, <1>6 DEF Step, ProgressStep

\* Outside its transaction an invocation writes neither the data root nor the
\* journal nor a backup.
LEMMA Harmless ==
  ASSUME NEW q \in Proc, pc[q] \notin InTx, Step(q)
  PROVE  UNCHANGED <<data, journal, backups, snap, tasks, edits>>
<1> USE DEF InTx, Forward, Rollback, data, past, outer
<1>1. CASE Begin(q) \/ Killed(q)
  BY <1>1 DEF Begin, Killed
<1>2. CASE \/ PlanUnchanged(q) \/ PlanWork(q) \/ PlanBlocked(q)
           \/ LockLegacy(q) \/ LockNew(q) \/ LockFails(q)
  BY <1>2 DEF PlanUnchanged, PlanWork, PlanBlocked, LockLegacy, LockNew, LockFails
<1>3. CASE Replan(q) \/ BackUp(q) \/ Prepare(q) \/ FailsEarly(q)
  BY <1>3 DEF Replan, BackUp, Prepare, FailsEarly
<1>4. CASE \E r \in Role : MoveRole(q, r) \/ RestoreRole(q, r)
  BY <1>4 DEF MoveRole, RestoreRole
<1>5. CASE \/ RecordMove(q) \/ WriteConfig(q) \/ ConfigInPlace(q)
           \/ NoOverlayToRetire(q) \/ RetireOverlay(q) \/ Commit(q) \/ Fails(q)
  BY <1>5 DEF RecordMove, WriteConfig, ConfigInPlace, ConfigSettled, NoOverlayToRetire,
              RetireOverlay, Commit, Fails
<1>6. CASE \/ RollBackOverlay(q) \/ CheckConfig(q) \/ RestoreConfig(q)
           \/ RecordRolledBack(q) \/ RollbackFails(q)
  BY <1>6 DEF RollBackOverlay, CheckConfig, RestoreConfig, RecordRolledBack, RollbackFails
<1> QED
  BY <1>1, <1>2, <1>3, <1>4, <1>5, <1>6 DEF Step, ProgressStep

\* When nobody else may write during a transaction, the environment does not.
LEMMA Silent ==
  ASSUME Quiet = TRUE, NEW p \in Proc, pc[p] \in InTx, Environment
  PROVE  /\ UNCHANGED <<data, journal, backups, snap, pc, tx, runs>>
         /\ tasks' => tasks
<1> USE DEF MayInterfere, data, locks, past
<1>1. CASE EditConfig
  BY <1>1 DEF EditConfig
<1>2. CASE StartTask
  BY <1>2 DEF StartTask
<1>3. CASE FinishTask
  BY <1>3 DEF FinishTask
<1>4. CASE \E r \in Role : CreateHome(r)
  BY <1>4 DEF CreateHome
<1>5. CASE OldVersionStarts
  BY <1>5 DEF OldVersionStarts
<1>6. CASE OldVersionEnds
  BY <1>6 DEF OldVersionEnds
<1> QED
  BY <1>1, <1>2, <1>3, <1>4, <1>5, <1>6 DEF Environment

\* So a transaction has the data root to itself.
LEMMA Isolated ==
  ASSUME Quiet = TRUE, TypeOK, MutualExclusion, [Next]_vars,
         NEW p \in Proc, pc[p] \in InTx, ~Step(p)
  PROVE  /\ UNCHANGED <<data, journal, backups, snap>>
         /\ pc'[p] = pc[p] /\ tx'[p] = tx[p]
         /\ tasks' => tasks
<1>1. ASSUME NEW q \in Proc, Step(q)
      PROVE  /\ UNCHANGED <<data, journal, backups, snap, tasks>>
             /\ pc'[p] = pc[p] /\ tx'[p] = tx[p]
  <2>1. p # q
    BY <1>1
  <2>2. pc[q] \notin InTx
    BY <2>1 DEF MutualExclusion, Exclusive
  <2> QED
    BY <1>1, <2>1, <2>2, Apart, Harmless
<1>2. CASE Environment
  BY <1>2, Silent
<1>3. CASE UNCHANGED vars
  BY <1>3 DEF vars, data, past, outer
<1> QED
  BY <1>1, <1>2, <1>3 DEF Next, Step

\* An invocation enters its transaction by planning again, under the lock.
LEMMA Entered ==
  ASSUME TypeOK, NEW p \in Proc, pc[p] \notin InTx, pc'[p] \in InTx, [Next]_vars
  PROVE  Replan(p)
<1> USE DEF TypeOK, Goto, InTx, Forward, Rollback
<1>1. ASSUME NEW q \in Proc, Step(q), p # q PROVE FALSE
  BY <1>1, Apart
<1>2. CASE Environment
  BY <1>2 DEF Environment, EditConfig, StartTask, FinishTask, CreateHome, OldVersionStarts,
              OldVersionEnds
<1>3. CASE UNCHANGED vars
  BY <1>3 DEF vars
<1>4. CASE Step(p)
  <2>1. CASE Begin(p) \/ Killed(p)
    BY <2>1 DEF Begin, Killed
  <2>2. CASE \/ PlanUnchanged(p) \/ PlanWork(p) \/ PlanBlocked(p)
             \/ LockLegacy(p) \/ LockNew(p) \/ LockFails(p)
    BY <2>2 DEF PlanUnchanged, PlanWork, PlanBlocked, LockLegacy, LockNew, LockFails
  <2>3. CASE BackUp(p) \/ Prepare(p) \/ FailsEarly(p)
    BY <2>3 DEF BackUp, Prepare, FailsEarly
  <2>4. CASE \E r \in Role : MoveRole(p, r) \/ RestoreRole(p, r)
    BY <2>4 DEF MoveRole, RestoreRole
  <2>5. CASE \/ RecordMove(p) \/ WriteConfig(p) \/ ConfigInPlace(p)
             \/ NoOverlayToRetire(p) \/ RetireOverlay(p) \/ Commit(p) \/ Fails(p)
    BY <2>5 DEF RecordMove, WriteConfig, ConfigInPlace, ConfigSettled, NoOverlayToRetire,
                RetireOverlay, Commit, Fails
  <2>6. CASE \/ RollBackOverlay(p) \/ CheckConfig(p) \/ RestoreConfig(p)
             \/ RecordRolledBack(p) \/ RollbackFails(p)
    BY <2>6 DEF RollBackOverlay, CheckConfig, RestoreConfig, RecordRolledBack, RollbackFails
  <2> QED
    BY <1>4, <2>1, <2>2, <2>3, <2>4, <2>5, <2>6 DEF Step, ProgressStep
<1> QED
  BY <1>1, <1>2, <1>3, <1>4 DEF Next, Step

\* Each running invocation has a backup of its own, and no marker is retired
\* into it before the transaction.
OwnBackup ==
  /\ \A n \in 1..MaxRuns : n > runs => backups[n].overlay = NoMarker
  /\ \A p \in Proc : pc[p] \in Running =>
       /\ tx[p].run \in 1..runs
       /\ pc[p] \in Early => backups[tx[p].run].overlay = NoMarker
  /\ \A p, q \in Proc :
       pc[p] \in Running /\ pc[q] \in Running /\ tx[p].run = tx[q].run => p = q

\* Every step keeps the backups of running invocations apart.
LEMMA OwnBackupStep == TypeInv /\ OwnBackup /\ [Next]_vars => OwnBackup'
<1> SUFFICES ASSUME TypeOK, OwnBackup, [Next]_vars PROVE OwnBackup'
  BY DEF TypeInv
<1> USE DEF TypeOK, Backup, OwnBackup, Goto
<1>1. ASSUME NEW p \in Proc, Begin(p) PROVE OwnBackup'
  <2>1. /\ runs' = runs + 1 /\ runs' \in 1..MaxRuns /\ backups' = backups
        /\ pc' = [pc EXCEPT ![p] = "plan"] /\ tx' = [tx EXCEPT ![p] = EmptyTx(runs + 1)]
    BY <1>1, BoundAssumption DEF Begin
  <2>2. EmptyTx(runs + 1).run = runs + 1
    BY DEF EmptyTx
  <2> QED
    BY <2>1, <2>2
<1>2. ASSUME NEW p \in Proc,
             \/ PlanUnchanged(p) \/ PlanWork(p) \/ PlanBlocked(p)
             \/ LockLegacy(p) \/ LockNew(p) \/ LockFails(p) \/ FailsEarly(p) \/ Killed(p)
      PROVE  OwnBackup'
  <2>1. /\ UNCHANGED <<backups, tx, runs>>
        /\ \E s \in Running \union Ended :
             /\ pc' = [pc EXCEPT ![p] = s] /\ pc[p] \in Running
             /\ s \in Early => pc[p] \in Early
    BY <1>2 DEF PlanUnchanged, PlanWork, PlanBlocked, LockLegacy, LockNew, LockFails, FailsEarly,
                Killed, Running, Ended, Locking, InTx, Early
  <2> QED
    BY <2>1
<1>3. ASSUME NEW p \in Proc,
             \/ RecordMove(p) \/ ConfigInPlace(p) \/ Prepare(p)
             \/ NoOverlayToRetire(p) \/ Commit(p) \/ Fails(p)
             \/ CheckConfig(p) \/ RestoreConfig(p)
             \/ RecordRolledBack(p) \/ RollbackFails(p)
      PROVE  OwnBackup'
  <2>1. /\ UNCHANGED <<backups, tx, runs>>
        /\ \E s \in InTx \union Ended : pc' = [pc EXCEPT ![p] = s] /\ pc[p] \in InTx
    BY <1>3 DEF RecordMove, ConfigInPlace, ConfigSettled, Prepare, NoOverlayToRetire,
                Commit, Fails, CheckConfig, RestoreConfig, RecordRolledBack, RollbackFails,
                Ended, InTx, Forward, Rollback
  <2>2. InTx \subseteq Running /\ InTx \intersect Early = {} /\ Ended \intersect Early = {}
        /\ Ended \intersect Running = {}
    BY DEF Running, InTx, Early, Ended, Locking, Forward, Rollback
  <2> QED
    BY <2>1, <2>2
<1>4. ASSUME NEW p \in Proc,
             \/ Replan(p) \/ WriteConfig(p)
             \/ \E r \in Role : MoveRole(p, r) \/ RestoreRole(p, r)
      PROVE  OwnBackup'
  <2>1. UNCHANGED <<backups, runs>> /\ tx'[p].run = tx[p].run
    <3>1. CASE Replan(p)
      BY <3>1 DEF Replan
    <3>2. CASE WriteConfig(p)
      BY <3>2 DEF WriteConfig
    <3>3. CASE \E r \in Role : MoveRole(p, r)
      BY <3>3 DEF MoveRole
    <3>4. CASE \E r \in Role : RestoreRole(p, r)
      BY <3>4 DEF RestoreRole
    <3> QED
      BY <1>4, <3>1, <3>2, <3>3, <3>4
  <2>2. pc[p] \in Running /\ pc'[p] \in InTx
    BY <1>4 DEF Replan, WriteConfig, MoveRole, RestoreRole, InTx, Running, Forward, Rollback
  <2>3. \A q \in Proc : q # p => pc'[q] = pc[q] /\ tx'[q] = tx[q]
    BY <1>4, Apart DEF Step, ProgressStep
  <2>4. InTx \intersect Early = {}
    BY DEF InTx, Early, Forward, Rollback
  <2> QED
    BY <2>1, <2>2, <2>3, <2>4
<1>5. ASSUME NEW p \in Proc, BackUp(p) \/ RetireOverlay(p) \/ RollBackOverlay(p)
      PROVE  OwnBackup'
  <2> DEFINE n == tx[p].run
  <2>1. runs' = runs /\ tx'[p].run = n
    BY <1>5 DEF BackUp, RetireOverlay, RollBackOverlay, Tx
  <2>2. pc[p] \in Running /\ pc'[p] \in InTx
    BY <1>5 DEF BackUp, RetireOverlay, RollBackOverlay, InTx, Running, Forward, Rollback
  <2>3. \A q \in Proc : q # p => pc'[q] = pc[q] /\ tx'[q] = tx[q]
    BY <1>5, Apart DEF Step, ProgressStep
  <2>4. \A m \in 1..MaxRuns : m # n => backups'[m] = backups[m]
    BY <1>5 DEF BackUp, RetireOverlay, RollBackOverlay
  <2>5. InTx \intersect Early = {}
    BY DEF InTx, Early, Forward, Rollback
  <2>6. n \in 1..runs /\ runs \in 0..MaxRuns
    BY <2>2
  <2> HIDE DEF n
  <2>7. \A m \in 1..MaxRuns : m > runs => m # n
    BY <2>6, BoundAssumption
  <2>8. \A m \in 1..MaxRuns : m > runs' => backups'[m].overlay = NoMarker
    BY <2>1, <2>4, <2>7
  <2>9. \A q \in Proc : q # p /\ pc'[q] \in Early /\ pc'[q] \in Running =>
          backups'[tx'[q].run].overlay = NoMarker
    <3> SUFFICES ASSUME NEW q \in Proc, q # p, pc[q] \in Early, pc[q] \in Running
                 PROVE  backups'[tx[q].run].overlay = NoMarker
      BY <2>3
    <3>1. tx[q].run \in 1..runs /\ tx[q].run # n /\ backups[tx[q].run].overlay = NoMarker
      BY <2>2 DEF n
    <3>2. tx[q].run \in 1..MaxRuns
      BY <3>1, <2>6, BoundAssumption
    <3> QED
      BY <3>1, <3>2, <2>4
  <2> QED
    BY <2>1, <2>2, <2>3, <2>5, <2>6, <2>8, <2>9 DEF n
<1>6. CASE Environment
  BY <1>6 DEF Environment, EditConfig, StartTask, FinishTask, CreateHome, OldVersionStarts,
              OldVersionEnds
<1>7. CASE UNCHANGED vars
  BY <1>7 DEF vars
<1> QED
  BY <1>1, <1>2, <1>3, <1>4, <1>5, <1>6, <1>7 DEF Next, ProgressStep

-----------------------------------------------------------------------------
(* A transaction is on its course *)

\* The markers a transaction has to retire: its own, or none.
Markers(d) == {d} \ {NoMarker}

Recorded == Forward \union Rollback

\* What Replan saw is true of the data root the transaction starts from.
PlannedFor(p, c, act, arc, ov) ==
  /\ tx[p].target = Desired(c)
  /\ tx[p].changes <=> c # Desired(c)
  /\ tx[p].jobs \union tx[p].moved = {r \in Role : act[r] # NoHome}
  /\ tx[p].jobs \intersect tx[p].moved = {}
  /\ \A r \in Role : act[r] # NoHome => arc[r] = NoHome
  /\ ov = Markers(tx[p].overlay)
  /\ tx[p].jobs # {} => ~tasks

\* Before "prepared" is journalled the data root is the one planned for.
Preparing(p) ==
  pc[p] \in {"backup", "prepare"} =>
    /\ PlannedFor(p, config, active, archive, overlay)
    /\ tx[p].moved = {} /\ tx[p].restored = {} /\ ~tx[p].wrote /\ ~tx[p].retired
    /\ backups[tx[p].run].overlay = NoMarker
    /\ pc[p] = "prepare" => tx[p].original = config /\ backups[tx[p].run].config = config

\* From then on it is the one in snap, and the journal and the backup name it.
Carried(p) ==
  pc[p] \in Recorded =>
    /\ PlannedFor(p, snap.config, snap.active, snap.archive, snap.overlay)
    /\ journal.target = tx[p].target
    /\ tx[p].original = snap.config /\ backups[tx[p].run].config = snap.config

Archived(p, r) == r \in tx[p].moved /\ r \notin tx[p].restored

\* Every home is where the transaction's own record of its renames puts it.
Placed(p) ==
  pc[p] \in Recorded =>
    /\ \A r \in Role :
         IF Archived(p, r) THEN active[r] = NoHome /\ archive[r] = snap.active[r]
         ELSE active[r] = snap.active[r] /\ archive[r] = snap.archive[r]
    /\ tx[p].restored \subseteq tx[p].moved
    /\ pc[p] # "rb-move" => tx[p].restored = {}
    /\ pc[p] \in {"readback", "retire", "commit"} => tx[p].jobs = {}

\* The configuration is the new one exactly while it is written and not restored.
Configured(p) ==
  pc[p] \in Recorded =>
    /\ config = IF tx[p].wrote /\ pc[p] # "rb-move" THEN tx[p].target ELSE snap.config
    /\ pc[p] \in {"move", "record-move"} => ~tx[p].wrote
    /\ pc[p] = "rb-restore" => tx[p].wrote
    /\ pc[p] \in {"retire", "commit"} => config = tx[p].target

\* The marker is in its place, or retired into the backup.
Retired(p) == tx[p].retired /\ pc[p] \in {"commit", "rb-overlay"}

Marked(p) ==
  pc[p] \in Recorded =>
    /\ IF Retired(p) THEN overlay = {} /\ backups[tx[p].run].overlay = tx[p].overlay
       ELSE overlay = snap.overlay /\ backups[tx[p].run].overlay = NoMarker
    /\ pc[p] = "commit" => overlay = {}
    /\ tx[p].retired => pc[p] \notin {"move", "record-move", "readback", "retire"}

Course(p) == Preparing(p) /\ Carried(p) /\ Placed(p) /\ Configured(p) /\ Marked(p)

\* Nothing is moved or written before the transaction.
Unstarted(p) ==
  pc[p] \in Early => tx[p].moved = {} /\ tx[p].restored = {} /\ ~tx[p].wrote

OnCourse == \A p \in Proc : Unstarted(p) /\ Course(p)

\* Outside a transaction there is no course to be kept.
LEMMA CourseEnded == ASSUME NEW p \in Proc, pc'[p] \notin InTx PROVE Course(p)'
  BY DEF Course, Preparing, Carried, Placed, Configured, Marked, Recorded, InTx

\* What does not touch the data root, the journal or the invocation keeps its
\* course.
LEMMA CourseKept ==
  ASSUME NEW p \in Proc, Course(p),
         UNCHANGED <<data, journal, backups, snap>>,
         pc'[p] = pc[p], tx'[p] = tx[p], tasks' => tasks
  PROVE  Course(p)'
<1> USE DEF data, Recorded, PlannedFor
<1>1. Preparing(p)'
  BY DEF Course, Preparing, Jobs
<1>2. Carried(p)'
  BY DEF Course, Carried
<1>3. Placed(p)'
  BY DEF Course, Placed, Archived
<1>4. Configured(p)'
  BY DEF Course, Configured
<1>5. Marked(p)'
  BY DEF Course, Marked, Retired
<1> QED
  BY <1>1, <1>2, <1>3, <1>4, <1>5 DEF Course

\* Until the transaction is prepared nothing is recorded as moved or written.
LEMMA UnstartedStep ==
  ASSUME TypeOK, NEW p \in Proc, Unstarted(p), [Next]_vars PROVE Unstarted(p)'
<1> USE DEF TypeOK, Goto, Early, Unstarted
<1>1. ASSUME NEW q \in Proc, Step(q), p # q PROVE Unstarted(p)'
  BY <1>1, Apart
<1>2. CASE Environment
  BY <1>2 DEF Environment, EditConfig, StartTask, FinishTask, CreateHome, OldVersionStarts,
              OldVersionEnds
<1>3. CASE UNCHANGED vars
  BY <1>3 DEF vars
<1>4. CASE Step(p)
  <2>1. CASE Begin(p)
    BY <2>1 DEF Begin, EmptyTx
  <2>2. CASE \/ PlanUnchanged(p) \/ PlanWork(p) \/ PlanBlocked(p)
             \/ LockLegacy(p) \/ LockNew(p) \/ LockFails(p)
    BY <2>2 DEF PlanUnchanged, PlanWork, PlanBlocked, LockLegacy, LockNew, LockFails, Locking
  <2>3. CASE Replan(p) \/ BackUp(p) \/ Prepare(p) \/ FailsEarly(p) \/ Killed(p)
    BY <2>3 DEF Replan, BackUp, Prepare, FailsEarly, Killed
  <2>4. CASE \E r \in Role : MoveRole(p, r) \/ RestoreRole(p, r)
    BY <2>4 DEF MoveRole, RestoreRole
  <2>5. CASE \/ RecordMove(p) \/ WriteConfig(p) \/ ConfigInPlace(p)
             \/ NoOverlayToRetire(p) \/ RetireOverlay(p) \/ Commit(p) \/ Fails(p)
    BY <2>5 DEF RecordMove, WriteConfig, ConfigInPlace, NoOverlayToRetire,
                RetireOverlay, Commit, Fails
  <2>6. CASE \/ RollBackOverlay(p) \/ CheckConfig(p) \/ RestoreConfig(p)
             \/ RecordRolledBack(p) \/ RollbackFails(p)
    BY <2>6 DEF RollBackOverlay, CheckConfig, RestoreConfig, RecordRolledBack, RollbackFails
  <2> QED
    BY <1>4, <2>1, <2>2, <2>3, <2>4, <2>5, <2>6 DEF Step, ProgressStep
<1> QED
  BY <1>1, <1>2, <1>3, <1>4 DEF Next, Step

\* The plan under the lock is made from the data root as it is.
LEMMA CourseReplan ==
  ASSUME TypeInv, OwnBackup, NEW p \in Proc, Unstarted(p), Replan(p) PROVE Course(p)'
<1> USE DEF TypeOK
<1> DEFINE marker == IF overlay = {} THEN NoMarker
                     ELSE CHOOSE d \in MarkerDir : d \in overlay
<1>1. /\ pc'[p] = "backup"
      /\ UNCHANGED <<config, active, archive, overlay, backups, tasks>>
      /\ tx'[p] = [tx[p] EXCEPT !.target = Desired(config), !.changes = (config # Desired(config)),
                                !.jobs = Jobs, !.overlay = marker]
  BY DEF TypeInv, Replan, Goto, data, outer
<1>2. overlay = Markers(marker)
  <2>1. CASE overlay = {}
    BY <2>1 DEF Markers
  <2>2. CASE overlay # {}
    <3>1. \A c, d \in overlay : c = d
      BY DEF Replan, PlanValid, OverlayValid
    <3>2. \E d \in MarkerDir : d \in overlay
      BY <2>2 DEF TypeInv
    <3>3. marker \in overlay /\ marker \in MarkerDir
      BY <2>2, <3>2
    <3> QED
      BY <3>1, <3>3 DEF Markers, MarkerDir, NoMarker
  <2> QED
    BY <2>1, <2>2
<1> HIDE DEF marker
<1>3. /\ tx[p].moved = {} /\ tx[p].restored = {} /\ ~tx[p].wrote /\ ~tx[p].retired
      /\ backups[tx[p].run].overlay = NoMarker
  BY DEF TypeInv, RetiredWell, Unstarted, OwnBackup, Early, Replan, Running
<1>4. /\ tx[p] \in Tx
      /\ tx'[p].target = Desired(config) /\ tx'[p].changes = (config # Desired(config))
      /\ tx'[p].jobs = Jobs /\ tx'[p].overlay = marker
      /\ tx'[p].moved = {} /\ tx'[p].restored = {} /\ ~tx'[p].wrote /\ ~tx'[p].retired
      /\ tx'[p].run = tx[p].run
  BY <1>1, <1>3 DEF TypeInv, Tx
<1>5. \A r \in Role : active[r] # NoHome => archive[r] = NoHome
  BY DEF Replan, PlanValid, NoArchiveConflict
<1>6. Jobs # {} => ~tasks
  BY DEF Replan, PlanValid, TasksQuiet, Work
<1>7. Preparing(p)'
  BY <1>1, <1>2, <1>3, <1>4, <1>5, <1>6 DEF Preparing, PlannedFor, Jobs
<1> QED
  BY <1>1, <1>7 DEF Course, Carried, Placed, Configured, Marked, Recorded, Forward, Rollback

\* The backup of a running invocation is one of those there are.
LEMMA RunTyped ==
  ASSUME TypeOK, OwnBackup, NEW p \in Proc, pc[p] \in InTx
  PROVE  tx[p].run \in 1..MaxRuns /\ tx[p] \in Tx
<1>1. tx[p].run \in 1..runs
  BY DEF OwnBackup, Running
<1>2. runs \in 0..MaxRuns /\ tx[p] \in Tx
  BY DEF TypeOK
<1> QED
  BY <1>1, <1>2, BoundAssumption

\* Steps that only go on keep what the transaction has done and recorded.
LEMMA CourseOn ==
  ASSUME TypeOK, NEW p \in Proc, Course(p), pc[p] \in Recorded, pc'[p] \in Recorded,
         UNCHANGED <<data, backups, snap, tx, tasks>>, journal'.target = journal.target,
         pc'[p] \in {"readback", "retire", "commit"} => tx[p].jobs = {},
         pc[p] = "rb-move" <=> pc'[p] = "rb-move",
         pc'[p] \in {"move", "record-move"} => ~tx[p].wrote,
         pc'[p] = "rb-restore" => tx[p].wrote,
         pc'[p] \in {"retire", "commit"} => config = tx[p].target,
         Retired(p)' <=> Retired(p),
         pc'[p] = "commit" => overlay = {},
         tx[p].retired => pc'[p] \notin {"move", "record-move", "readback", "retire"}
  PROVE  Course(p)'
<1> USE DEF data, PlannedFor
<1>1. Preparing(p)'
  BY DEF Preparing, Recorded, Forward, Rollback
<1>2. Carried(p)'
  BY DEF Course, Carried
<1>3. Placed(p)'
  BY DEF Course, Placed, Archived
<1>4. Configured(p)'
  BY DEF Course, Configured
<1>5. Marked(p)'
  <2>1. /\ IF Retired(p) THEN overlay = {} /\ backups[tx[p].run].overlay = tx[p].overlay
           ELSE overlay = snap.overlay /\ backups[tx[p].run].overlay = NoMarker
    BY DEF Course, Marked
  <2>2. /\ IF Retired(p)' THEN overlay' = {} /\ backups'[tx'[p].run].overlay = tx'[p].overlay
           ELSE overlay' = snap'.overlay /\ backups'[tx'[p].run].overlay = NoMarker
    BY <2>1
  <2> QED
    BY <2>2 DEF Marked
<1> QED
  BY <1>1, <1>2, <1>3, <1>4, <1>5 DEF Course

\* The backup takes the configuration that was planned for.
LEMMA CourseBackUp ==
  ASSUME TypeOK, OwnBackup, NEW p \in Proc, Course(p), BackUp(p) PROVE Course(p)'
<1>1. tx[p].run \in 1..MaxRuns /\ tx[p] \in Tx
  BY RunTyped DEF BackUp, InTx
<1>2. /\ pc[p] = "backup" /\ pc'[p] = "prepare"
      /\ UNCHANGED <<config, active, archive, overlay, tasks>>
      /\ tx'[p] = [tx[p] EXCEPT !.original = config]
      /\ backups' = [backups EXCEPT ![tx[p].run].config = config]
  BY DEF BackUp, Goto, data, outer, TypeOK
<1>3. /\ tx'[p].original = config /\ tx'[p].target = tx[p].target
      /\ tx'[p].changes = tx[p].changes /\ tx'[p].jobs = tx[p].jobs
      /\ tx'[p].moved = tx[p].moved /\ tx'[p].restored = tx[p].restored
      /\ tx'[p].overlay = tx[p].overlay /\ tx'[p].wrote = tx[p].wrote
      /\ tx'[p].retired = tx[p].retired /\ tx'[p].run = tx[p].run
  BY <1>1, <1>2 DEF Tx
<1>4. /\ backups'[tx[p].run].config = config
      /\ backups'[tx[p].run].overlay = backups[tx[p].run].overlay
  BY <1>1, <1>2 DEF TypeOK, Backup
<1>5. Preparing(p)'
  BY <1>2, <1>3, <1>4 DEF Course, Preparing, PlannedFor
<1> QED
  BY <1>2, <1>5 DEF Course, Carried, Placed, Configured, Marked, Recorded, Forward, Rollback

\* The prepared journal names what the backup holds.
LEMMA CoursePrepare ==
  ASSUME TypeOK, NEW p \in Proc, Course(p), Prepare(p) PROVE Course(p)'
<1>1. /\ pc[p] = "prepare" /\ pc'[p] = "move"
      /\ UNCHANGED <<config, active, archive, overlay, tasks, backups, tx>>
      /\ journal'.target = tx[p].target
      /\ snap'.config = config /\ snap'.active = active /\ snap'.archive = archive
      /\ snap'.overlay = overlay
  BY DEF Prepare, Goto, data, outer, TypeOK
<1>2. Preparing(p)
  BY DEF Course
<1>3. /\ PlannedFor(p, config, active, archive, overlay)
      /\ tx[p].moved = {} /\ tx[p].restored = {} /\ ~tx[p].wrote /\ ~tx[p].retired
      /\ backups[tx[p].run].overlay = NoMarker
      /\ tx[p].original = config /\ backups[tx[p].run].config = config
  BY <1>1, <1>2 DEF Preparing
<1>4. PlannedFor(p, config, active, archive, overlay)'
  BY <1>1, <1>3 DEF PlannedFor
<1>5. Carried(p)'
  BY <1>1, <1>3, <1>4 DEF Carried
<1>6. Placed(p)'
  BY <1>1, <1>3 DEF Placed, Archived
<1>7. Configured(p)'
  BY <1>1, <1>3 DEF Configured
<1>8. Marked(p)'
  BY <1>1, <1>3 DEF Marked, Retired
<1>9. Preparing(p)'
  BY <1>1 DEF Preparing
<1> QED
  BY <1>5, <1>6, <1>7, <1>8, <1>9 DEF Course

\* A rename takes one home from its place to the archive.
LEMMA CourseMove ==
  ASSUME TypeOK, OwnBackup, NEW p \in Proc, NEW r \in Role, Course(p), MoveRole(p, r)
  PROVE  Course(p)'
<1>1. tx[p].run \in 1..MaxRuns /\ tx[p] \in Tx
  BY RunTyped DEF MoveRole, InTx, Forward
<1>2. /\ pc[p] = "move" /\ pc'[p] = "record-move" /\ r \in tx[p].jobs
      /\ archive[r] = NoHome /\ active[r] # NoHome
      /\ archive' = [archive EXCEPT ![r] = active[r]]
      /\ active' = [active EXCEPT ![r] = NoHome]
      /\ UNCHANGED <<config, overlay, tasks, snap, journal, backups>>
      /\ tx'[p] = [tx[p] EXCEPT !.jobs = @ \ {r}, !.moved = @ \union {r}]
  BY DEF MoveRole, Goto, past, outer, TypeOK
<1>3. /\ tx'[p].jobs = tx[p].jobs \ {r} /\ tx'[p].moved = tx[p].moved \union {r}
      /\ tx'[p].original = tx[p].original /\ tx'[p].target = tx[p].target
      /\ tx'[p].changes = tx[p].changes /\ tx'[p].restored = tx[p].restored
      /\ tx'[p].overlay = tx[p].overlay /\ tx'[p].wrote = tx[p].wrote
      /\ tx'[p].retired = tx[p].retired /\ tx'[p].run = tx[p].run
  BY <1>1, <1>2 DEF Tx
<1>4. Carried(p) /\ Placed(p) /\ Configured(p) /\ Marked(p) /\ pc[p] \in Recorded
  BY <1>2 DEF Course, Recorded, Forward
<1>5. Carried(p)'
  BY <1>2, <1>3, <1>4 DEF Carried, PlannedFor
<1>6. Placed(p)'
  <2>1. tx[p].restored = {} /\ r \notin tx[p].moved
    BY <1>2, <1>4 DEF Placed, Carried, PlannedFor
  <2>2. ASSUME NEW s \in Role
        PROVE  IF Archived(p, s)' THEN active'[s] = NoHome /\ archive'[s] = snap.active[s]
               ELSE active'[s] = snap.active[s] /\ archive'[s] = snap.archive[s]
    <3>1. CASE s = r
      <4>1. Archived(p, s)'
        BY <1>3, <2>1, <3>1 DEF Archived
      <4>2. active[r] = snap.active[r]
        BY <1>4, <2>1 DEF Placed, Archived
      <4> QED
        BY <1>2, <3>1, <4>1, <4>2 DEF TypeOK
    <3>2. CASE s # r
      <4>1. Archived(p, s)' <=> Archived(p, s)
        BY <1>3, <3>2 DEF Archived
      <4>2. active'[s] = active[s] /\ archive'[s] = archive[s]
        BY <1>2, <3>2 DEF TypeOK
      <4> QED
        BY <1>4, <4>1, <4>2 DEF Placed
    <3> QED
      BY <3>1, <3>2
  <2> QED
    BY <1>2, <1>3, <2>1, <2>2 DEF Placed
<1>7. Configured(p)'
  BY <1>2, <1>3, <1>4 DEF Configured
<1>8. Marked(p)'
  BY <1>2, <1>3, <1>4 DEF Marked, Retired
<1>9. Preparing(p)'
  BY <1>2 DEF Preparing
<1> QED
  BY <1>5, <1>6, <1>7, <1>8, <1>9 DEF Course

\* The steps that only record, or turn back, leave the data root on its course.
LEMMA CourseForward ==
  ASSUME TypeOK, NEW p \in Proc, Course(p),
         RecordMove(p) \/ ConfigInPlace(p) \/ NoOverlayToRetire(p) \/ Fails(p)
  PROVE  Course(p)'
<1> USE DEF TypeOK, Goto, data, past, outer
<1>1. pc[p] \in Recorded /\ pc'[p] \in Recorded
  BY DEF RecordMove, ConfigInPlace, ConfigSettled, NoOverlayToRetire, Fails, Recorded, Forward,
         Rollback
<1>2. /\ UNCHANGED <<data, backups, snap, tx, tasks>>
      /\ journal'.target = journal.target
  BY DEF RecordMove, ConfigInPlace, NoOverlayToRetire, Fails, Journal
<1>3. Carried(p) /\ Placed(p) /\ Configured(p) /\ Marked(p)
  BY DEF Course
<1>4. CASE RecordMove(p)
  <2>1. pc[p] = "record-move" /\ pc'[p] = "move"
    BY <1>4 DEF RecordMove
  <2>2. ~tx[p].wrote /\ ~tx[p].retired
    BY <1>1, <1>3, <2>1 DEF Configured, Marked
  <2> QED
    BY <1>1, <1>2, <2>1, <2>2, CourseOn DEF Retired
<1>5. CASE ConfigInPlace(p)
  <2>1. pc[p] \in {"move", "readback"} /\ pc'[p] = "retire"
    BY <1>5 DEF ConfigInPlace, ConfigSettled
  <2>2. ~tx[p].retired
    BY <1>1, <1>3, <2>1 DEF Marked
  <2>3. tx[p].jobs = {}
    BY <1>1, <1>3, <1>5 DEF ConfigInPlace, ConfigSettled, Placed
  <2>4. config = tx[p].target
    BY <1>1, <1>3, <1>5 DEF ConfigInPlace, ConfigSettled, Configured, Carried, PlannedFor
  <2> QED
    BY <1>1, <1>2, <2>1, <2>2, <2>3, <2>4, CourseOn DEF Retired
<1>6. CASE NoOverlayToRetire(p)
  <2>1. pc[p] = "retire" /\ pc'[p] = "commit" /\ tx[p].overlay = NoMarker
    BY <1>6 DEF NoOverlayToRetire
  <2>2. ~tx[p].retired
    BY <1>1, <1>3, <2>1 DEF Marked
  <2>3. tx[p].jobs = {} /\ config = tx[p].target
    BY <1>1, <1>3, <2>1 DEF Placed, Configured
  <2>4. overlay = {}
    BY <1>1, <1>3, <2>1, <2>2 DEF Marked, Retired, Carried, PlannedFor, Markers
  <2> QED
    BY <1>1, <1>2, <2>1, <2>2, <2>3, <2>4, CourseOn DEF Retired
<1>7. CASE Fails(p)
  <2>1. pc[p] \in Forward /\ pc'[p] = "rb-overlay"
    BY <1>7 DEF Fails
  <2>2. tx[p].retired => pc[p] = "commit"
    BY <1>1, <1>3, <2>1 DEF Marked, Forward
  <2> QED
    BY <1>1, <1>2, <2>1, <2>2, CourseOn DEF Retired, Forward
<1> QED
  BY <1>4, <1>5, <1>6, <1>7

\* The configuration that is written is the planned one.
LEMMA CourseWrite ==
  ASSUME TypeOK, NEW p \in Proc, Course(p), WriteConfig(p) PROVE Course(p)'
<1>1. tx[p] \in Tx
  BY DEF TypeOK
<1>2. /\ pc[p] = "move" /\ pc'[p] = "readback" /\ tx[p].jobs = {}
      /\ config' = tx[p].target
      /\ UNCHANGED <<active, archive, overlay, tasks, snap, journal, backups>>
      /\ tx'[p] = [tx[p] EXCEPT !.wrote = TRUE]
  BY DEF WriteConfig, Goto, past, outer, TypeOK
<1>3. /\ tx'[p].jobs = tx[p].jobs /\ tx'[p].moved = tx[p].moved
      /\ tx'[p].original = tx[p].original /\ tx'[p].target = tx[p].target
      /\ tx'[p].changes = tx[p].changes /\ tx'[p].restored = tx[p].restored
      /\ tx'[p].overlay = tx[p].overlay /\ tx'[p].wrote = TRUE
      /\ tx'[p].retired = tx[p].retired /\ tx'[p].run = tx[p].run
  BY <1>1, <1>2 DEF Tx
<1>4. Carried(p) /\ Placed(p) /\ Configured(p) /\ Marked(p) /\ pc[p] \in Recorded
  BY <1>2 DEF Course, Recorded, Forward
<1>5. Carried(p)'
  BY <1>2, <1>3, <1>4 DEF Carried, PlannedFor
<1>6. Placed(p)'
  BY <1>2, <1>3, <1>4 DEF Placed, Archived
<1>7. Configured(p)'
  BY <1>2, <1>3, <1>4 DEF Configured
<1>8. Marked(p)'
  BY <1>2, <1>3, <1>4 DEF Marked, Retired
<1>9. Preparing(p)'
  BY <1>2 DEF Preparing
<1> QED
  BY <1>5, <1>6, <1>7, <1>8, <1>9 DEF Course

\* The retired marker is in the backup of this very run.
LEMMA CourseRetire ==
  ASSUME TypeOK, OwnBackup, NEW p \in Proc, Course(p), RetireOverlay(p) PROVE Course(p)'
<1>1. tx[p].run \in 1..MaxRuns /\ tx[p] \in Tx
  BY RunTyped DEF RetireOverlay, InTx, Forward
<1>2. /\ pc[p] = "retire" /\ pc'[p] = "commit" /\ tx[p].overlay \in overlay
      /\ overlay' = overlay \ {tx[p].overlay}
      /\ backups' = [backups EXCEPT ![tx[p].run].overlay = tx[p].overlay]
      /\ UNCHANGED <<config, active, archive, tasks, snap, journal>>
      /\ tx'[p] = [tx[p] EXCEPT !.retired = TRUE]
  BY DEF RetireOverlay, Goto, past, outer, TypeOK
<1>3. /\ tx'[p].jobs = tx[p].jobs /\ tx'[p].moved = tx[p].moved
      /\ tx'[p].original = tx[p].original /\ tx'[p].target = tx[p].target
      /\ tx'[p].changes = tx[p].changes /\ tx'[p].restored = tx[p].restored
      /\ tx'[p].overlay = tx[p].overlay /\ tx'[p].wrote = tx[p].wrote
      /\ tx'[p].retired = TRUE /\ tx'[p].run = tx[p].run
  BY <1>1, <1>2 DEF Tx
<1>4. Carried(p) /\ Placed(p) /\ Configured(p) /\ Marked(p) /\ pc[p] \in Recorded
  BY <1>2 DEF Course, Recorded, Forward
<1>5. /\ backups'[tx[p].run].config = backups[tx[p].run].config
      /\ backups'[tx[p].run].overlay = tx[p].overlay
  BY <1>1, <1>2 DEF TypeOK, Backup
<1>6. Carried(p)'
  BY <1>2, <1>3, <1>4, <1>5 DEF Carried, PlannedFor
<1>7. Placed(p)'
  BY <1>2, <1>3, <1>4 DEF Placed, Archived
<1>8. Configured(p)'
  BY <1>2, <1>3, <1>4 DEF Configured
<1>9. Marked(p)'
  <2>1. overlay = Markers(tx[p].overlay)
    BY <1>2, <1>4 DEF Marked, Retired, Carried, PlannedFor
  <2>2. overlay' = {}
    BY <1>2, <2>1 DEF Markers
  <2> QED
    BY <1>2, <1>3, <1>5, <2>2 DEF Marked, Retired
<1>10. Preparing(p)'
  BY <1>2 DEF Preparing
<1> QED
  BY <1>6, <1>7, <1>8, <1>9, <1>10 DEF Course

\* The rollback puts the retired marker back.
LEMMA CourseRollBackOverlay ==
  ASSUME TypeInv, OwnBackup, NEW p \in Proc, Course(p), RollBackOverlay(p) PROVE Course(p)'
<1>1. tx[p].run \in 1..MaxRuns /\ tx[p] \in Tx
  BY RunTyped DEF RollBackOverlay, InTx, Rollback, TypeInv
<1>2. /\ pc[p] = "rb-overlay" /\ pc'[p] = "rb-config"
      /\ UNCHANGED <<config, active, archive, tasks, snap, journal, tx>>
  BY DEF RollBackOverlay, Goto, past, outer, TypeInv, TypeOK
<1>3. Carried(p) /\ Placed(p) /\ Configured(p) /\ Marked(p) /\ pc[p] \in Recorded
  BY <1>2 DEF Course, Recorded, Rollback
<1>4. /\ backups'[tx[p].run].config = backups[tx[p].run].config
      /\ backups'[tx[p].run].overlay = NoMarker /\ overlay' = snap.overlay
  <2>1. CASE tx[p].retired
    <3>1. overlay = {} /\ snap.overlay = Markers(tx[p].overlay) /\ tx[p].overlay \notin overlay
      BY <1>2, <1>3, <2>1 DEF Marked, Retired, Carried, PlannedFor
    <3>2. /\ overlay' = overlay \union {tx[p].overlay}
          /\ backups' = [backups EXCEPT ![tx[p].run].overlay = NoMarker]
      BY <2>1, <3>1 DEF RollBackOverlay
    <3>3. /\ backups'[tx[p].run].config = backups[tx[p].run].config
          /\ backups'[tx[p].run].overlay = NoMarker
      BY <1>1, <3>2 DEF TypeInv, TypeOK, Backup
    <3>4. tx[p].overlay # NoMarker
      BY <2>1 DEF TypeInv, RetiredWell, MarkerDir, NoMarker
    <3> QED
      BY <3>1, <3>2, <3>3, <3>4 DEF Markers
  <2>2. CASE ~tx[p].retired
    BY <1>2, <1>3, <2>2 DEF RollBackOverlay, Marked, Retired
  <2> QED
    BY <2>1, <2>2
<1>5. Carried(p)'
  BY <1>2, <1>3, <1>4 DEF Carried, PlannedFor
<1>6. Placed(p)'
  BY <1>2, <1>3 DEF Placed, Archived
<1>7. Configured(p)'
  BY <1>2, <1>3 DEF Configured
<1>8. Marked(p)'
  BY <1>2, <1>4 DEF Marked, Retired
<1>9. Preparing(p)'
  BY <1>2 DEF Preparing
<1> QED
  BY <1>5, <1>6, <1>7, <1>8, <1>9 DEF Course

\* The rollback restores the configuration that was found.
LEMMA CourseRestoreConfig ==
  ASSUME TypeOK, NEW p \in Proc, Course(p), CheckConfig(p) \/ RestoreConfig(p) PROVE Course(p)'
<1> USE DEF data, past, outer, Goto, TypeOK
<1>1. CASE pc'[p] = "rb-restore"
  <2>1. /\ pc[p] = "rb-config" /\ tx[p].wrote
        /\ UNCHANGED <<data, tasks, snap, journal, backups, tx>>
    BY <1>1 DEF CheckConfig, RestoreConfig
  <2>2. pc[p] \in Recorded /\ pc'[p] \in Recorded
    BY <1>1, <2>1 DEF Recorded, Rollback
  <2> QED
    BY <1>1, <2>1, <2>2, CourseOn DEF Retired
<1>2. CASE pc'[p] # "rb-restore"
  <2>1. /\ pc[p] \in {"rb-config", "rb-restore"} /\ pc'[p] = "rb-move"
        /\ UNCHANGED <<active, archive, overlay, tasks, snap, journal, backups, tx>>
        /\ IF pc[p] = "rb-config" THEN ~tx[p].wrote /\ config' = config
           ELSE config' = tx[p].original
    BY <1>2 DEF CheckConfig, RestoreConfig
  <2>2. Carried(p) /\ Placed(p) /\ Configured(p) /\ Marked(p) /\ pc[p] \in Recorded
    BY <2>1 DEF Course, Recorded, Rollback
  <2>3. config' = snap.config
    BY <2>1, <2>2 DEF Configured, Carried
  <2>4. Carried(p)'
    BY <2>1, <2>2 DEF Carried, PlannedFor
  <2>5. Placed(p)'
    BY <2>1, <2>2 DEF Placed, Archived
  <2>6. Configured(p)'
    BY <2>1, <2>3 DEF Configured
  <2>7. Marked(p)'
    BY <2>1, <2>2 DEF Marked, Retired
  <2>8. Preparing(p)'
    BY <2>1 DEF Preparing
  <2> QED
    BY <2>4, <2>5, <2>6, <2>7, <2>8 DEF Course
<1> QED
  BY <1>1, <1>2

\* The rollback takes one home back from the archive.
LEMMA CourseRestoreRole ==
  ASSUME TypeOK, NEW p \in Proc, NEW r \in Role, Course(p), RestoreRole(p, r)
  PROVE  Course(p)'
<1>1. /\ pc[p] = "rb-move" /\ pc'[p] = "rb-move" /\ r \in tx[p].moved \ tx[p].restored
      /\ active' = [active EXCEPT ![r] = archive[r]]
      /\ archive' = [archive EXCEPT ![r] = NoHome]
      /\ UNCHANGED <<config, overlay, tasks, snap, journal, backups>>
      /\ tx'[p] = [tx[p] EXCEPT !.restored = @ \union {r}]
  BY DEF RestoreRole, past, outer, TypeOK
<1>2. tx[p] \in Tx
  BY DEF TypeOK
<1>3. /\ tx'[p].jobs = tx[p].jobs /\ tx'[p].moved = tx[p].moved
      /\ tx'[p].original = tx[p].original /\ tx'[p].target = tx[p].target
      /\ tx'[p].changes = tx[p].changes /\ tx'[p].restored = tx[p].restored \union {r}
      /\ tx'[p].overlay = tx[p].overlay /\ tx'[p].wrote = tx[p].wrote
      /\ tx'[p].retired = tx[p].retired /\ tx'[p].run = tx[p].run
  BY <1>1, <1>2 DEF Tx
<1>4. Carried(p) /\ Placed(p) /\ Configured(p) /\ Marked(p) /\ pc[p] \in Recorded
  BY <1>1 DEF Course, Recorded, Rollback
<1>5. Carried(p)'
  BY <1>1, <1>3, <1>4 DEF Carried, PlannedFor
<1>6. Placed(p)'
  <2>1. ASSUME NEW s \in Role
        PROVE  IF Archived(p, s)' THEN active'[s] = NoHome /\ archive'[s] = snap.active[s]
               ELSE active'[s] = snap.active[s] /\ archive'[s] = snap.archive[s]
    <3>1. CASE s = r
      <4>1. Archived(p, r) /\ ~Archived(p, s)'
        BY <1>1, <1>3, <3>1 DEF Archived
      <4>2. archive[r] = snap.active[r]
        BY <1>4, <4>1 DEF Placed
      <4>3. snap.active[r] # NoHome
        BY <1>1, <1>4 DEF Carried, PlannedFor
      <4>4. snap.archive[r] = NoHome
        BY <1>4, <4>3 DEF Carried, PlannedFor
      <4>5. active'[r] = archive[r] /\ archive'[r] = NoHome
        BY <1>1 DEF TypeOK
      <4> QED
        BY <3>1, <4>1, <4>2, <4>4, <4>5
    <3>2. CASE s # r
      <4>1. Archived(p, s)' <=> Archived(p, s)
        BY <1>3, <3>2 DEF Archived
      <4>2. active'[s] = active[s] /\ archive'[s] = archive[s]
        BY <1>1, <3>2 DEF TypeOK
      <4> QED
        BY <1>4, <4>1, <4>2 DEF Placed
    <3> QED
      BY <3>1, <3>2
  <2> QED
    BY <1>1, <1>3, <1>4, <2>1 DEF Placed
<1>7. Configured(p)'
  BY <1>1, <1>3, <1>4 DEF Configured
<1>8. Marked(p)'
  BY <1>1, <1>3, <1>4 DEF Marked, Retired
<1>9. Preparing(p)'
  BY <1>1 DEF Preparing
<1> QED
  BY <1>5, <1>6, <1>7, <1>8, <1>9 DEF Course

\* While nobody else writes, every transaction stays on its course.
LEMMA OnCourseStep ==
  ASSUME Quiet = TRUE, TypeInv, LockHeld, OwnBackup, OnCourse, [Next]_vars
  PROVE  OnCourse'
<1> SUFFICES ASSUME NEW p \in Proc PROVE Unstarted(p)' /\ Course(p)'
  BY DEF OnCourse
<1>1. TypeOK /\ MutualExclusion /\ Unstarted(p) /\ Course(p)
  BY DEF TypeInv, LockHeld, MutualExclusion, OnCourse
<1>2. Unstarted(p)'
  BY <1>1, UnstartedStep
<1>3. CASE pc'[p] \notin InTx
  BY <1>2, <1>3, CourseEnded
<1>4. CASE pc'[p] \in InTx /\ pc[p] \notin InTx
  BY <1>1, <1>2, <1>4, Entered, CourseReplan
<1>5. CASE pc'[p] \in InTx /\ pc[p] \in InTx /\ ~Step(p)
  BY <1>1, <1>2, <1>5, Isolated, CourseKept
<1>6. CASE pc'[p] \in InTx /\ pc[p] \in InTx /\ Step(p)
  <2>1. CASE BackUp(p) \/ Prepare(p)
    BY <1>1, <1>2, <2>1, CourseBackUp, CoursePrepare
  <2>2. CASE \E r \in Role : MoveRole(p, r)
    BY <1>1, <1>2, <2>2, CourseMove
  <2>3. CASE RecordMove(p) \/ ConfigInPlace(p) \/ NoOverlayToRetire(p) \/ Fails(p)
    BY <1>1, <1>2, <2>3, CourseForward
  <2>4. CASE WriteConfig(p) \/ RetireOverlay(p)
    BY <1>1, <1>2, <2>4, CourseWrite, CourseRetire
  <2>5. CASE RollBackOverlay(p) \/ CheckConfig(p) \/ RestoreConfig(p)
    BY <1>1, <1>2, <2>5, CourseRollBackOverlay, CourseRestoreConfig
  <2>6. CASE \E r \in Role : RestoreRole(p, r)
    BY <1>1, <1>2, <2>6, CourseRestoreRole
  <2>7. CASE \/ Begin(p) \/ PlanUnchanged(p) \/ PlanWork(p) \/ PlanBlocked(p)
             \/ LockLegacy(p) \/ LockNew(p) \/ LockFails(p) \/ Replan(p)
    BY <1>6, <2>7 DEF Begin, PlanUnchanged, PlanWork, PlanBlocked, LockLegacy, LockNew,
                      LockFails, Replan, InTx, Forward, Rollback, Locking, Ended
  <2>8. CASE \/ FailsEarly(p) \/ Commit(p) \/ RecordRolledBack(p) \/ RollbackFails(p)
             \/ Killed(p)
    BY <1>1, <1>6, <2>8 DEF FailsEarly, Commit, RecordRolledBack, RollbackFails, Killed, Goto,
                            TypeOK, InTx, Forward, Rollback
  <2> QED
    BY <1>2, <1>6, <2>1, <2>2, <2>3, <2>4, <2>5, <2>6, <2>7, <2>8 DEF Step, ProgressStep
<1> QED
  BY <1>3, <1>4, <1>5, <1>6

QuietInv == TypeInv /\ LockHeld /\ OwnerInv /\ OwnBackup /\ OnCourse

\* The invariant of a migration that nobody else disturbs: from Replan to its
\* end a transaction knows where every piece of the data root is.
LEMMA StaysOnCourse ==
  ASSUME Quiet = TRUE PROVE Spec => []QuietInv
<1>1. Init => QuietInv
  <2>1. Init => TypeInv
    BY TypeInit DEF TypeInv, RetiredWell, Init, EmptyTx
  <2>2. Init => LockHeld /\ OwnerInv
    BY DEF Init, LockHeld, OwnerInv, Exclusive, InTx, Forward, Rollback
  <2>3. Init => OwnBackup
    BY DEF Init, OwnBackup, Running, Locking, InTx, Forward, Rollback
  <2>4. Init => OnCourse
    BY DEF Init, OnCourse, Unstarted, Early, Course, Preparing, Carried, Placed, Configured,
           Marked, Recorded, Forward, Rollback
  <2> QED
    BY <2>1, <2>2, <2>3, <2>4 DEF QuietInv
<1>2. QuietInv /\ [Next]_vars => QuietInv'
  <2> SUFFICES ASSUME QuietInv, [Next]_vars PROVE QuietInv'
    OBVIOUS
  <2>1. TypeInv'
    BY TypeStep, RetiredStep DEF QuietInv, TypeInv
  <2>2. LockHeld'
    BY <2>1, LockHeldStep DEF QuietInv, TypeInv
  <2>3. OwnerInv'
    BY OwnerStep DEF QuietInv, TypeInv, FrozenInv
  <2>4. OwnBackup'
    BY OwnBackupStep DEF QuietInv
  <2>5. OnCourse'
    BY OnCourseStep DEF QuietInv
  <2> QED
    BY <2>1, <2>2, <2>3, <2>4, <2>5 DEF QuietInv
<1> QED
  BY <1>1, <1>2, PTL DEF Spec

\* What is known of an invocation once "prepared" is journalled.
LEMMA InTransaction ==
  ASSUME QuietInv, NEW p \in Proc, pc[p] \in Recorded
  PROVE  /\ Carried(p) /\ Placed(p) /\ Configured(p) /\ Marked(p)
         /\ Prepared /\ journal.run = tx[p].run
         /\ \A q \in Proc : pc[q] \in Exclusive => q = p
BY DEF QuietInv, OnCourse, Course, OwnerInv, Recorded, Prepared, LockHeld, Exclusive, InTx,
       TypeInv, TypeOK

\* A committed transaction has migrated everything it found.
LEMMA CommittedIsMigrated ==
  ASSUME QuietInv, NEW p \in Proc, pc[p] = "commit"
  PROVE  /\ config = Desired(snap.config)
         /\ \A r \in Role :
              /\ active[r] = NoHome
              /\ archive[r] = IF snap.active[r] = NoHome THEN snap.archive[r] ELSE snap.active[r]
         /\ overlay = {}
<1>1. pc[p] \in Recorded /\ Carried(p) /\ Placed(p) /\ Configured(p) /\ Marked(p)
  BY InTransaction DEF Recorded, Forward
<1>2. tx[p].jobs = {} /\ tx[p].restored = {}
  BY <1>1 DEF Placed
<1>3. \A r \in Role : snap.active[r] # NoHome <=> Archived(p, r)
  BY <1>1, <1>2 DEF Carried, PlannedFor, Archived
<1>4. \A r \in Role :
        /\ active[r] = NoHome
        /\ archive[r] = IF snap.active[r] = NoHome THEN snap.archive[r] ELSE snap.active[r]
  BY <1>1, <1>3 DEF Placed
<1> QED
  BY <1>1, <1>4 DEF Configured, Carried, PlannedFor, Marked

\* A rolled back transaction has put everything back.
LEMMA RolledBackIsAsFound ==
  ASSUME QuietInv, NEW p \in Proc, RecordRolledBack(p)
  PROVE  /\ config = snap.config /\ active = snap.active
         /\ archive = snap.archive /\ overlay = snap.overlay
<1>1. pc[p] = "rb-move" /\ tx[p].restored = tx[p].moved
  BY DEF RecordRolledBack
<1>2. Carried(p) /\ Placed(p) /\ Configured(p) /\ Marked(p) /\ pc[p] \in Recorded
  BY <1>1, InTransaction DEF Recorded, Rollback
<1>3. \A r \in Role : active[r] = snap.active[r] /\ archive[r] = snap.archive[r]
  BY <1>1, <1>2 DEF Placed, Archived
<1>4. /\ active \in [Role -> Nat] /\ archive \in [Role -> Nat]
      /\ snap.active \in [Role -> Nat] /\ snap.archive \in [Role -> Nat]
  BY DEF QuietInv, TypeInv, TypeOK, Snapshot
<1>5. active = snap.active /\ archive = snap.archive
  BY <1>3, <1>4
<1> QED
  BY <1>1, <1>2, <1>5 DEF Configured, Marked, Retired

\* A prepared journal is settled by the commit or by the end of the rollback.
LEMMA Settled ==
  ASSUME QuietInv, [Next]_vars, Prepared, ~Prepared'
  PROVE  \E p \in Proc : Commit(p) \/ RecordRolledBack(p)
<1> USE DEF Prepared, data, past, outer
<1>1. ASSUME NEW p \in Proc, Step(p), pc[p] \notin InTx PROVE FALSE
  BY <1>1, Harmless
<1>2. ASSUME NEW p \in Proc, Step(p), pc[p] \in InTx, ~Commit(p), ~RecordRolledBack(p)
      PROVE  FALSE
  <2>1. CASE \/ PlanUnchanged(p) \/ PlanWork(p) \/ PlanBlocked(p)
             \/ LockLegacy(p) \/ LockNew(p) \/ LockFails(p) \/ Begin(p) \/ Killed(p)
    BY <2>1 DEF PlanUnchanged, PlanWork, PlanBlocked, LockLegacy, LockNew, LockFails, Begin,
                Killed
  <2>2. CASE \/ Replan(p) \/ BackUp(p) \/ FailsEarly(p)
             \/ \E r \in Role : MoveRole(p, r) \/ RestoreRole(p, r)
    BY <2>2 DEF Replan, BackUp, FailsEarly, MoveRole, RestoreRole
  <2>3. CASE Prepare(p) \/ RecordMove(p)
    <3>1. journal \in Journal
      BY DEF QuietInv, TypeInv, TypeOK
    <3>2. CASE Prepare(p)
      BY <3>2 DEF Prepare
    <3>3. CASE RecordMove(p)
      BY <3>1, <3>3 DEF RecordMove, Journal
    <3> QED
      BY <2>3, <3>2, <3>3
  <2>4. CASE \/ WriteConfig(p) \/ ConfigInPlace(p) \/ NoOverlayToRetire(p)
             \/ RetireOverlay(p) \/ Fails(p)
    BY <2>4 DEF WriteConfig, ConfigInPlace, NoOverlayToRetire, RetireOverlay, Fails
  <2>5. CASE RollBackOverlay(p) \/ CheckConfig(p) \/ RestoreConfig(p) \/ RollbackFails(p)
    BY <2>5 DEF RollBackOverlay, CheckConfig, RestoreConfig, RollbackFails
  <2> QED
    BY <1>2, <2>1, <2>2, <2>3, <2>4, <2>5 DEF Step, ProgressStep
<1>3. CASE Environment
  BY <1>3 DEF Environment, EditConfig, StartTask, FinishTask, CreateHome, OldVersionStarts,
              OldVersionEnds
<1>4. CASE UNCHANGED vars
  BY <1>4 DEF vars
<1> QED
  BY <1>1, <1>2, <1>3, <1>4 DEF Next, Step

\* When a rollback is journalled, the data root is exactly what the transaction
\* found (for a transaction that nobody else disturbs).
THEOREM RollbackRestores ==
  ASSUME Quiet = TRUE PROVE Spec => RollbackIsExact
<1>1. ASSUME QuietInv, [Next]_vars, journal.phase = "prepared", journal'.phase = "rolled-back"
      PROVE  /\ config' = snap.config /\ active' = snap.active
             /\ archive' = snap.archive /\ overlay' = snap.overlay
  <2>1. PICK p \in Proc : Commit(p) \/ RecordRolledBack(p)
    BY <1>1, Settled DEF Prepared
  <2>2. RecordRolledBack(p)
    BY <1>1, <2>1 DEF Commit, QuietInv, TypeInv, TypeOK, Journal
  <2>3. UNCHANGED <<config, active, archive, overlay>>
    BY <2>2 DEF RecordRolledBack, data
  <2> QED
    BY <1>1, <2>2, <2>3, RolledBackIsAsFound
<1>2. QuietInv /\ [Next]_vars =>
        [journal.phase = "prepared" /\ journal'.phase = "rolled-back"
           => /\ config' = snap.config /\ active' = snap.active
              /\ archive' = snap.archive /\ overlay' = snap.overlay]_vars
  BY <1>1
<1> QED
  BY <1>2, StaysOnCourse, PTL DEF Spec, RollbackIsExact

\* No transaction undoes an edit: what it writes stems from the edit it found.
THEOREM EditsAreKept ==
  ASSUME Quiet = TRUE PROVE Spec => EditsSurvive
<1>1. ASSUME QuietInv, [Next]_vars, config'.user # config.user PROVE edits' # edits
  <2> USE DEF data
  <2>1. ASSUME NEW p \in Proc, Step(p) PROVE FALSE
    <3>1. pc[p] \in InTx
      BY <1>1, <2>1, Harmless
    <3>2. CASE WriteConfig(p)
      <4>1. pc[p] \in Recorded /\ pc[p] = "move" /\ config' = tx[p].target
        BY <3>2 DEF WriteConfig, Recorded, Forward
      <4>2. Carried(p) /\ Configured(p)
        BY <1>1, <4>1, InTransaction
      <4>3. config = snap.config /\ tx[p].target = Desired(snap.config)
        BY <4>1, <4>2 DEF Carried, PlannedFor, Configured
      <4>4. config'.user = config.user
        BY <1>1, <4>1, <4>3 DEF Desired, QuietInv, TypeInv, TypeOK, Config
      <4> QED
        BY <1>1, <4>4
    <3>3. CASE RestoreConfig(p)
      <4>1. pc[p] \in Recorded /\ pc[p] = "rb-restore" /\ config' = tx[p].original
        BY <3>3 DEF RestoreConfig, Recorded, Rollback
      <4>2. Carried(p) /\ Configured(p)
        BY <1>1, <4>1, InTransaction
      <4>3. config = Desired(snap.config) /\ config' = snap.config
        BY <4>1, <4>2 DEF Carried, PlannedFor, Configured
      <4>4. snap.config \in Config
        BY <1>1 DEF QuietInv, TypeInv, TypeOK, Snapshot
      <4> QED
        BY <1>1, <4>3, <4>4 DEF Desired, Config
    <3>4. CASE ~WriteConfig(p) /\ ~RestoreConfig(p)
      <4>1. CASE \/ PlanUnchanged(p) \/ PlanWork(p) \/ PlanBlocked(p)
                 \/ LockLegacy(p) \/ LockNew(p) \/ LockFails(p) \/ Begin(p) \/ Killed(p)
        BY <1>1, <4>1 DEF PlanUnchanged, PlanWork, PlanBlocked, LockLegacy, LockNew, LockFails,
                          Begin, Killed
      <4>2. CASE \/ Replan(p) \/ BackUp(p) \/ Prepare(p) \/ FailsEarly(p)
                 \/ \E r \in Role : MoveRole(p, r) \/ RestoreRole(p, r)
        BY <1>1, <4>2 DEF Replan, BackUp, Prepare, FailsEarly, MoveRole, RestoreRole
      <4>3. CASE \/ RecordMove(p) \/ ConfigInPlace(p) \/ NoOverlayToRetire(p)
                 \/ RetireOverlay(p) \/ Commit(p) \/ Fails(p)
        BY <1>1, <4>3 DEF RecordMove, ConfigInPlace, NoOverlayToRetire, RetireOverlay, Commit,
                          Fails
      <4>4. CASE RollBackOverlay(p) \/ CheckConfig(p) \/ RecordRolledBack(p) \/ RollbackFails(p)
        BY <1>1, <4>4 DEF RollBackOverlay, CheckConfig, RecordRolledBack, RollbackFails
      <4> QED
        BY <2>1, <3>4, <4>1, <4>2, <4>3, <4>4 DEF Step, ProgressStep
    <3> QED
      BY <3>2, <3>3, <3>4
  <2>2. CASE Environment
    BY <1>1, <2>2 DEF QuietInv, TypeInv, TypeOK, Environment, EditConfig, StartTask, FinishTask,
                      CreateHome, OldVersionStarts, OldVersionEnds
  <2>3. CASE UNCHANGED vars
    BY <1>1, <2>3 DEF vars
  <2> QED
    BY <1>1, <2>1, <2>2, <2>3 DEF Next, Step
<1>2. QuietInv /\ [Next]_vars => [config'.user # config.user => edits' # edits]_vars
  BY <1>1
<1> QED
  BY <1>2, StaysOnCourse, PTL DEF Spec, EditsSurvive

\* No home is archived under a board that has work in hand: the plan under the
\* lock found it idle, and no task starts during a transaction.
THEOREM TasksAreSafe ==
  ASSUME Quiet = TRUE PROVE Spec => NoArchiveUnderTasks
<1>1. ASSUME QuietInv, [Next]_vars, NEW r \in Role, archive'[r] # archive[r], archive'[r] # NoHome
      PROVE  ~tasks
  <2> USE DEF data
  <2>1. ASSUME NEW p \in Proc, Step(p) PROVE ~tasks
    <3>1. CASE \E s \in Role : MoveRole(p, s)
      <4>1. pc[p] \in Recorded /\ tx[p].jobs # {}
        BY <3>1 DEF MoveRole, Recorded, Forward
      <4> QED
        BY <1>1, <4>1, InTransaction DEF Carried, PlannedFor
    <3>2. CASE \E s \in Role : RestoreRole(p, s)
      <4>1. archive \in [Role -> Nat]
        BY <1>1 DEF QuietInv, TypeInv, TypeOK
      <4> QED
        BY <1>1, <3>2, <4>1 DEF RestoreRole
    <3>3. CASE \/ PlanUnchanged(p) \/ PlanWork(p) \/ PlanBlocked(p)
               \/ LockLegacy(p) \/ LockNew(p) \/ LockFails(p) \/ Begin(p) \/ Killed(p)
      BY <1>1, <3>3 DEF PlanUnchanged, PlanWork, PlanBlocked, LockLegacy, LockNew, LockFails,
                        Begin, Killed
    <3>4. CASE Replan(p) \/ BackUp(p) \/ Prepare(p) \/ FailsEarly(p)
      BY <1>1, <3>4 DEF Replan, BackUp, Prepare, FailsEarly
    <3>5. CASE \/ RecordMove(p) \/ WriteConfig(p) \/ ConfigInPlace(p) \/ NoOverlayToRetire(p)
               \/ RetireOverlay(p) \/ Commit(p) \/ Fails(p)
      BY <1>1, <3>5 DEF RecordMove, WriteConfig, ConfigInPlace, NoOverlayToRetire,
                        RetireOverlay, Commit, Fails
    <3>6. CASE \/ RollBackOverlay(p) \/ CheckConfig(p) \/ RestoreConfig(p)
               \/ RecordRolledBack(p) \/ RollbackFails(p)
      BY <1>1, <3>6 DEF RollBackOverlay, CheckConfig, RestoreConfig, RecordRolledBack,
                        RollbackFails
    <3> QED
      BY <2>1, <3>1, <3>2, <3>3, <3>4, <3>5, <3>6 DEF Step, ProgressStep
  <2>2. CASE Environment
    BY <1>1, <2>2 DEF Environment, EditConfig, StartTask, FinishTask, CreateHome,
                      OldVersionStarts, OldVersionEnds
  <2>3. CASE UNCHANGED vars
    BY <1>1, <2>3 DEF vars
  <2> QED
    BY <1>1, <2>1, <2>2, <2>3 DEF Next, Step
<1>2. QuietInv /\ [Next]_vars =>
        [\A r \in Role : archive'[r] # archive[r] /\ archive'[r] # NoHome => ~tasks]_vars
  BY <1>1
<1> QED
  BY <1>2, StaysOnCourse, PTL DEF Spec, NoArchiveUnderTasks

\* Nobody enters a transaction over a running migration of an old release: that
\* one made devkit-lite before it took the lock, and the last look sees it.
THEOREM OldVersionIsRespected == Spec => NoEntryOverOldVersion
<1> DEFINE MadeItsDir == legacyLock = OldVersion => legacyDir
<1>1. Init => MadeItsDir
  BY ProcAssumption DEF Init
<1>2. MadeItsDir /\ TypeOK /\ [Next]_vars => MadeItsDir'
  <2> SUFFICES ASSUME MadeItsDir, TypeOK, [Next]_vars PROVE MadeItsDir'
    OBVIOUS
  <2> USE ProcAssumption DEF locks, outer
  <2>1. ASSUME NEW p \in Proc, Step(p) PROVE MadeItsDir'
    <3>1. CASE \/ Begin(p) \/ Killed(p) \/ PlanUnchanged(p) \/ PlanWork(p) \/ PlanBlocked(p)
               \/ LockLegacy(p) \/ LockNew(p) \/ LockFails(p)
      BY <3>1 DEF Begin, Killed, PlanUnchanged, PlanWork, PlanBlocked, LockLegacy, LockNew,
                  LockFails, Release
    <3>2. CASE \/ Replan(p) \/ BackUp(p) \/ Prepare(p) \/ FailsEarly(p)
               \/ \E r \in Role : MoveRole(p, r) \/ RestoreRole(p, r)
      BY <3>2 DEF Replan, BackUp, Prepare, FailsEarly, Release, MoveRole, RestoreRole
    <3>3. CASE \/ RecordMove(p) \/ WriteConfig(p) \/ ConfigInPlace(p) \/ NoOverlayToRetire(p)
               \/ RetireOverlay(p) \/ Commit(p) \/ Fails(p)
      BY <3>3 DEF RecordMove, WriteConfig, ConfigInPlace, NoOverlayToRetire, RetireOverlay,
                  Commit, Fails, Release
    <3>4. CASE \/ RollBackOverlay(p) \/ CheckConfig(p) \/ RestoreConfig(p)
               \/ RecordRolledBack(p) \/ RollbackFails(p)
      BY <3>4 DEF RollBackOverlay, CheckConfig, RestoreConfig, RecordRolledBack, RollbackFails,
                  Release
    <3> QED
      BY <2>1, <3>1, <3>2, <3>3, <3>4 DEF Step, ProgressStep
  <2>2. CASE Environment
    BY <2>2 DEF Environment, EditConfig, StartTask, FinishTask, CreateHome, OldVersionStarts,
                OldVersionEnds
  <2>3. CASE UNCHANGED vars
    BY <2>3 DEF vars
  <2> QED
    BY <2>1, <2>2, <2>3 DEF Next, Step
<1>3. ASSUME MadeItsDir, TypeOK, [Next]_vars, NEW p \in Proc,
             pc[p] \notin Exclusive, pc'[p] \in Exclusive
      PROVE  legacyLock # OldVersion
  <2> USE DEF TypeOK, Goto, Exclusive, InTx, Forward, Rollback
  <2>1. LockNew(p) => legacyLock # OldVersion
    BY <1>3, ProcAssumption DEF LockNew, LegacyStillCovered
  <2>2. ASSUME NEW q \in Proc, Step(q), p # q PROVE FALSE
    BY <1>3, <2>2, Apart
  <2>3. CASE Step(p) /\ ~LockNew(p)
    <3>1. CASE Begin(p) \/ Killed(p)
      BY <1>3, <3>1 DEF Begin, Killed
    <3>2. CASE PlanUnchanged(p) \/ PlanWork(p) \/ PlanBlocked(p) \/ LockLegacy(p) \/ LockFails(p)
      BY <1>3, <3>2 DEF PlanUnchanged, PlanWork, PlanBlocked, LockLegacy, LockFails
    <3>3. CASE \/ Replan(p) \/ BackUp(p) \/ Prepare(p) \/ FailsEarly(p)
               \/ \E r \in Role : MoveRole(p, r) \/ RestoreRole(p, r)
      BY <1>3, <3>3 DEF Replan, BackUp, Prepare, FailsEarly, MoveRole, RestoreRole
    <3>4. CASE \/ RecordMove(p) \/ WriteConfig(p) \/ ConfigInPlace(p) \/ NoOverlayToRetire(p)
               \/ RetireOverlay(p) \/ Commit(p) \/ Fails(p)
      BY <1>3, <3>4 DEF RecordMove, WriteConfig, ConfigInPlace, ConfigSettled,
                        NoOverlayToRetire, RetireOverlay, Commit, Fails
    <3>5. CASE \/ RollBackOverlay(p) \/ CheckConfig(p) \/ RestoreConfig(p)
               \/ RecordRolledBack(p) \/ RollbackFails(p)
      BY <1>3, <3>5 DEF RollBackOverlay, CheckConfig, RestoreConfig, RecordRolledBack,
                        RollbackFails
    <3> QED
      BY <2>3, <3>1, <3>2, <3>3, <3>4, <3>5 DEF Step, ProgressStep
  <2>4. CASE Environment
    BY <1>3, <2>4 DEF Environment, EditConfig, StartTask, FinishTask, CreateHome,
                      OldVersionStarts, OldVersionEnds
  <2>5. CASE UNCHANGED vars
    BY <1>3, <2>5 DEF vars
  <2> QED
    BY <1>3, <2>1, <2>2, <2>3, <2>4, <2>5 DEF Next, Step
<1>4. MadeItsDir /\ TypeOK /\ [Next]_vars =>
        [\A p \in Proc : pc[p] \notin Exclusive /\ pc'[p] \in Exclusive
           => legacyLock # OldVersion]_vars
  BY <1>3
<1> QED
  BY <1>1, <1>2, <1>4, TypeCorrect, PTL DEF Spec, NoEntryOverOldVersion

-----------------------------------------------------------------------------
(* A prepared journal is enough to go back *)

\* A journal becomes prepared in Prepare alone.
LEMMA Opened ==
  ASSUME QuietInv, [Next]_vars, ~Prepared, Prepared'
  PROVE  \E p \in Proc : Prepare(p)
<1> USE DEF Prepared, data, past, outer
<1>1. ASSUME NEW p \in Proc, Step(p), ~Prepare(p) PROVE FALSE
  <2>1. pc[p] \in {"backup", "prepare"}
    BY <1>1, Harmless, InTransaction DEF InTx, Recorded
  <2>2. CASE \/ PlanUnchanged(p) \/ PlanWork(p) \/ PlanBlocked(p)
             \/ LockLegacy(p) \/ LockNew(p) \/ LockFails(p) \/ Begin(p) \/ Killed(p)
    BY <2>2 DEF PlanUnchanged, PlanWork, PlanBlocked, LockLegacy, LockNew, LockFails, Begin,
                Killed
  <2>3. CASE \/ Replan(p) \/ BackUp(p) \/ FailsEarly(p)
             \/ \E r \in Role : MoveRole(p, r) \/ RestoreRole(p, r)
    BY <2>3 DEF Replan, BackUp, FailsEarly, MoveRole, RestoreRole
  <2>4. CASE \/ RecordMove(p) \/ WriteConfig(p) \/ ConfigInPlace(p) \/ NoOverlayToRetire(p)
             \/ RetireOverlay(p) \/ Commit(p) \/ Fails(p)
    BY <2>1, <2>4 DEF RecordMove, WriteConfig, ConfigInPlace, NoOverlayToRetire, RetireOverlay,
                      Commit, Fails
  <2>5. CASE \/ RollBackOverlay(p) \/ CheckConfig(p) \/ RestoreConfig(p)
             \/ RecordRolledBack(p) \/ RollbackFails(p)
    BY <2>1, <2>5 DEF RollBackOverlay, CheckConfig, RestoreConfig, RecordRolledBack,
                      RollbackFails
  <2> QED
    BY <1>1, <2>2, <2>3, <2>4, <2>5 DEF Step, ProgressStep
<1>2. CASE Environment
  BY <1>2 DEF Environment, EditConfig, StartTask, FinishTask, CreateHome, OldVersionStarts,
              OldVersionEnds
<1>3. CASE UNCHANGED vars
  BY <1>3 DEF vars
<1> QED
  BY <1>1, <1>2, <1>3 DEF Next, Step

\* A transaction that stops without settling its journal leaves everything.
LEMMA CutShort ==
  ASSUME QuietInv, NEW p \in Proc, Step(p), pc[p] \in Recorded, pc'[p] \notin Recorded,
         ~Commit(p), ~RecordRolledBack(p)
  PROVE  UNCHANGED <<data, journal, backups, snap, edits>> /\ pc'[p] \notin InTx
<1> USE DEF Recorded, Forward, Rollback, Goto, data, past, outer
<1>1. pc \in [Proc -> Running \union Ended]
  BY DEF QuietInv, TypeInv, TypeOK
<1>2. CASE \/ PlanUnchanged(p) \/ PlanWork(p) \/ PlanBlocked(p)
           \/ LockLegacy(p) \/ LockNew(p) \/ LockFails(p) \/ Begin(p)
  BY <1>2 DEF PlanUnchanged, PlanWork, PlanBlocked, LockLegacy, LockNew, LockFails, Begin, Ended,
              Locking
<1>3. CASE \/ Replan(p) \/ BackUp(p) \/ Prepare(p) \/ FailsEarly(p)
  BY <1>3 DEF Replan, BackUp, Prepare, FailsEarly
<1>4. CASE \E r \in Role : MoveRole(p, r) \/ RestoreRole(p, r)
  BY <1>1, <1>4 DEF MoveRole, RestoreRole
<1>5. CASE \/ RecordMove(p) \/ WriteConfig(p) \/ ConfigInPlace(p) \/ NoOverlayToRetire(p)
           \/ RetireOverlay(p) \/ Fails(p)
  BY <1>1, <1>5 DEF RecordMove, WriteConfig, ConfigInPlace, NoOverlayToRetire, RetireOverlay,
                    Fails
<1>6. CASE RollBackOverlay(p) \/ CheckConfig(p) \/ RestoreConfig(p)
  BY <1>1, <1>6 DEF RollBackOverlay, CheckConfig, RestoreConfig
<1>7. CASE RollbackFails(p) \/ Killed(p)
  BY <1>1, <1>7 DEF RollbackFails, Killed, InTx
<1> QED
  BY <1>2, <1>3, <1>4, <1>5, <1>6, <1>7 DEF Step, ProgressStep

\* What other programs change, a transaction does not count; only Prepare looks.
LEMMA EditsGrow ==
  ASSUME TypeOK, [Next]_vars
  PROVE  /\ edits' >= edits
         /\ (\A p \in Proc : ~Prepare(p)) => snap' = snap
         /\ (\E p \in Proc : Prepare(p)) => snap'.edits = edits /\ edits' = edits
<1> USE BoundAssumption DEF TypeOK, past, outer
<1>1. ASSUME NEW p \in Proc, Step(p), ~Prepare(p) PROVE edits' = edits /\ snap' = snap
  <2>1. CASE \/ PlanUnchanged(p) \/ PlanWork(p) \/ PlanBlocked(p)
             \/ LockLegacy(p) \/ LockNew(p) \/ LockFails(p) \/ Begin(p) \/ Killed(p)
    BY <2>1 DEF PlanUnchanged, PlanWork, PlanBlocked, LockLegacy, LockNew, LockFails, Begin,
                Killed
  <2>2. CASE \/ Replan(p) \/ BackUp(p) \/ FailsEarly(p)
             \/ \E r \in Role : MoveRole(p, r) \/ RestoreRole(p, r)
    BY <2>2 DEF Replan, BackUp, FailsEarly, MoveRole, RestoreRole
  <2>3. CASE \/ RecordMove(p) \/ WriteConfig(p) \/ ConfigInPlace(p) \/ NoOverlayToRetire(p)
             \/ RetireOverlay(p) \/ Commit(p) \/ Fails(p)
    BY <2>3 DEF RecordMove, WriteConfig, ConfigInPlace, NoOverlayToRetire, RetireOverlay,
                Commit, Fails
  <2>4. CASE \/ RollBackOverlay(p) \/ CheckConfig(p) \/ RestoreConfig(p)
             \/ RecordRolledBack(p) \/ RollbackFails(p)
    BY <2>4 DEF RollBackOverlay, CheckConfig, RestoreConfig, RecordRolledBack, RollbackFails
  <2> QED
    BY <1>1, <2>1, <2>2, <2>3, <2>4 DEF Step, ProgressStep
<1>2. \A p \in Proc : Prepare(p) => snap'.edits = edits /\ edits' = edits
  BY DEF Prepare
<1>3. CASE Environment
  BY <1>2, <1>3 DEF Environment, EditConfig, StartTask, FinishTask, CreateHome,
                    OldVersionStarts, OldVersionEnds
<1>4. CASE UNCHANGED vars
  BY <1>2, <1>4 DEF vars
<1> QED
  BY <1>1, <1>2, <1>3, <1>4 DEF Next, Step

\* The consequent of Recoverable: the old data root can be had.
CanGoBack ==
  /\ backups[journal.run].config = snap.config
  /\ config \in {snap.config, journal.target}
  /\ overlay \union ({backups[journal.run].overlay} \ {NoMarker}) = snap.overlay
  /\ \A r \in Role : snap.active[r] # NoHome => snap.active[r] \in {active[r], archive[r]}

OpenCanGoBack == (\E p \in Proc : pc[p] \in Recorded) => CanGoBack

\* A transaction on its course can be undone from its journal and its backup.
LEMMA OpenRecoverable == QuietInv => OpenCanGoBack
<1> SUFFICES ASSUME QuietInv, NEW p \in Proc, pc[p] \in Recorded PROVE CanGoBack
  BY DEF OpenCanGoBack
<1>1. /\ Carried(p) /\ Placed(p) /\ Configured(p) /\ Marked(p) /\ journal.run = tx[p].run
  BY InTransaction
<1>2. backups[journal.run].config = snap.config /\ config \in {snap.config, journal.target}
  BY <1>1 DEF Carried, Configured
<1>3. overlay \union ({backups[journal.run].overlay} \ {NoMarker}) = snap.overlay
  BY <1>1 DEF Marked, Carried, PlannedFor, Markers
<1>4. \A r \in Role : snap.active[r] # NoHome => snap.active[r] \in {active[r], archive[r]}
  BY <1>1 DEF Placed
<1> QED
  BY <1>2, <1>3, <1>4 DEF CanGoBack

\* As long as nobody else has written, a prepared journal and its backup are
\* enough to go back, while the transaction runs and after it was cut short.
THEOREM AlwaysRecoverable ==
  ASSUME Quiet = TRUE PROVE Spec => []Recoverable
<1> DEFINE Inv == Recoverable /\ snap.edits <= edits
<1>1. Init => Inv
  BY DEF Init, Recoverable
<1>2. QuietInv /\ OpenCanGoBack /\ OpenCanGoBack' /\ Inv /\ [Next]_vars => Inv'
  <2> SUFFICES ASSUME QuietInv, OpenCanGoBack, OpenCanGoBack', Inv, [Next]_vars PROVE Inv'
    OBVIOUS
  <2>1. TypeOK /\ edits \in Nat /\ snap.edits \in Nat
    BY BoundAssumption DEF QuietInv, TypeInv, TypeOK, Snapshot
  <2>2. edits' \in Nat
    BY <2>1, TypeStep, BoundAssumption DEF QuietInv, TypeOK
  <2>3. snap'.edits <= edits'
    BY <2>1, <2>2, EditsGrow
  <2>4. ASSUME Prepared', edits' = snap'.edits PROVE CanGoBack'
    <3>1. CASE \E p \in Proc : pc'[p] \in Recorded
      BY <3>1 DEF OpenCanGoBack
    <3>2. CASE \A p \in Proc : pc'[p] \notin Recorded
      <4>1. \A p \in Proc : ~Prepare(p)
        BY <2>1, <3>2 DEF Prepare, Goto, TypeOK, Recorded, Forward
      <4>2. Prepared /\ snap' = snap /\ edits' = edits
        BY <2>1, <2>2, <2>4, <4>1, Opened, EditsGrow
      <4>3. CASE \E p \in Proc : pc[p] \in Recorded
        <5>1. PICK p \in Proc : pc[p] \in Recorded
          BY <4>3
        <5>2. MutualExclusion /\ pc[p] \in InTx
          BY <5>1 DEF QuietInv, LockHeld, MutualExclusion, Recorded, InTx
        <5>3. Step(p)
          BY <2>1, <3>2, <5>1, <5>2, Isolated
        <5>4. ~Commit(p) /\ ~RecordRolledBack(p)
          BY <2>1, <2>4 DEF Commit, RecordRolledBack, Prepared, TypeOK, Journal
        <5>5. UNCHANGED <<data, journal, backups, snap, edits>>
          BY <3>2, <5>1, <5>3, <5>4, CutShort
        <5> QED
          BY <4>3, <5>5 DEF OpenCanGoBack, CanGoBack, data
      <4>4. CASE \A p \in Proc : pc[p] \notin Recorded
        <5>1. Stranded
          BY <4>2, <4>4 DEF Stranded, Owns, Prepared, QuietInv, OwnerInv, InTx, Recorded
        <5>2. UNCHANGED <<journal, archive, overlay, backups, config, active>>
          BY <4>2, <5>1, StrandedStep DEF QuietInv, TypeInv, FrozenInv, Untouched
        <5>3. CanGoBack
          BY <2>4, <4>2 DEF Recoverable, CanGoBack, Prepared
        <5> QED
          BY <4>2, <5>2, <5>3 DEF CanGoBack
      <4> QED
        BY <4>3, <4>4
    <3> QED
      BY <3>1, <3>2
  <2> QED
    BY <2>3, <2>4 DEF Recoverable, CanGoBack, Prepared
<1> QED
  BY <1>1, <1>2, OpenRecoverable, StaysOnCourse, PTL DEF Spec

-----------------------------------------------------------------------------
(* The migration implements AtomicMigration *)

\* Seen through the journal, a transaction is open while an invocation runs it.
OpenPhase ==
  AbstractPhase = IF ~Prepared THEN "settled"
                  ELSE IF \E p \in Proc : pc[p] \in Recorded THEN "open" ELSE "stranded"

\* The abstract phase follows from the journal and from who is in a transaction.
LEMMA PhaseByCounter == QuietInv => OpenPhase
  BY DEF QuietInv, OwnerInv, OpenPhase, AbstractPhase, Prepared, Owns, InTx, Recorded

\* A step outside every transaction is an outside change or none at all.
LEMMA SettledStep ==
  ASSUME QuietInv, OpenPhase, OpenPhase', [Next]_vars, ~Prepared, ~Prepared'
  PROVE  Atomic!Outside \/ UNCHANGED Atomic!vars
<1> USE DEF data, OpenPhase, Atomic!vars, Atomic!world
<1>1. UNCHANGED data => UNCHANGED Atomic!vars
  OBVIOUS
<1>2. ASSUME NEW p \in Proc, Step(p) PROVE UNCHANGED data
  <2>1. pc[p] \notin Recorded
    BY InTransaction
  <2>2. CASE pc[p] \in {"backup", "prepare"}
    <3>1. CASE Begin(p) \/ Killed(p)
      BY <2>2, <3>1 DEF Begin, Killed
    <3>2. CASE \/ PlanUnchanged(p) \/ PlanWork(p) \/ PlanBlocked(p)
               \/ LockLegacy(p) \/ LockNew(p) \/ LockFails(p)
      BY <3>2 DEF PlanUnchanged, PlanWork, PlanBlocked, LockLegacy, LockNew, LockFails
    <3>3. CASE \/ Replan(p) \/ BackUp(p) \/ Prepare(p) \/ FailsEarly(p)
      BY <3>3 DEF Replan, BackUp, Prepare, FailsEarly
    <3>4. CASE \E r \in Role : MoveRole(p, r) \/ RestoreRole(p, r)
      BY <2>2, <3>4 DEF MoveRole, RestoreRole
    <3>5. CASE \/ RecordMove(p) \/ WriteConfig(p) \/ ConfigInPlace(p) \/ NoOverlayToRetire(p)
               \/ RetireOverlay(p) \/ Commit(p) \/ Fails(p)
      BY <2>2, <3>5 DEF RecordMove, WriteConfig, ConfigInPlace, NoOverlayToRetire,
                        RetireOverlay, Commit, Fails
    <3>6. CASE \/ RollBackOverlay(p) \/ CheckConfig(p) \/ RestoreConfig(p)
               \/ RecordRolledBack(p) \/ RollbackFails(p)
      BY <2>2, <3>6 DEF RollBackOverlay, CheckConfig, RestoreConfig, RecordRolledBack,
                        RollbackFails
    <3> QED
      BY <1>2, <3>1, <3>2, <3>3, <3>4, <3>5, <3>6 DEF Step, ProgressStep
  <2>3. CASE pc[p] \notin {"backup", "prepare"}
    BY <1>2, <2>1, <2>3, Harmless DEF InTx, Recorded
  <2> QED
    BY <2>2, <2>3
<1>3. ASSUME EditConfig PROVE Atomic!Outside
  <2>1. /\ UNCHANGED <<active, archive, overlay>>
        /\ \E m \in BOOLEAN : config' = [user |-> edits + 1, migrated |-> m]
    BY <1>3 DEF EditConfig
  <2>2. edits + 1 \in Nat
    BY BoundAssumption DEF QuietInv, TypeInv, TypeOK
  <2>3. config' \in [user: Nat, migrated: BOOLEAN]
    BY <2>1, <2>2
  <2> QED
    BY <2>1, <2>3 DEF Atomic!Outside
<1>4. ASSUME NEW r \in Role, CreateHome(r) PROVE Atomic!Outside
  <2>1. /\ UNCHANGED <<config, archive, overlay>> /\ active[r] = NoHome
        /\ active' = [active EXCEPT ![r] = FirstHome + edits + 1]
    BY <1>4 DEF CreateHome
  <2>2. active \in [Role -> Nat] /\ edits \in Nat
    BY BoundAssumption DEF QuietInv, TypeInv, TypeOK
  <2>3. active'[r] = FirstHome + edits + 1 /\ active'[r] # NoHome
    BY <2>1, <2>2 DEF FirstHome, NoHome
  <2>4. active' = [active EXCEPT ![r] = active'[r]]
    BY <2>1, <2>3
  <2> QED
    BY <2>1, <2>3, <2>4 DEF Atomic!Outside
<1>5. CASE StartTask \/ FinishTask \/ OldVersionStarts \/ OldVersionEnds
  BY <1>1, <1>5 DEF StartTask, FinishTask, OldVersionStarts, OldVersionEnds
<1>6. CASE UNCHANGED vars
  BY <1>1, <1>6 DEF vars
<1> QED
  BY <1>1, <1>2, <1>3, <1>4, <1>5, <1>6 DEF Next, Step, Environment

\* While the journal is prepared, the data root to be had stays the same.
LEMMA PreparedStep ==
  ASSUME Quiet = TRUE, QuietInv, OpenPhase, OpenPhase', [Next]_vars, Prepared, Prepared'
  PROVE  Atomic!Strand \/ UNCHANGED Atomic!vars
<1> USE DEF OpenPhase, Atomic!vars, Atomic!world
<1>1. \A p \in Proc : ~Prepare(p)
  BY DEF Prepare, QuietInv, OwnerInv, Prepared
<1>2. snap' = snap
  BY <1>1, EditsGrow DEF QuietInv, TypeInv
<1>3. CASE \E p \in Proc : pc[p] \in Recorded
  <2>1. AbstractPhase = "open" /\ AbstractPhase' \in {"open", "stranded"}
    BY <1>3
  <2> QED
    BY <1>2, <2>1 DEF Atomic!Strand
<1>4. CASE \A p \in Proc : pc[p] \notin Recorded
  <2>1. ASSUME NEW p \in Proc, pc'[p] \in Recorded PROVE FALSE
    <3>1. pc[p] \notin InTx /\ pc'[p] \in InTx
      BY <1>4, <2>1 DEF QuietInv, OwnerInv, Prepared, InTx, Recorded
    <3>2. Replan(p)
      BY <3>1, Entered DEF QuietInv, TypeInv
    <3> QED
      BY <3>2 DEF Replan, PlanValid, JournalsValid, Prepared
  <2>2. AbstractPhase = "stranded" /\ AbstractPhase' = "stranded"
    BY <1>4, <2>1
  <2> QED
    BY <1>2, <2>2
<1> QED
  BY <1>3, <1>4

\* The migration happens at once or not at all: Prepare opens it, the commit is
\* the one step that changes what is to be had.
THEOREM MigrationIsAtomic ==
  ASSUME Quiet = TRUE PROVE Spec => ImplementsAtomic
<1>1. Init => Atomic!Init
  <2> SUFFICES ASSUME Init PROVE Atomic!Init
    OBVIOUS
  <2>1. ~Prepared /\ AbstractPhase = "settled"
    BY DEF Init, Prepared, AbstractPhase
  <2>2. active \in [Role -> Nat]
    BY TypeInit DEF TypeOK
  <2> QED
    BY <2>1, <2>2 DEF Init, Atomic!Init
<1>2. QuietInv /\ OpenPhase /\ OpenPhase' /\ [Next]_vars => [Atomic!Next]_(Atomic!vars)
  <2> SUFFICES ASSUME QuietInv, OpenPhase, OpenPhase', [Next]_vars
               PROVE  Atomic!Next \/ UNCHANGED Atomic!vars
    OBVIOUS
  <2>1. CASE ~Prepared /\ ~Prepared'
    BY <2>1, SettledStep DEF Atomic!Next
  <2>2. CASE Prepared /\ Prepared'
    BY <2>2, PreparedStep DEF Atomic!Next
  <2>3. CASE ~Prepared /\ Prepared'
    <3>1. PICK p \in Proc : Prepare(p)
      BY <2>3, Opened
    <3>2. pc'[p] \in Recorded
      BY <3>1 DEF Prepare, Goto, Recorded, Forward, QuietInv, TypeInv, TypeOK
    <3>3. AbstractPhase = "settled" /\ AbstractPhase' = "open"
      BY <2>3, <3>2 DEF OpenPhase
    <3>4. /\ snap'.config = config /\ snap'.active = active /\ snap'.archive = archive
          /\ snap'.overlay = overlay
      BY <3>1 DEF Prepare
    <3>5. Atomic!Start
      BY <2>3, <3>3, <3>4 DEF Atomic!Start, Atomic!world
    <3> QED
      BY <3>5 DEF Atomic!Next
  <2>4. CASE Prepared /\ ~Prepared'
    <3>1. PICK p \in Proc : Commit(p) \/ RecordRolledBack(p)
      BY <2>4, Settled
    <3>2. pc[p] \in Recorded /\ UNCHANGED <<config, active, archive, overlay>>
      BY <3>1 DEF Commit, RecordRolledBack, Recorded, Forward, Rollback, data
    <3>3. AbstractPhase = "open" /\ AbstractPhase' = "settled"
      BY <2>4, <3>2 DEF OpenPhase
    <3>4. CASE Commit(p)
      <4>1. /\ config = Desired(snap.config)
            /\ \A r \in Role :
                 /\ active[r] = NoHome
                 /\ archive[r] = IF snap.active[r] = NoHome THEN snap.archive[r]
                                 ELSE snap.active[r]
            /\ overlay = {}
        BY <3>4, CommittedIsMigrated DEF Commit
      <4>2. active \in [Role -> Nat] /\ archive \in [Role -> Nat]
        BY DEF QuietInv, TypeInv, TypeOK
      <4>3. /\ active = [r \in Role |-> NoHome]
            /\ archive = [r \in Role |-> IF snap.active[r] = NoHome THEN snap.archive[r]
                                         ELSE snap.active[r]]
        BY <4>1, <4>2
      <4>4. Atomic!Commit
        BY <2>4, <3>2, <3>3, <4>1, <4>3 DEF Atomic!Commit, Desired
      <4> QED
        BY <4>4 DEF Atomic!Next
    <3>5. CASE RecordRolledBack(p)
      <4>1. /\ config = snap.config /\ active = snap.active
            /\ archive = snap.archive /\ overlay = snap.overlay
        BY <3>5, RolledBackIsAsFound
      <4>2. Atomic!Abort
        BY <2>4, <3>2, <3>3, <4>1 DEF Atomic!Abort, Atomic!world
      <4> QED
        BY <4>2 DEF Atomic!Next
    <3> QED
      BY <3>1, <3>4, <3>5
  <2> QED
    BY <2>1, <2>2, <2>3, <2>4
<1> QED
  BY <1>1, <1>2, PhaseByCounter, StaysOnCourse, PTL DEF Spec, ImplementsAtomic, Atomic!Spec

-----------------------------------------------------------------------------
(* The boot hooks: services only after a migration that succeeded in this  *)
(* start, for any number of containers, starts and kills.                  *)

\* The shape of what the argument speaks of.
Shapes ==
  /\ pc \in [Proc -> Running \union Ended]
  /\ hook \in [Proc -> Hook]
  /\ ready \in [Proc -> BOOLEAN] /\ notifier \in [Proc -> BOOLEAN] /\ gateway \in [Proc -> BOOLEAN]

\* The migration runs inside hook 018 alone, the marker of an earlier start is
\* gone when it begins, and afterwards the marker says that it succeeded.  A
\* service that runs was started by a hook of this very start.
Gated(c) ==
  /\ hook[c] # "018-run" => pc[c] \in Ended
  /\ hook[c] \in {"018-apply", "018-run", "018-publish"} => ~ready[c]
  /\ hook[c] = "018-publish" => Succeeded(c)
  /\ hook[c] \in {"019", "019-register", "02", "last", "up"} /\ ready[c] => Succeeded(c)
  /\ hook[c] = "019-register" => ready[c]
  /\ gateway[c] => hook[c] \in {"last", "up"} /\ ready[c]
  /\ notifier[c] => hook[c] \in {"02", "last", "up"} /\ ready[c]

GateInv == Shapes /\ \A c \in Proc : Gated(c)

\* A step of one invocation leaves the others where they are.
LEMMA OwnStep ==
  ASSUME Shapes, NEW p \in Proc, Begin(p) \/ ProgressStep(p) \/ Killed(p)
  PROVE  /\ pc' \in [Proc -> Running \union Ended]
         /\ \A q \in Proc : q # p => pc'[q] = pc[q]
<1> USE DEF Shapes, Goto, Running, Ended, Locking, InTx, Forward, Rollback
<1>1. CASE Begin(p) \/ Killed(p)
  BY <1>1 DEF Begin, Killed
<1>2. CASE PlanUnchanged(p) \/ PlanWork(p) \/ PlanBlocked(p) \/ LockLegacy(p) \/ LockNew(p) \/ LockFails(p)
  BY <1>2 DEF PlanUnchanged, PlanWork, PlanBlocked, LockLegacy, LockNew, LockFails
<1>3. CASE Replan(p) \/ BackUp(p) \/ Prepare(p) \/ FailsEarly(p) \/ RecordMove(p) \/ WriteConfig(p)
  BY <1>3 DEF Replan, BackUp, Prepare, FailsEarly, RecordMove, WriteConfig
<1>4. CASE ConfigInPlace(p) \/ NoOverlayToRetire(p) \/ RetireOverlay(p) \/ Commit(p) \/ Fails(p)
  BY <1>4 DEF ConfigInPlace, NoOverlayToRetire, RetireOverlay, Commit, Fails
<1>5. CASE RollBackOverlay(p) \/ CheckConfig(p) \/ RestoreConfig(p) \/ RecordRolledBack(p) \/ RollbackFails(p)
  BY <1>5 DEF RollBackOverlay, CheckConfig, RestoreConfig, RecordRolledBack, RollbackFails
<1>6. ASSUME NEW r \in Role, MoveRole(p, r) \/ RestoreRole(p, r)
      PROVE  /\ pc' \in [Proc -> Running \union Ended]
             /\ \A q \in Proc : q # p => pc'[q] = pc[q]
  BY <1>6 DEF MoveRole, RestoreRole
<1>7. CASE Begin(p) \/ Killed(p) \/ ProgressStep(p)
  BY <1>1, <1>2, <1>3, <1>4, <1>5, <1>6 DEF ProgressStep
<1> QED
  BY <1>7

\* The rest of the world never moves an invocation.
LEMMA OthersStep == Environment => pc' = pc
  BY DEF Environment, EditConfig, StartTask, FinishTask, CreateHome, OldVersionStarts, OldVersionEnds

\* The invariant of the boots holds before the first start.
LEMMA GateInit == BootInit => GateInv
  BY DEF BootInit, Init, GateInv, Shapes, Gated, Hook, Ended

\* A hook of one container: only that container is affected.
LEMMA GateElsewhere ==
  ASSUME GateInv, NEW c \in Proc, NEW d \in Proc, d # c,
         hook'[d] = hook[d], ready'[d] = ready[d], notifier'[d] = notifier[d], gateway'[d] = gateway[d],
         pc'[d] = pc[d]
  PROVE  Gated(d)'
  BY DEF GateInv, Gated, Succeeded

\* Every step of a boot keeps the invariant: one step of the proof per hook step.
LEMMA GateStep == GateInv /\ [BootNext]_allVars => GateInv'
<1> SUFFICES ASSUME GateInv, [BootNext]_allVars PROVE GateInv'
  OBVIOUS
<1> USE DEF GateInv, Shapes, To, Set, Clear, services, bootVars
<1>1. ASSUME NEW c \in Proc, Start(c) \/ ClearMarker(c) \/ Migrated(c) \/ PublishMarker(c) PROVE GateInv'
  <2>1. pc' = pc
    BY <1>1 DEF Start, ClearMarker, Migrated, PublishMarker, vars
  <2>2. Shapes'
    BY <1>1, <2>1 DEF Start, ClearMarker, Migrated, PublishMarker, Hook
  <2>3. Gated(c)'
    BY <1>1, <2>1 DEF Start, ClearMarker, Migrated, PublishMarker, Gated, Succeeded
  <2>4. ASSUME NEW d \in Proc, d # c PROVE Gated(d)'
    BY <1>1, <2>1, <2>4 DEF Start, ClearMarker, Migrated, PublishMarker, Gated, Succeeded
  <2> QED
    BY <2>2, <2>3, <2>4
<1>2. ASSUME NEW c \in Proc, NotifierPolicy(c) \/ RegisterNotifier(c) \/ ReconcileGuard(c) \/ HooksDone(c) PROVE GateInv'
  <2>1. pc' = pc
    BY <1>2 DEF NotifierPolicy, RegisterNotifier, ReconcileGuard, HooksDone, vars
  <2>2. Shapes'
    BY <1>2, <2>1 DEF NotifierPolicy, RegisterNotifier, ReconcileGuard, HooksDone, Hook
  <2>3. Gated(c)'
    BY <1>2, <2>1 DEF NotifierPolicy, RegisterNotifier, ReconcileGuard, HooksDone, Gated, Succeeded
  <2>4. ASSUME NEW d \in Proc, d # c PROVE Gated(d)'
    BY <1>2, <2>1, <2>4 DEF NotifierPolicy, RegisterNotifier, ReconcileGuard, HooksDone, Gated, Succeeded
  <2> QED
    BY <2>2, <2>3, <2>4
<1>3. ASSUME NEW c \in Proc, Apply(c) \/ Migrate(c) PROVE GateInv'
  <2>1. /\ pc' \in [Proc -> Running \union Ended]
        /\ \A q \in Proc : q # c => pc'[q] = pc[q]
    BY <1>3, OwnStep DEF Apply, Migrate
  <2>2. Shapes'
    BY <1>3, <2>1 DEF Apply, Migrate, Hook
  <2>3. Gated(c)'
    BY <1>3 DEF Apply, Migrate, Gated, Succeeded
  <2>4. ASSUME NEW d \in Proc, d # c PROVE Gated(d)'
    BY <1>3, <2>1, <2>4 DEF Apply, Migrate, Gated, Succeeded
  <2> QED
    BY <2>2, <2>3, <2>4
<1>4. ASSUME NEW c \in Proc, Stop(c) PROVE GateInv'
  <2>1. /\ pc' \in [Proc -> Running \union Ended] /\ pc'[c] \in Ended
        /\ \A q \in Proc : q # c => pc'[q] = pc[q]
    <3>1. CASE Killed(c)
      BY <3>1, OwnStep DEF Killed, Goto, Ended
    <3>2. CASE pc[c] \in Ended /\ UNCHANGED vars
      BY <3>2 DEF vars
    <3> QED
      BY <1>4, <3>1, <3>2 DEF Stop
  <2>2. Shapes'
    BY <1>4, <2>1 DEF Stop, Hook
  <2>3. Gated(c)'
    BY <1>4, <2>1 DEF Stop, Gated
  <2>4. ASSUME NEW d \in Proc, d # c PROVE Gated(d)'
    BY <1>4, <2>1, <2>4 DEF Stop, Gated, Succeeded
  <2> QED
    BY <2>2, <2>3, <2>4
<1>5. CASE Environment /\ UNCHANGED bootVars
  BY <1>5, OthersStep DEF Gated, Succeeded
<1>6. CASE UNCHANGED allVars
  BY <1>6 DEF allVars, vars, Gated, Succeeded
<1> QED
  BY <1>1, <1>2, <1>3, <1>4, <1>5, <1>6 DEF BootNext, BootStep

\* The notifier and the gateways of a container run only after a migration that
\* succeeded in this start, whatever was killed or failed before.
THEOREM ServicesAreGated == BootSpec => []ServicesNeedMigration
<1>1. GateInv => ServicesNeedMigration
  BY DEF GateInv, Gated, ServicesNeedMigration
<1> QED
  BY <1>1, GateInit, GateStep, PTL DEF BootSpec

-----------------------------------------------------------------------------
(* One container on the volume *)

\* A container alone on its volume does nothing to it that the migration, its
\* users and other programs do not do: `hermes config set` edits between two
\* migrations only.
LEMMA BootMigrates ==
  ASSUME \A c, d \in Proc : c = d, TypeOK, GateInv, [BootNext]_allVars
  PROVE  [Next]_vars
<1>1. ASSUME NEW c \in Proc, NotifierPolicy(c) PROVE [Next]_vars
  <2>1. CASE UNCHANGED vars
    BY <2>1
  <2>2. CASE ~UNCHANGED vars
    <3>1. \A p \in Proc : pc[p] \notin InTx
      BY <1>1 DEF NotifierPolicy, GateInv, Gated, Ended, InTx, Forward, Rollback
    <3>2. config' = [user |-> edits + 1, migrated |-> config.migrated] /\ config.migrated \in BOOLEAN
      BY <1>1, <2>2 DEF NotifierPolicy, TypeOK, Config
    <3>3. EditConfig
      BY <1>1, <2>2, <3>1, <3>2 DEF NotifierPolicy, EditConfig, MayInterfere, past, locks
    <3> QED
      BY <3>3 DEF Next, Environment
  <2> QED
    BY <2>1, <2>2
<1>2. ASSUME NEW c \in Proc, Apply(c) \/ Migrate(c) \/ Stop(c) PROVE [Next]_vars
  BY <1>2 DEF Apply, Migrate, Stop, Next
<1>3. ASSUME NEW c \in Proc, \/ Start(c) \/ ClearMarker(c) \/ Migrated(c) \/ PublishMarker(c)
                             \/ RegisterNotifier(c) \/ ReconcileGuard(c) \/ HooksDone(c)
      PROVE  UNCHANGED vars
  BY <1>3 DEF Start, ClearMarker, Migrated, PublishMarker, RegisterNotifier, ReconcileGuard, HooksDone
<1>4. CASE Environment \/ UNCHANGED allVars
  BY <1>4 DEF Next, allVars
<1> QED
  BY <1>1, <1>2, <1>3, <1>4 DEF BootNext, BootStep

\* With one container on the volume the boot is a behaviour of the migration, so
\* that everything proved of the migration holds of the boots, too.
THEOREM BootIsMigration ==
  ASSUME \A c, d \in Proc : c = d
  PROVE  BootSpec => Spec
<1>1. BootInit => TypeInv /\ GateInv /\ Init
  BY GateInit, TypeInit DEF BootInit, TypeInv, RetiredWell, Init, EmptyTx
<1>2. TypeInv /\ GateInv /\ [BootNext]_allVars => TypeInv' /\ GateInv' /\ [Next]_vars
  <2>1. TypeInv /\ GateInv /\ [BootNext]_allVars => [Next]_vars
    BY BootMigrates DEF TypeInv
  <2>2. TypeInv /\ [Next]_vars => TypeInv'
    BY TypeStep, RetiredStep DEF TypeInv
  <2> QED
    BY <2>1, <2>2, GateStep
<1> QED
  BY <1>1, <1>2, PTL DEF BootSpec, Spec

\* Once the migration of a start has succeeded the journal is closed.
Closed == \A c \in Proc : Succeeded(c) => journal.phase # "prepared"

\* A migration succeeds only with a closed journal, and nobody opens it after that
\* in this start.
LEMMA ClosedStep ==
  ASSUME \A c, d \in Proc : c = d, TypeOK, Closed, [Next]_vars
  PROVE  Closed'
<1> USE DEF Closed, Succeeded, Goto, TypeOK
<1>1. ASSUME NEW p \in Proc, Begin(p) \/ Killed(p) PROVE Closed'
  BY <1>1 DEF Begin, Killed
<1>2. ASSUME NEW p \in Proc, PlanUnchanged(p) PROVE Closed'
  BY <1>2 DEF PlanUnchanged, PlanValid, JournalsValid
<1>3. ASSUME NEW p \in Proc, Commit(p) PROVE Closed'
  BY <1>3 DEF Commit, Journal
<1>4. ASSUME NEW p \in Proc, PlanWork(p) \/ PlanBlocked(p) \/ LockLegacy(p) \/ LockNew(p) \/ LockFails(p) PROVE Closed'
  BY <1>4 DEF PlanWork, PlanBlocked, LockLegacy, LockNew, LockFails
<1>5. ASSUME NEW p \in Proc, Replan(p) \/ BackUp(p) \/ Prepare(p) \/ FailsEarly(p) \/ RecordMove(p) \/ WriteConfig(p) PROVE Closed'
  BY <1>5 DEF Replan, BackUp, Prepare, FailsEarly, RecordMove, WriteConfig
<1>6. ASSUME NEW p \in Proc, ConfigInPlace(p) \/ NoOverlayToRetire(p) \/ RetireOverlay(p) \/ Fails(p) PROVE Closed'
  BY <1>6 DEF ConfigInPlace, NoOverlayToRetire, RetireOverlay, Fails
<1>7. ASSUME NEW p \in Proc, RollBackOverlay(p) \/ CheckConfig(p) \/ RestoreConfig(p) \/ RecordRolledBack(p) \/ RollbackFails(p) PROVE Closed'
  BY <1>7 DEF RollBackOverlay, CheckConfig, RestoreConfig, RecordRolledBack, RollbackFails
<1>8. ASSUME NEW p \in Proc, NEW r \in Role, MoveRole(p, r) \/ RestoreRole(p, r) PROVE Closed'
  BY <1>8 DEF MoveRole, RestoreRole
<1>9. CASE Environment
  <2>1. pc' = pc /\ journal' = journal
    BY <1>9 DEF Environment, EditConfig, StartTask, FinishTask, CreateHome, OldVersionStarts, OldVersionEnds
  <2> QED
    BY <2>1
<1>10. CASE UNCHANGED vars
  BY <1>10 DEF vars
<1> QED
  BY <1>1, <1>2, <1>3, <1>4, <1>5, <1>6, <1>7, <1>8, <1>9, <1>10 DEF Next, ProgressStep

\* With one container on the volume, no gateway runs while the journal says that
\* a migration is under way or was cut short.
THEOREM NoWorkerOnPartial ==
  ASSUME \A c, d \in Proc : c = d
  PROVE  BootSpec => []NoWorkerOnPartialState
<1>1. Init => Closed
  BY DEF Init, Closed, Succeeded
<1>2. TypeOK /\ Closed /\ [Next]_vars => Closed'
  BY ClosedStep
<1>3. Spec => []Closed
  BY <1>1, <1>2, TypeCorrect, PTL DEF Spec
<1>4. ServicesNeedMigration /\ Closed => NoWorkerOnPartialState
  BY DEF ServicesNeedMigration, Closed, NoWorkerOnPartialState
<1> QED
  BY <1>3, <1>4, ServicesAreGated, BootIsMigration, PTL
=============================================================================
