SPECIFICATION BootFairSpec
CONSTANTS
  Proc = {hermes}
  Role = {coder}
  NoProc = NoProc
  OldVersion = OldVersion
  MaxRuns = 3
  MaxEdits = 1
  Accepted = {0}
  Quiet = TRUE
INVARIANTS ServicesNeedMigration NoWorkerOnPartialState
PROPERTIES EveryStartEnds
CHECK_DEADLOCK FALSE
