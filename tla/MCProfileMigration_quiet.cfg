SPECIFICATION Spec
CONSTANTS
  Proc = {p1, p2}
  Role = {coder, reviewer}
  NoProc = NoProc
  OldVersion = OldVersion
  MaxRuns = 2
  MaxEdits = 2
  Accepted = {0}
  Quiet = TRUE
SYMMETRY Symmetry
INVARIANTS Recoverable
PROPERTIES ImplementsAtomic NoArchiveUnderTasks EditsSurvive
CHECK_DEADLOCK FALSE
