SPECIFICATION Spec
CONSTANTS
  Proc = {p1, p2}
  Role = {coder, reviewer}
  NoProc = NoProc
  OldVersion = OldVersion
  MaxRuns = 2
  MaxEdits = 1
  Accepted = {0}
  Quiet = FALSE
SYMMETRY Symmetry
INVARIANTS TypeOK MutualExclusion NoHomeLost
PROPERTIES StrandedIsFrozen NoEntryOverOldVersion
CHECK_DEADLOCK FALSE
