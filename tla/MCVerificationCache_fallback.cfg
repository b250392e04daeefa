SPECIFICATION Spec
CONSTANTS
  Proc = {a, b}
  NoProc = none
  Tools = {"gradle"}
  FileCount = 2
  MaxRuns = 3
  MaxEdits = 1
SYMMETRY Symmetry
PROPERTIES NeverFallsBack
CHECK_DEADLOCK FALSE
