SPECIFICATION Spec
CONSTANTS
  Proc = {a, b}
  NoProc = none
  Tools = {"gradle", "maven", "node"}
  FileCount = 2
  MaxRuns = 3
  MaxEdits = 2
SYMMETRY Symmetry
PROPERTIES PassIsReal NoFallback
CHECK_DEADLOCK FALSE
