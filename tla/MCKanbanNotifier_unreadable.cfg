SPECIFICATION Spec
CONSTANTS
  Board = {alpha}
  Unsound = {alpha}
  Modes = {"delivery", "cursor-only", "no-target"}
  Batch = 2
  MaxEvents = 3
  MaxFaults = 0
INVARIANTS PastNeverSent
