SPECIFICATION FairSpec
CONSTANTS
  Board = {alpha, beta}
  Unsound = {beta}
  Modes = {"delivery", "cursor-only", "no-target"}
  Batch = 2
  MaxEvents = 2
  MaxFaults = 2
INVARIANTS NoEventSkipped PastNotSent RepeatsNeedFaults
PROPERTIES EventuallyDelivered ImplementsOrderedDelivery
