SPECIFICATION Spec
CONSTANTS
  Items = 2
  Attempts = 2
  MaxSignals = 1
CONSTRAINT BesideLeftovers
INVARIANTS PassIsConfirmed FailIsObserved
CHECK_DEADLOCK FALSE
