SPECIFICATION Spec
CONSTANTS
  Helpers <- H
  Directs <- D
  MaxRuns = 4
INVARIANT NoSecondBuild DistributionStaysWhole
PROPERTY TimeoutLeavesNobody VerdictIsEarned BlockedSessionIsQuiet EveryVerificationEnds
CHECK_DEADLOCK FALSE
