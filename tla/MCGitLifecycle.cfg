SPECIFICATION Spec
CONSTANTS
  Files <- F1F2
  Scopes <- TwoScopes
  Contents = {0, 1}
  MaxCommits = 4
  MaxMoves = 4
INVARIANT NoCommitLost
PROPERTY CommitIsApproved NothingDiscarded NoWorktreeOrphaned ReportIsTrue
CHECK_DEADLOCK FALSE
