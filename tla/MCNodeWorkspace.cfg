SPECIFICATION FairSpec
CONSTANTS
  Session = {s1, s2}
  NoSession = none
  Rank <- MCRank
  MaxEdits = 1
INVARIANTS ReadyIsRestored
PROPERTIES RunsAsGated RunIsUndisturbed EveryCommandEnds
