SPECIFICATION FairSpec
CONSTANTS
  MaxTrials = 2
  Folds = 1
  Procs = {p1, p2}
  MaxRaises = 2
  MaxKills = 1
INVARIANTS
  OneOffIsEvidenced
  TrippedNeverCompletes
PROPERTIES
  SettledIsFinal
  EverySettles
