CONSTANTS
  Shells <- MCShells
  Contents <- MCContents
  Storages = {"studies.db", "other.db"}
  NTrials = 2
  MaxTrials = 3
  MaxEdits = 1
  MaxBundles = 1
SPECIFICATION Spec
INVARIANTS
  LayersKeepPrecedence
  TrialIsTheSweeps
  SameWorldSameConfig
CHECK_DEADLOCK FALSE
