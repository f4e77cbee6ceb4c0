SPECIFICATION Spec
CONSTANTS
  MinSize = 4
  MaxSize = 6
  TrainN <- MCTrainN
  ValN <- MCValN
  Configs <- AllConfigs
  Shuffle <- MCShuffle
  MaxTrials = 3
  MaxDraws = 5
  Procs = {p1, p2}
  NoTrial = NoTrial
SYMMETRY MCSymmetry
INVARIANTS
  TemporalScoreIsLater
  BundleIsNotScoredOnItsRows
  BundleMatchesBaseline
  TrialsShareSubstrate
PROPERTIES
  TemporalHoldoutIsUnseen
\* No command is ever due: the operator may stop here.
CHECK_DEADLOCK FALSE
