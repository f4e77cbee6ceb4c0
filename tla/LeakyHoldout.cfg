SPECIFICATION Spec
CONSTANTS
  MinSize = 4
  MaxSize = 4
  TrainN <- MCTrainN
  ValN <- MCValN
  Configs <- PinnedRandom
  Shuffle <- MCShuffle
  MaxTrials = 2
  MaxDraws = 0
  Procs = {p1}
  NoTrial = NoTrial
SYMMETRY MCSymmetry
INVARIANTS
  ScoredRowsAreHeldOut
\* No command is ever due: the operator may stop here.
CHECK_DEADLOCK FALSE
