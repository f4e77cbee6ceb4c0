SPECIFICATION Spec
CONSTANTS
  MaxTrials = 3
  Folds = 1
  Procs = {p1}
  NoProc = NoProc
  NTrials = 2
  Isolations = {"subprocess"}
  HasTimeout = TRUE
  MaxCommands = 1
  MaxKills = 1
  MaxInterrupts = 0
  MaxCrashes = 0
INVARIANTS
  DeadChildTrialIsFailed
