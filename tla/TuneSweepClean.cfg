SPECIFICATION FairSpec
CONSTANTS
  MaxTrials = 5
  Folds = 1
  Procs = {p1}
  NoProc = NoProc
  NTrials = 2
  Isolations = {"subprocess", "in_process"}
  HasTimeout = TRUE
  MaxCommands = 2
  MaxKills = 0
  MaxInterrupts = 0
  MaxCrashes = 0
INVARIANTS
  NoStaleRunning
PROPERTIES
  RunningIsSettled
