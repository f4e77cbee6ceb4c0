SPECIFICATION HungWorkerSpec
CONSTANTS
  MaxTrials = 4
  Folds = 2
  Procs = {p1, p2}
  NoProc = NoProc
  NTrials = 1
  Isolations = {"subprocess", "in_process"}
  HasTimeout = TRUE
  MaxCommands = 2
  MaxKills = 1
  MaxInterrupts = 1
  MaxCrashes = 1
INVARIANTS
  TypeOK
  CompleteIsFullyEvidenced
  PrunedHasProvenanceOnly
  OneWorkerPerTrial
  LiveTrialIsRunning
  TimeoutNeverAborts
  RetryKeepsTheQueue
PROPERTIES
  FinishedIsFinal
  KeepsLedger
  SweepTerminates
