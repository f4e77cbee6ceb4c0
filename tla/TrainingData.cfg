SPECIFICATION Spec
CONSTANTS
  Trials <- MCTrials
  Heights = {0, 1, 2, 3, 4, 5, 6, 7, 8, 9}
  MaxPasses = 2
INVARIANTS FoldsKeepDistance EveryRowIsTested BatchesCoverRows
