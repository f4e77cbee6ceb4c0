SPECIFICATION FairSpec
CONSTANTS
  MaxRss = 4
  Threshold = 2
INVARIANTS RecordedPeak VerdictIsFair
PROPERTIES BlockIsLeft
