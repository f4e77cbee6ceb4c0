SPECIFICATION Spec
CONSTANTS
  Procs = {p1}
  Trials = {t1, t2}
  cfg = cfg
  Cfgs = {cfg}
  CfgOf <- MCCfgOf
  Root = Root
  Absent = Absent
  Empty = Empty
  Torn = Torn
  Unlinked = Unlinked
  NoVersion = NoVersion
  NoTrial = NoTrial
  MaxDays = 1
  MaxJobs = 2
  MaxPromotions = 2
  MaxCrashes = 0
SYMMETRY MCSymmetry
PROPERTIES
  BundleWrittenOnce
