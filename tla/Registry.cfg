SPECIFICATION Spec
CONSTANTS
  Procs = {p1, p2}
  Trials = {t1, t2}
  cfg = cfg
  Cfgs = {cfg}
  CfgOf <- MCCfgOf
  Root = Root
  Absent = Absent
  Empty = Empty
  Torn = Torn
  Unlinked = Unlinked
  NoVersion = NoVersion
  NoTrial = NoTrial
  MaxDays = 2
  MaxJobs = 4
  MaxPromotions = 2
  MaxCrashes = 1
SYMMETRY MCSymmetry
INVARIANTS
  ChampionIsWhole
  ChampionIsReadable
  ChampionLoads
  ReceiptIsTrue
PROPERTIES
  PromoteDelivers
  KeepsPublished
