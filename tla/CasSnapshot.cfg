SPECIFICATION Spec
CONSTANTS
  a = a
  b = b
  c = c
  r1 = r1
  r2 = r2
  Runs = {r1, r2}
  Contents = {a, b, c}
  NoFile = NoFile
  Partial = Partial
  Sources <- MCSources
  NameOf <- MCNameOf
  RowsOf <- MCRowsOf
  Inodes <- MCInodes
  MaxSnapshots = 2
  MaxChanges = 1
  MaxCrashes = 1
SYMMETRY Symmetric
INVARIANTS ManifestIsReadable ManifestIsTrue FailsForACause
PROPERTIES StoreIsStable
CHECK_DEADLOCK FALSE
