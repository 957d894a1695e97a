CONSTANTS
  Configs = {c1, c2}
  Images = {i1, i2}
  TransportURLs = {t1, t2}
  Passwords = {p1}
  None = None
  CrName = "ceilometer"
  KsLag = TRUE
  StatusWithMetadata = FALSE
  SyncDuringPass = TRUE
  MaxFaults = 0
  MaxChanges = 2
SPECIFICATION Spec
INVARIANTS StatusIsCurrent
SYMMETRY Symmetry
CHECK_DEADLOCK FALSE
