CONSTANTS
  Configs = {c1, c2}
  Images = {i1, i2}
  TransportURLs = {t1}
  ServerLists = {m1, m2}
  None = None
  CrName = "autoscaling"
  StatusWithMetadata = FALSE
  SyncDuringPass = FALSE
  MaxFaults = 0
  MaxChanges = 2
SPECIFICATION Spec
INVARIANTS NoLostWakeup
 
SYMMETRY Symmetry
CHECK_DEADLOCK FALSE
