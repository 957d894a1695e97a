CONSTANTS
  Configs = {c1}
  Images = {i1}
  TransportURLs = {t1}
  ServerLists = {m1}
  None = None
  CrName = "autoscaling"
  StatusWithMetadata = FALSE
  SyncDuringPass = FALSE
  MaxFaults = 1
  MaxChanges = 1
SPECIFICATION Spec
INVARIANTS TypeOK  ReadyAfterRollout
 
SYMMETRY Symmetry
CHECK_DEADLOCK FALSE
