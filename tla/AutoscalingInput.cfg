CONSTANTS
  Configs = {c1}
  Images = {i1}
  TransportURLs = {t1}
  ServerLists = {m1}
  None = None
  CrName = "autoscaling"
  StatusWithMetadata = FALSE
  SyncDuringPass = FALSE
  MaxFaults = 0
  MaxChanges = 2
SPECIFICATION Spec
INVARIANT ReadyWhenReconciled

CHECK_DEADLOCK FALSE
