CONSTANTS
  Configs = {c1}
  Images = {i1}
  TransportURLs = {t1, t2}
  ServerLists = {m1}
  None = None
  CrName = "autoscaling"
  StatusWithMetadata = FALSE
  SyncDuringPass = FALSE
  MaxFaults = 1
  MaxChanges = 2
SPECIFICATION LiveSpec
PROPERTIES Settles

CHECK_DEADLOCK FALSE
