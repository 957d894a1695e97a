CONSTANTS
  Configs = {c1}
  Images = {i1}
  TransportURLs = {t1}
  Passwords = {p1, p2}
  None = None
  CrName = "ceilometer"
  KsLag = FALSE
  StatusWithMetadata = FALSE
  SyncDuringPass = FALSE
  MaxFaults = 0
  MaxChanges = 2
SPECIFICATION FairSpec
PROPERTIES Settles
CHECK_DEADLOCK FALSE
