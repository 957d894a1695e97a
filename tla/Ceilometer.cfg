CONSTANTS
  Configs = {c1, c2}
  Images = {i1}
  TransportURLs = {t1, t2}
  Passwords = {p1}
  None = None
  CrName = "ceilometer"
  KsLag = FALSE
  StatusWithMetadata = FALSE
  SyncDuringPass = FALSE
  MaxFaults = 1
  MaxChanges = 2
SPECIFICATION Spec
INVARIANTS TypeOK  ReadyAfterRollout NoLostWakeup TransportURLRolledOut
 
SYMMETRY Symmetry
CHECK_DEADLOCK FALSE
