CONSTANTS
  Addresses = {a1, a2}
  Namespaces = {n1, n2}
  Certificates = {ca1}
  None = None
  StatusWithMetadata = FALSE
  SyncDuringPass = FALSE
  MaxFaults = 1
  MaxChanges = 3
SPECIFICATION FairSpec
INVARIANTS TypeOK NoLostWakeup
PROPERTIES ServiceAfterSecret Settles
CHECK_DEADLOCK FALSE
