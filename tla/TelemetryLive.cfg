CONSTANTS
  Options = {o1}
  Default = o1
  Sections <- Pair
  None = None
  StatusWithMetadata = FALSE
  SyncDuringPass = FALSE
  MaxFaults = 1
  MaxChanges = 2
SPECIFICATION FairSpec
PROPERTIES Settles
CHECK_DEADLOCK FALSE
