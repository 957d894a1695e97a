CONSTANTS
  o1 = o1
  c1 = c1
  Customs = {c1}
  Options = {o1}
  Malformed = {}
  Specs <- SomeSpecs
  Inventories <- SomeInventories
  Bundles <- TwoBundles
  None = None
  StatusWithMetadata = FALSE
  SyncDuringPass = FALSE
  MaxFaults = 1
  MaxChanges = 2
SPECIFICATION LiveSpec
INVARIANTS TypeOK NoLostWakeup StatusMirrorsStack
PROPERTIES  Settles
CHECK_DEADLOCK FALSE
