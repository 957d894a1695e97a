CONSTANTS
  Options = {o1}
  Default = o1
  Sections <- Swapped
  None = None
  StatusWithMetadata = FALSE
  SyncDuringPass = FALSE
  MaxFaults = 1
  MaxChanges = 3
SPECIFICATION Spec
INVARIANTS TypeOK ChildrenAsDesired ReadyMirrorsChildren
PROPERTIES ChildrenFollowLifecycle
CHECK_DEADLOCK FALSE
