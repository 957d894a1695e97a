CONSTANTS
  Nodes = {n1, n2, n3}
  NodeSets = {s1, s2}
  Items <- SomeItems
  Reservations <- SomeReservations
  ServiceNets <- SomeServices
  None = None
  MaxChanges = 1
SPECIFICATION Spec
INVARIANTS ReturnsResult AllScraped
SYMMETRY Symmetry
CHECK_DEADLOCK FALSE
