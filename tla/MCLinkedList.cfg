SPECIFICATION Spec
CONSTANTS
  Capacity = 3
  Instants = {1, 2, 3}
  Markers = {m1, m2}
  None = None
  Full = Full
  PopsChanged = FALSE
INVARIANTS TypeOK NodesPartitioned ChainInOrder
PROPERTIES ImplementsSortedList
