SPECIFICATION Spec
CONSTANTS
  Capacity = 3
  Instants = {1, 2}
  Markers = {m1, m2}
  None = None
  Full = Full
  PopsChanged = TRUE
PROPERTIES PopRemovesEntry
