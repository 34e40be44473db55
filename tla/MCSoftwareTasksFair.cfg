SPECIFICATION FairSpec
CONSTANTS
  t1 = t1
  t2 = t2
  m1 = m1
  m2 = m2
  k1 = k1
  k2 = k2
  None = None
  idle = idle
  high = high
  dispatcher = dispatcher
  timer = timer
  Tasks = {t1, t2}
  CAPACITY <- MCCapacityFair
  Callers = {idle, high}
  Cancellers = {}
  Dispatcher <- dispatcher
  Timer <- timer
  PRIORITY <- MCPriority
  Messages = {m1}
  Markers = {k1}
  Wrap = 2
PROPERTIES EventuallyDispatched
