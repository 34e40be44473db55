SPECIFICATION Spec
CONSTANTS
  t1 = t1
  t2 = t2
  m1 = m1
  m2 = m2
  k1 = k1
  k2 = k2
  None = None
  idle = idle
  high = high
  dispatcher = dispatcher
  timer = timer
  Tasks = {t1}
  CAPACITY <- MCCapacity
  Callers = {idle, high}
  Cancellers = {high}
  Dispatcher <- dispatcher
  Timer <- timer
  PRIORITY <- MCPriority
  Messages = {m1}
  Markers = {k1, k2}
  Wrap = 4
INVARIANTS SlotsConserved
