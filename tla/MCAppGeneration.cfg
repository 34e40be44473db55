SPECIFICATION Spec
CONSTANTS
  Tasks = {a, b}
  Priorities = {1, 3, 4, 5}
  Capacities = {1, 3, 64}
  Interrupts = {I1, I2, I3}
  Exceptions = {SysTick, HardFault}
  Fixed = {HardFault}
  LEVELS = 4
  OverflowChecks = TRUE
INVARIANTS TypeOK DispatchersAssigned HardwareOrder QueuesLargeEnough NeverPanics
CHECK_DEADLOCK FALSE
