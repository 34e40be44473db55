SPECIFICATION Spec
CONSTANTS
  Tasks = {a}
  Priorities = {1}
  Capacities = {128, 129}
  Interrupts = {I1, I2, I3}
  Exceptions = {SysTick, HardFault}
  Fixed = {HardFault}
  LEVELS = 4
  OverflowChecks = TRUE
INVARIANTS NeverPanics
CHECK_DEADLOCK FALSE
