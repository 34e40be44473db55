SPECIFICATION FairSpec
CONSTANTS
  Apps <- MCApps
  Exceptions = {"SysTick", "PendSV"}
  LEVELS = 4
  MaxEvents = 6
INVARIANTS TypeOK InitialisedBeforeUse FailsOnlyInInit RunsAtItsPriority NoAliasing
PROPERTIES PriorityFixed ComesToRest
CHECK_DEADLOCK FALSE
