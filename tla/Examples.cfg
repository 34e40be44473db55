SPECIFICATION FairSpec
CONSTANTS
  Apps <- AllExamples
  MaxTime = 4
INVARIANTS TypeOK HeldAlone PrintsExpected UnwrapsSucceed
PROPERTIES Finishes
CHECK_DEADLOCK FALSE
