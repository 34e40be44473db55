SPECIFICATION FairSpec
CONSTANTS
  None = None
  Capacity = 3
  Half = 4
  Past = 1
  Ahead = 2
  Latency = 1
  MaxCalls = 4
INVARIANTS TypeOK EntriesAreArmed SilentWhenEmpty
PROPERTIES ReleasedInOrder EventuallyReleased
