SPECIFICATION FairSpec
CONSTANTS
  idle = idle
  h1 = h1
  h2a = h2a
  h2b = h2b
  h3 = h3
  h4 = h4
  x = x
  y = y
  z = z
  lf = lf
  Handlers <- MCHandlersFair
  Idle <- idle
  Resources = {x, z}
  LockFree = {}
  PRIORITY <- MCPriorityFair
  Uses <- MCUsesFair
  CEILING <- MCCeilingFair
  LEVELS = 4
  Armv7m = FALSE
INVARIANTS MutualExclusion NoOverBlocking
PROPERTIES InversionEnds
