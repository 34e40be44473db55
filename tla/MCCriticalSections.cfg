SPECIFICATION Spec
CONSTANTS
  idle = idle
  h1 = h1
  h2a = h2a
  h2b = h2b
  h3 = h3
  h4 = h4
  x = x
  y = y
  z = z
  lf = lf
  Handlers <- MCHandlers
  Idle <- idle
  Resources = {x, y, z}
  LockFree = {lf}
  PRIORITY <- MCPriority
  Uses <- MCUses
  CEILING <- MCCeiling
  LEVELS = 4
  Armv7m = TRUE
INVARIANTS TypeOK MutualExclusion BasepriInvariant NoOverBlocking
PROPERTIES NoContenderStarts
