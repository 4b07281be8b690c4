SPECIFICATION Spec
CONSTANTS
  a = a
  b = b
  Families = {a, b}
  Vetoes <- VetoOne
  Durables = {FALSE, TRUE}
  Rescores = {FALSE}
  Adaptive = TRUE
  FirstInterval = 1
  AuditInterval = 1
  NormalInterval = 2
  GroupCapacity = 1
  StateCapacity = 2
  TTLs = {1, 2}
  BatchSize = 2
  StartWall = 1
  MaxWall = 3
  MaxElapsed = 2
  MaxEvents = 3
  MaxStops = 1
  MaxSets = 1
INVARIANTS ReuseIsLatest ReuseEnds RefusedNotKept
\* The bounds are reached.
CHECK_DEADLOCK FALSE
