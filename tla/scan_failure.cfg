SPECIFICATION Spec
CONSTANTS
  StreamCount = 1
  Events = 1
  QueueSize = 1
  BatchSize = 1
  Kinds = {"controller"}
  Caps = {0}
  Holds = {FALSE, TRUE}
INVARIANTS WorkerFailureTold
\* A finished scan stops.
CHECK_DEADLOCK FALSE
