SPECIFICATION FairSpec
CONSTANTS
  StreamCount = 2
  Events = 2
  QueueSize = 1
  BatchSize = 2
  Kinds = {"files", "snapshot", "controller"}
  Caps = {0, 1}
  Holds = {TRUE}
INVARIANTS AdmittedReported CapExact OkMeansAll
PROPERTIES StopEnds KeepsContract
\* A finished scan stops.
CHECK_DEADLOCK FALSE
