SPECIFICATION Spec
CONSTANTS
  Logs <- MixedLogs
  TailLines = 2
  CursorCapacity = 2
  MaxOpens = 3
  MaxPiece = 2
INVARIANTS NothingSkipped NoSilentReplay EvidenceKept FramesWhole
\* The stream returned, or the bound on connections is reached.
CHECK_DEADLOCK FALSE
