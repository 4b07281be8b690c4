SPECIFICATION CollectorFairSpec
CONSTANTS
  s1 = s1
  s2 = s2
  s3 = s3
  w1 = w1
  w2 = w2
  Sources <- MCSources
  Workers <- MCWorkers
  MaxStreams = 2
  MaxReaders = 3
INVARIANTS SlotsKept EndTold
PROPERTIES CollectEnds
\* The collection returned.
CHECK_DEADLOCK FALSE
