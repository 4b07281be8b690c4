SPECIFICATION FairSpec
CONSTANTS
  Events <- MCEvents
  Weak = {"b"}
  Queries = {"q"}
  Budgets = {1, 2}
  BatchSize = 1
  CacheCapacity = 2
  TTL = 2
  MaxRuns = 2
  MaxClock = 3
INVARIANTS SearchHonest ReuseSound
PROPERTIES SearchEnds
\* No more searches.
CHECK_DEADLOCK FALSE
