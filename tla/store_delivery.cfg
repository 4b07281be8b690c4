\* Crashes, cancellations and lost answers around every send; what must happen.
SPECIFICATION FairSpec
CONSTANTS
  k1 = k1
  k2 = k2
  o1 = o1
  o2 = o2
  o3 = o3
  Keys <- DeliveryKeys
  Occurrences <- DeliveryOccurrences
  Events <- DeliveryEvents
  Cooldown = 2
  Window = 2
  Recurrence = 2
  MaxEscalation = 1
  Abstention = "review"
  Capacity = 1
  MaxAttempts = 2
  Lease = 2
  Backoff <- TwoBackoffs
  MinTime = 2
  StartTime = 2
  MaxTime = 4
  MaxArrivals = 2
  MaxStops = 2
  MaxRollbacks = 1
PROPERTIES KeepsContract EveryIntentSettles BackpressureResolves
\* With no event to come and the clock at its bound the controller waits.
CHECK_DEADLOCK FALSE
