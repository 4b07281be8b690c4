\* Replayed events and evictions in full tables.
SPECIFICATION Spec
CONSTANTS
  k1 = k1
  k2 = k2
  o1 = o1
  o2 = o2
  o3 = o3
  Keys <- DeliveryKeys
  Occurrences <- CapacityOccurrences
  Events <- CapacityEvents
  Cooldown = 1
  Window = 2
  Recurrence = 2
  MaxEscalation = 1
  Abstention = "review"
  Capacity = 1
  MaxAttempts = 1
  Lease = 1
  Backoff <- OneBackoff
  MinTime = 2
  StartTime = 2
  MaxTime = 3
  MaxArrivals = 4
  MaxStops = 1
  MaxRollbacks = 0
INVARIANTS TablesAgree NoticesCoolDown
\* With no event to come and the clock at its bound the controller waits.
CHECK_DEADLOCK FALSE
