\* A recheck behind another order's backoff in the same retry queue.
SPECIFICATION Spec
CONSTANTS
  o1 = o1  o2 = o2
  Orders = {o1, o2}
  MaxRetries = 2
  NotReadyMax = 1
  RetryBaseDelay = 1000
  NotReadyDelay = 1000
  LongestDelay = 2
  MaxCrashes = 0
INVARIANTS
  BackOnTime
