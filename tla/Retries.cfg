\* Two orders in one retry queue: backoffs of 1 and 2 ms, rechecks after 1 ms.
SPECIFICATION Spec
CONSTANTS
  o1 = o1  o2 = o2
  Orders = {o1, o2}
  MaxRetries = 2
  NotReadyMax = 2
  RetryBaseDelay = 1000
  NotReadyDelay = 1000
  LongestDelay = 2
  MaxCrashes = 1
INVARIANTS
  TypeOK
  BoundedWait
  RecheckWindow
  BackoffHonoured
  LateOnlyBehindLonger
PROPERTIES
  RetriesComeBack
