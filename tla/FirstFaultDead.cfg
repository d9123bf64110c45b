\* A database error before process() runs.
SPECIFICATION Safety
CONSTANTS
  o1 = o1  p1 = p1  p2 = p2  r1 = r1  r2 = r2  d1 = d1  n1 = n1  n2 = n2
  Poison = Poison
  NoMessage = NoMessage
  Orders = {o1}
  Instances = {p1}
  Role <- MCRole
  Behavior <- Auto
  FailureMode = "random"
  MaxRetries = 1
  NotReadyMax = 1
  FaultKinds = {"database"}
  MaxFaults = 1
\* With every order settled and the queues drained the system has nothing to do.
CHECK_DEADLOCK FALSE
INVARIANTS
  OnlyExhaustedDeadLettered
