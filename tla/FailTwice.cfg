\* An order whose payment fails twice, two payment instances.
SPECIFICATION Spec
CONSTANTS
  o1 = o1  p1 = p1  p2 = p2  r1 = r1  r2 = r2  d1 = d1  n1 = n1  n2 = n2
  Poison = Poison
  NoMessage = NoMessage
  Orders = {o1}
  Instances = {p1, p2}
  Role <- MCRole
  Behavior <- FailTwice
  FailureMode = "random"
  MaxRetries = 2
  NotReadyMax = 1
  FaultKinds = {"crash", "channel"}
  MaxFaults = 2
\* With every order settled and the queues drained the system has nothing to do.
CHECK_DEADLOCK FALSE
PROPERTIES
  RecoversFromTwoFailures
