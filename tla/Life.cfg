\* The order service with a payment and a notification worker from a cold start.
SPECIFICATION Spec
CONSTANTS
  api = api  pay = pay  notify = notify
  o1 = o1
  NoOrder = NoOrder
  Processes = {api, pay, notify}
  Api = api
  Tables <- MCTables
  Queues <- MCQueues
  Role <- MCRole
  Orders = {o1}
  Retries = 2
  ConnectAttempts = 2
  MaxStops = 1
  MaxFaults = 1
INVARIANTS
  TypeOK
  NoWorkWithoutTables
  RaceCostsOneAttempt
  NoCircularWait
  NothingStranded
  GracefulStop
  AcceptedIsKept
PROPERTIES
  StopHonoured
  BacklogDrains
