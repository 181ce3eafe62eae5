CONSTANTS
  t = t
  r = r
  j = j
  stop = stop
  Token = {t}
  Ref = {r}
  Job = {j}
  Stop = stop
  Uses <- Together
  Capacity = 2
  RuntimeReserve = 0
  Unbounded = 1000
  MaxTasks = 3
  MaxMail = 1
  MaxRequests = 2
SPECIFICATION FairSpec
CHECK_DEADLOCK FALSE
INVARIANTS
  FiringsBacked
  SettledStaysSilent
PROPERTIES
  ReplacedTimeoutWasAwake
  ArmedIsSettled
