CONSTANTS
  c1 = c1
  c2 = c2
  c3 = c3
  Child = {c1, c2, c3}
  Order <- ThreeChildren
  RestartPolicy <- AllPermanent
  ShutdownPolicy <- Timeouts
  Traps = {c2, c3}
  Flags = {}
  InitialFlags <- OneForAll1
  CrashReasons = {"Normal", "Error"}
  MaxActors = 3
  MaxCrashes = 1
  MaxStartFailures = 0
  MaxRequests = 1
  MaxTime = 0
SPECIFICATION Spec
CHECK_DEADLOCK FALSE
PROPERTIES
  StopsAfterChildren
