CONSTANTS
  c1 = c1
  c2 = c2
  c3 = c3
  Child = {c1, c2, c3}
  Order <- ThreeChildren
  RestartPolicy <- MixedRestart
  ShutdownPolicy <- Timeouts
  Traps = {c2, c3}
  Flags = {}
  InitialFlags <- OneForAll1
  CrashReasons = {"Normal", "Kill", "Error"}
  MaxActors = 6
  MaxCrashes = 2
  MaxStartFailures = 1
  MaxRequests = 1
  MaxTime = 0
SPECIFICATION FairSpec
CHECK_DEADLOCK FALSE
INVARIANTS
  NoOrphans
  OneInstancePerChild
  ReverseOrder
PROPERTIES
  ShutdownEnds
  PermanentComesBack
