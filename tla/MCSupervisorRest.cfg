CONSTANTS
  c1 = c1
  c2 = c2
  c3 = c3
  Child = {c1, c2, c3}
  Order <- ThreeChildren
  RestartPolicy <- MixedRestart
  ShutdownPolicy <- MixedShutdown
  Traps = {c2}
  Flags <- NewFlags
  InitialFlags <- RestForOne1
  CrashReasons = {"Normal", "Error"}
  MaxActors = 6
  MaxCrashes = 2
  MaxStartFailures = 0
  MaxRequests = 2
  MaxTime = 2
SPECIFICATION Spec
CHECK_DEADLOCK FALSE
PROPERTIES
  IntensityRespected
