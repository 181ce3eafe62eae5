CONSTANTS
  a = a
  b = b
  c = c
  Actor = {a, b, c}
  Root = {a, b}
  Trapping = {b}
  Reason = {"Error"}
  Capacity = 2
  RuntimeReserve = 1
  Unbounded = 1000
  MaxCalls = 2
SPECIFICATION Spec
CHECK_DEADLOCK FALSE
INVARIANTS
  SpawnLinksBoth
