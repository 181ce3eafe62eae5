CONSTANTS
  a = a
  b = b
  c = c
  Actor = {a, b}
  Root = {a, b}
  Trapping = {b}
  Reason = {"Kill", "Error"}
  Capacity = 2
  RuntimeReserve = 1
  Unbounded = 1000
  MaxCalls = 2
SPECIFICATION Spec
CHECK_DEADLOCK FALSE
INVARIANTS
  IdleMeansParked
