CONSTANTS
  a1 = a1
  a2 = a2
  a3 = a3
  Actor = {a1, a2, a3}
  Root = {a1, a2}
  Trapping = {a2}
  Reason = {"Kill", "Error"}
  Policy = {"BrutalKill", "Timeout"}
  Capacity = 1
  RuntimeReserve = 0
  Unbounded = 1000
  MaxCalls = 3
SPECIFICATION FairSpec
CHECK_DEADLOCK FALSE
INVARIANTS
  NoLostTurn
  BondsPaired
  ExitsHeard
PROPERTY ShutdownCompletes
