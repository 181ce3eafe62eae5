CONSTANTS
  top = top
  sub = sub
  w1 = w1
  Actor = {top, sub, w1}
  Super = {top, sub}
  Kids <- Chain
  Root = top
  MarkedChoices <- Mistaken
  Runtimes = {"concurrent"}
  Called = {sub}
  Target = 1
  Capacity = 2
  RuntimeReserve = 1
  Unbounded = 1000
  MaxSends = 0
  MaxUpgrades = 1
  MaxMail = 1
  MaxStops = 0
SPECIFICATION Spec
CHECK_DEADLOCK FALSE
INVARIANT LeftSuspendedIsNamed
