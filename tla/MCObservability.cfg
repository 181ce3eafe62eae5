CONSTANTS
  root = root
  kid = kid
  Nobody = Nobody
  Actor = {root, kid}
  Parent <- Family
  Uses <- Together
  MaxMail = 2
  MaxRequests = 2
SPECIFICATION FairSpec
CHECK_DEADLOCK FALSE
INVARIANTS
  CursorReadsOnce
  TraceIsTrue
  ObservedAll
PROPERTIES
  IdleWaitEnds
