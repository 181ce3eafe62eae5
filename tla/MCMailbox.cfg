CONSTANTS
  r1 = r1
  t1 = t1
  none = none
  Capacity = 3
  RuntimeReserve = 1
  Unbounded = 1000
  Offers <- MCOffers
  Refs = {r1}
  Wants <- MCWants
  MaxSequence = 4
SPECIFICATION Spec
CHECK_DEADLOCK FALSE
INVARIANTS
  ReserveKept
  WatermarkCoversReply
  ControlTrafficFifo
  OrdinaryFifoUnlessSelective
