SPECIFICATION FairSpec
CONSTANTS
  Messages = {m1, m2, m3}
  None = None
  EventSlots = 2
  RequestSlots = 1
  ExtractSlots = 1
  MaxTools = 1
INVARIANTS
  WaitEnds
PROPERTIES
  InOrder
  LossNeedsLoad
  Settles
CHECK_DEADLOCK FALSE
