SPECIFICATION FairSpec
CONSTANTS
  a = a
  b = b
  Bots = {a, b}
  Configured = a
  Tasks = {s, t}
  Batch = 2
  RingSize = 2
  QueueLen = 1
  Scripts <- Traffic
  MaxCalls = 3
  MaxMishaps = 1
INVARIANTS
  ForgottenHandled
  HandedInOrder
  QueueOutlives
PROPERTY
  MessagesHandled
CHECK_DEADLOCK FALSE
