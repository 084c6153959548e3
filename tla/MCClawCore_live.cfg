SPECIFICATION FairSpec
CONSTANTS
  c1 = c1
  c2 = c2
  r1 = r1
  l1 = l1
  NoClient = NoClient
  Consoles <- OneConsole
  Routers <- OneRouter
  Listeners <- OneListener
  RequestQueueLen = 1
  ResponseQueueLen = 1
  MaxToolIterations = 2
  MaxRequests = 2
  MaxCancels = 2
INVARIANTS
  CancelledOnlyIfAsked
  EarlyCancelWins
PROPERTIES
  QueuedServed
  CallsReturn
CHECK_DEADLOCK FALSE
