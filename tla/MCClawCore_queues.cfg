SPECIFICATION Spec
CONSTANTS
  c1 = c1
  c2 = c2
  r1 = r1
  l1 = l1
  NoClient = NoClient
  Consoles <- TwoConsoles
  Routers <- OneRouter
  Listeners <- Nobody
  RequestQueueLen = 1
  ResponseQueueLen = 1
  MaxToolIterations = 1
  MaxRequests = 3
  MaxCancels = 1
SYMMETRY ConsoleSymmetry
INVARIANTS
  NoMissedPending
  PipelineInOrder

  
CHECK_DEADLOCK FALSE
