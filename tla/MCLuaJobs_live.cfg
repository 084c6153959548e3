SPECIFICATION FairSpec
CONSTANTS
  c1 = c1
  c2 = c2
  a = a
  b = b
  c = c
  g = g
  Clients = {c1, c2}
  Names = {a, b, c}
  Groups = {g}
  NoGroup = NoGroup
  Kinds <- TwoKinds
  TableSize = 2
  MaxConcurrent = 1
  MaxCalls = 2
PROPERTIES
  CallsReturn
  StopReaches
CHECK_DEADLOCK FALSE
