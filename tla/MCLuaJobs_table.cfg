SPECIFICATION Spec
CONSTANTS
  c1 = c1
  c2 = c2
  a = a
  b = b
  c = c
  g = g
  Clients = {c1, c2}
  Names = {a, b, c}
  Groups = {g}
  NoGroup = NoGroup
  Kinds <- GroupKinds
  TableSize = 2
  MaxConcurrent = 2
  MaxCalls = 3
SYMMETRY Symmetry
INVARIANTS
  PlacesExact
  ExclusiveRun
  StopTruthful
CHECK_DEADLOCK FALSE
