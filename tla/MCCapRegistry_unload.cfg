SPECIFICATION FairSpec
CONSTANTS
  c1 = c1
  c2 = c2
  x = x
  y = y
  z = z
  pair = pair
  single = single
  Callers = {c1, c2}
  Groups = {pair, single}
  Caps = {x, y, z}
  GroupOf <- TwoGroups
  SlotCount = 3
  NoCap = NoCap
INVARIANTS
  SlotKept
  UnloadAfterCalls
  
PROPERTIES
  ConsoleReturns
