SPECIFICATION RulesSpec
CONSTANTS
  Writers = {agent, task}
  RouterTask = task
  RuleIds = {a, b}
  Bodies = {v, w}
  NoRule = NoRule
  MaxRules = 1
  Missing = Missing
  Garbled = Garbled
SYMMETRY Symmetry
INVARIANTS
  DoneIsKept
  MatchedAlive
PROPERTIES
  RestartAtomic
