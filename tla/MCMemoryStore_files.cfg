SPECIFICATION Spec
CONSTANTS
  Writers = {agent}
  Main = Main
  Facts = {f, g}
  Long = {}
  Labels = {l, m}
  NoFact = NoFact
  NoLabel = NoLabel
  Garbled = Garbled
  Torn = Torn
  Missing = Missing
  ChangeThreshold = 2
  SizeThreshold = 5
  MaxItems = 2
  MaxIds = 3
  MaxRecalls = 1
  MaxCuts = 2
  MaxFaults = 1
SYMMETRY Symmetry
INVARIANTS
  
  ForgottenStaysGone
  FilesAgree
  RecallsCounted
