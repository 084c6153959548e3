SPECIFICATION FairSpec
CONSTANTS
  Users = {console}
  Task = task
  Clock = clock
  Boot = boot
  Ids = {a}
  Items <- Plans
  NoItem = NoItem
  NoRun = NoRun
  NoCall = NoCall
  NoId = NoId
  Missing = Missing
  Garbled = Garbled
  MaxItems = 1
  UpTime = 2
  Epoch = 4
  Horizon = 5
  MaxCalls = 2
  MaxFaults = 1
  MaxCrashes = 1
INVARIANTS
  FiringsBounded
  PausedSilent
  DefinitionsKept
  ScheduledHasTime
PROPERTIES
  DueHandled
