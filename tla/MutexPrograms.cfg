CONSTANTS
  Producers = {p1, p2, p3}
  consumer = consumer
  MaxItems = 3
  MaxRacedItems = 2
  MaxRacers = 2
  MaxN = 2
  MaxT = 3
  FishRoles <- Roles
SPECIFICATION Spec
INVARIANTS ItemsSeen NoMissedSignal OutputWellFormed
PROPERTY MutexProgramsGoOn
CHECK_DEADLOCK FALSE
