SPECIFICATION Spec
CONSTANTS
  Workers = {w1, w2, w3}
  Racers = {w1, w2}
  main = main
  Nobody = Nobody
  nloop = 2
  MAX_TRIES = 2
  MaxSets = 2
  MaxDeaths = 1
  Kids = {w1, w2, w3}
  Par = main
  RaceTries = 2
  Rounds = 2
  MaxKills = 2
  MaxRestarts = 2
  Openers = {w1, w2}
  OpenTries = 1
  InitVal = 2
  MaxUnlink = 1
  MaxFiles = 3
  Shells = {w1, w2}
  MaxCommands = 5
  MaxObjects = 2
  MaxPages = 2
  MsgTypes = {1, 2}
  MAX_DATA = 3
  MAX_NMESG = 3
  MAX_NIDS = 3
  MaxKMesg = 4
  MaxKQueue = 5
  MaxKIds = 4
INVARIANTS CounterExact LostBounded UnitExact LocksSound OpenSound ObjectsConserve
PROPERTIES ObjectsEnd
CHECK_DEADLOCK FALSE
