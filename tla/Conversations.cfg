SPECIFICATION Spec
CONSTANTS
  cli1 = cli1
  cli2 = cli2
  cli3 = cli3
  Clients <- Three
  server = server
  Lines <- LinesOf
  NoFile = NoFile
  MaxCapacity = 3
  MaxDeaths = 1
  parent = parent
  child = child
  MaxBlocks = 2
  PipeCapacity = 1
  MaxPipeDeaths = 1
  FifoClients <- Three
  Blocks <- BlocksOf
  FifoCapacity = 1
  MaxFifoDeaths = 1
  RingClients = {cli1, cli2}
  NMESG = 2
  NLoop = 2
  DClients = {dc1, dc2}
  NoOne = NoOne
  MaxThreads = 3
  MaxServerDeaths = 1
  RClients = {2, 3}
  NThreads = 2
  MaxSends = 2
  MaxTotal = 5
  MaxXfer = 3
  BRounds = 2
  BCapacity = 2
  SizeofLong = 1
  MaxMsgs = 5
  MaxWorkers = 2
  SigqueueMax = 9
  PingRounds = 3
  MaxInput = 4
  PipeSize = 3
  BufSize = 2
  MaxLens = {1, 2, 3}
  MaxSignals = 2
  Usecs = 2
INVARIANTS AnswersOwn ServersSound ResultsOwn RunsBounded  SignalsKept CallsRepeated
 
CHECK_DEADLOCK FALSE
