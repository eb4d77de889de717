CONSTANTS
  Procs = {p1, p2}
  Sender = p1
  Receiver = p2
  None = None
  MaxMsg = 3
  Prios = {1, 2}
  MaxSends = 4
  MaxSigs = 1
  Mortal = {p1, p2}
SPECIFICATION PairSpec
INVARIANTS ListsPartitionSlots 
PROPERTIES ImplementsPriorityQueue SignalsOnArrivalOnly AllReceived
CHECK_DEADLOCK FALSE
