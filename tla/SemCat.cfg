CONSTANTS
  Threads = {p1, p2, p3, c1, c2}
  Producers = {p1, p2, p3}
  Consumers = {c1, c2}
  OneProducer = p1
  OneConsumer = c1
  FifoSize = 2
  NoSem = NoSem
  NBUFF = 2
  MaxItems = 5
SPECIFICATION Spec
INVARIANTS  ItemsInOrder SlotsApart
PROPERTY ProgramsEnd
CHECK_DEADLOCK FALSE
