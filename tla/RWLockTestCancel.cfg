CONSTANTS
  Threads = {r1, r2, w1, w2}
  Readers = {r1, r2}
  Nloop = 2
  MaxSpurious = 2
  None = None
  Cancellable = {w1}
  thread1 = r1
  thread2 = w1
  mainThread = r2
  WaitErrors = FALSE
  DestroyAlone = TRUE
SPECIFICATION TestsSpec
INVARIANTS NoStrandedThread
PROPERTIES EveryThreadFinishes
CHECK_DEADLOCK FALSE
