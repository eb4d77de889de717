CONSTANTS
  Threads = {t1, t2, t3, t4}
  None = None
  Cancellable = {t1, t2, t3, t4}
  WaitErrors = TRUE
  DestroyAlone = TRUE
SPECIFICATION Spec
SYMMETRY Symmetry
INVARIANTS MutualExclusion LocksCounted WaitersCounted
PROPERTIES ImplementsReadersWriter DestroyRefusesLockInUse
CHECK_DEADLOCK FALSE
