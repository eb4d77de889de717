CONSTANTS
  Threads = {t1, t2, t3, t4}
  None = None
  Cancellable = {t1, t2, t3, t4}
  WaitErrors = TRUE
  DestroyAlone = TRUE
SPECIFICATION SpecC
SYMMETRY Symmetry
PROPERTIES ImplementsUntilFailure
CHECK_DEADLOCK FALSE
