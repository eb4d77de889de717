CONSTANTS
  Threads = {t1, t2, t3}
  None = None
  Cancellable = {t1, t2, t3}
  WaitErrors = FALSE
  DestroyAlone = TRUE
SPECIFICATION SpecC
SYMMETRY Symmetry
INVARIANT NoStrandedReader
CHECK_DEADLOCK FALSE
