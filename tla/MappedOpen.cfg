CONSTANTS
  Procs = {p1, p2}
  MAX_TRIES = 2
  MaxUnlinks = 2
  MaxFailures = 2
  Mortal = {p1, p2}
SPECIFICATION Spec
INVARIANTS LinkedHandleReady ResourcesReleased
PROPERTIES FailureRemovesOwn OpenReturns
CHECK_DEADLOCK FALSE
