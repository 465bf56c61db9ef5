\* The row of a running job races with cancel.
SPECIFICATION Spec
CONSTANTS
  Jobs = {j1}
  Clients = {c1}
  MaxWorkers = 1
  MaxMishaps = 0
INVARIANT FailurePersisted
CHECK_DEADLOCK FALSE
