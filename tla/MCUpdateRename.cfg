\* One rename is refused.
SPECIFICATION Spec
CONSTANTS
  b1 = b1
  b2 = b2
  b3 = b3
  Builds = {b1, b2, b3}
  VersionOf <- MCVersionOf
  FaultKinds = {"rename"}
  MaxFaults = 1
INVARIANT RestoresPrevious
CHECK_DEADLOCK FALSE
