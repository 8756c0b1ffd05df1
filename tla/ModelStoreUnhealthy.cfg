SPECIFICATION Spec
CONSTANTS
  Apis = {a1}
  Trainings = 2
  Keep = 2
  MaxFaults = 0
  a1 = a1
  None = None
INVARIANT ServesOnlyHealthy
CHECK_DEADLOCK FALSE
