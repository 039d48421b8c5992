CONSTANTS
  MaxArrivals = 4
  BatchSizes = {3}
  Room = 2
  MaxFailures = 0
  None = None
SPECIFICATION Spec
INVARIANT DrainedAtExit
CHECK_DEADLOCK FALSE
