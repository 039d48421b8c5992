CONSTANTS
  MaxArrivals = 2
  BatchSizes = {1}
  Room = 2
  MaxFailures = 0
  None = None
SPECIFICATION Spec
INVARIANT EveryMessageParsed
CHECK_DEADLOCK FALSE
