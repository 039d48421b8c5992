CONSTANTS
  MaxArrivals = 4
  BatchSizes = {1, 3}
  Room = 2
  MaxFailures = 1
  None = None
SPECIFICATION FairSpec
INVARIANT TypeOK
INVARIANT KeepsFeedOrder
INVARIANT EventsAccounted
INVARIANT LinesLostBounded
PROPERTY Stops
PROPERTY AppliedEventually
CHECK_DEADLOCK FALSE
