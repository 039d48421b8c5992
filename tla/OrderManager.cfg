CONSTANTS
  Session = {s1, s2, s3}
  Clid = {c1, c2}
  NoOrder = NoOrder
  MaxSize = 3
  max_order_size = 2
  max_open_orders = 1
  MaxCalls = 4
SPECIFICATION Spec
SYMMETRY Interchangeable
INVARIANT TypeOK
INVARIANT OvershootBounded
INVARIANT GaugeExact
INVARIANT SubmitsCounted
INVARIANT VolumeReported
INVARIANT SharesAccounted
INVARIANT NoShareLost
PROPERTY TerminalIsFinal
CHECK_DEADLOCK FALSE
