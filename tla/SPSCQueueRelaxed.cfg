CONSTANTS
  Item = {a, b}
  NoItem = NoItem
  Capacity = 4
  MaxBurst = 2
  EarlyReads = {FALSE, TRUE}
  NoSample = NoSample
SPECIFICATION Spec
INVARIANT DeliversPublished
