CONSTANTS
  Item = {a, b}
  NoItem = NoItem
  Capacity = 4
  MaxBurst = 2
  EarlyReads = {FALSE}
  NoSample = NoSample
SPECIFICATION Spec
INVARIANT TypeOK
INVARIANT NoDataRace
INVARIANT DeliversPublished
INVARIANT GaugeInRange
PROPERTY ImplementsChannel
