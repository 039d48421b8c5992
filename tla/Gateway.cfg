CONSTANTS
  s1 = s1
  s2 = s2
  Session = {s1, s2}
  Fickle = {s2}
  i1 = i1
  i2 = i2
  Clid = {i1, i2}
  NoOrder = NoOrder
  MaxSize = 3
  max_size = 2
  max_open_orders = 1
  Line <- Lines
  MaxLines = 2
  Books = {TRUE, FALSE}
SPECIFICATION FairSpec
INVARIANT TypeOK
INVARIANT FillsFollowAck
INVARIANT CountersMatchAnswers
INVARIANT ClientsAddUp
INVARIANT OneLastReceive
PROPERTY LinesAnswered
CHECK_DEADLOCK FALSE
