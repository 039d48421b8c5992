CONSTANTS
  Peer = {p1, p2}
  NoPeer = NoPeer
  Poke = Poke
  Ports = {9100, 9200}
  MaxSignals = 2
SPECIFICATION FairSpec
INVARIANT TypeOK
INVARIANT FramesOutliveThreads
PROPERTY StopEnds
PROPERTY ScrapesAnswered
CHECK_DEADLOCK FALSE
