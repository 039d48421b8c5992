CONSTANTS
  Peer = {}
  NoPeer = NoPeer
  Poke = Poke
  Ports = {9100}
  MaxSignals = 1
SPECIFICATION Spec
INVARIANT RefusedPokeIgnored
CHECK_DEADLOCK FALSE
