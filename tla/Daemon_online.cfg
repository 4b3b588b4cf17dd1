SPECIFICATION FairSpec
CONSTANTS
  Peers = {p1}
  NoPeer = NoPeer
  Leaving = {}
  SignalPhases = {}
  MaxSignals = 0
  MaxFaults = 0
PROPERTY
  Reached
CHECK_DEADLOCK FALSE
