SPECIFICATION MCSpec
CONSTANTS
  Peers = {p1, p2}
  NoPeer = NoPeer
  Leaving = {p1, p2}
  CalmLeaving = {p2}
  CalmSignals = 2
  SignalPhases <- AllPhases
  MaxSignals = 1
  MaxFaults = 1
INVARIANT
  SlotGuarded
PROPERTIES
  
  DaemonIsTornDown
CHECK_DEADLOCK FALSE
