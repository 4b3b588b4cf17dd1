SPECIFICATION Spec
CONSTANTS
  Nodes = {1, 2}
  MaxCmd = 2
  Links <- PairLinks
  Authors = {1}
  Inviters = {2}
  MaxPackets = 1
  MaxFailures = 1
INVARIANTS
  NoGaps
  NotFoundIsHarmless
PROPERTY
  ImplementsCausalBroadcast
