SPECIFICATION Spec
CONSTANTS
  Nodes = {1, 2, 3}
  MaxCmd = 1
  Links <- NoLinks
  Authors = {1, 2}
  Inviters = {}
  MaxPackets = 3
  MaxFailures = 0
INVARIANTS
  NothingLost
  CausalExecution
  NoCausalDeadlock
  PendingIsExact
