SPECIFICATION FairSpec
CONSTANTS
  Nodes = {1, 2, 3}
  MaxCmd = 1
  Links <- ChainLinks
  Authors = {1}
  Inviters = {2}
  MaxPackets = 0
  MaxFailures = 0
PROPERTIES
  EventuallyExecuted
  EventuallyForgotten
