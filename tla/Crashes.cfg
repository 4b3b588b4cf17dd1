SPECIFICATION MCSpec
CONSTANTS
  Nodes = {1, 2}
  MaxCmd = 1
  Links <- PairLinks
  Authors = {1}
  Inviters = {}
  MaxPackets = 1
  MaxFailures = 0
  MaxCrashes = 2
  Nicks = {bob, longnick, root}
  LongNicks = {longnick}
  System = {root}
  Passwords = {p1, p2}
  NoPassword = NoPassword
  NoLine = NoLine
  MaxCommands = 2
  MaxLines = 3
  MaxRestarts = 2
INVARIANTS
  CrashesAreHarmless
  
  
PROPERTY
  DeliveredInTheEnd
CHECK_DEADLOCK FALSE
