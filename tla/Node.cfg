SPECIFICATION MCSpec
CONSTANTS
  Consoles = {c1, c2}
  Daemons = {d1}
  None = None
  MaxRejoins = 1
  MaxReloads = 1
  MaxCrashes = 1
  MaxData = 3
  MaxStops = 3
  MaxErrors = 1
  Interfaces = {u1}
  Listeners = {l1}
  Clients = {n1, n2}
  Header = 2
  TheirTrash = {0, 1}
  OwnTrash = {1}
  MaxFailures = 1
INVARIANTS
  SavedStaysSaved
  DaemonIsFound
  StateSurvives
  CrashKeepsSaved
  Aligned
  CompleteMeansWhole
PROPERTY
  HandshakeEnds
CHECK_DEADLOCK FALSE
