SPECIFICATION MCSpec
CONSTANTS
  Plans <- MCPlans
  OutBuf = 8
  OutCache = 12
  InCache = 8
  ZCache = 3
  Groups <- MCGroups
  Joiners = {j1, j2}
  Nobody = Nobody
  MaxCrashes = 1
INVARIANTS
  NeverDamaged
  StuckOnlyByZlib
  
  InvitedAreWelcomed
PROPERTY
  EverySessionEnds
CHECK_DEADLOCK FALSE
