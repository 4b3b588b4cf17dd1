SPECIFICATION MCSpec
CONSTANTS
  Plans <- LongPlans
  OutBuf = 8
  OutCache = 12
  InCache = 8
  ZCache = 3
  Groups <- MCGroups
  Joiners = {j1}
  Nobody = Nobody
  MaxCrashes = 0
INVARIANT
  FlushedIsSent
CHECK_DEADLOCK FALSE
