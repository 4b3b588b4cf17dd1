SPECIFICATION FairSpec
CONSTANTS
  n1 = n1
  n2 = n2
  c1 = c1
  Nodes = {n1, n2}
  None = None
  Plans <- MCPlans
INVARIANT
  SilentMeansAgreed
PROPERTY
  FallsSilent
CHECK_DEADLOCK FALSE
