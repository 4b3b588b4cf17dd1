SPECIFICATION FairSpec
CONSTANTS
  Threads = {main, s1}
  Main = main
  NoThread = NoThread
  BlockingCalls = {"poll", "read"}
  MaxSignals = 2
INVARIANT
  AlarmGoesOn
PROPERTIES
  DestructorEnds
  NotifiedUnlessSelfLocked
  AnsweredUnlessInterrupted
CHECK_DEADLOCK FALSE
