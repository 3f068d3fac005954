SPECIFICATION FairSpec
CONSTANTS
  Threads = {t1, t2}
  MaxPuts = 1
  MaxInterrupts = 1
PROPERTY TimeoutEnds
CHECK_DEADLOCK FALSE
