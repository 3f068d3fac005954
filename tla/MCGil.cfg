SPECIFICATION FairSpec
CONSTANTS
  Threads = {t1, t2}
  MainThread = t1
  None = None
  MaxEvents = 2
INVARIANTS TypeOK OneHolder RequestHasWaiter SwitchHasTaker AsyncNoticed
PROPERTIES RequestServed HandsOver
