SPECIFICATION Spec
CONSTANTS
  Threads = {t1, t2}
  MainThread = t1
  None = None
  MaxEvents = 0
INVARIANT FinalizesAlone
