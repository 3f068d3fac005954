SPECIFICATION FairSpec
CONSTANTS
  Threads = {t1, t2, t3}
  MaxPuts = 4
  MaxInterrupts = 2
INVARIANTS TypeOK NoLostWakeUp
PROPERTIES WaiterServed HandsItemsOver
CHECK_DEADLOCK FALSE
