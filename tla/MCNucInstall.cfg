CONSTANTS
  k1 = k1
  k2 = k2
  Keys <- MCKeys
  MaxRuns = 3
SPECIFICATION FairSpec
INVARIANTS
  TypeOK
  AtMostOnce
  DistPristine
  RcLocalRuns
  Converges
  OnlyMissedIsLacking
PROPERTIES
  RunEnds
  NotStranded
  ReceiverKept
CHECK_DEADLOCK FALSE
