SPECIFICATION FairSpec
INVARIANTS
  TypeOK
  StreamSafe
  CrashOnlyInShutdown
PROPERTIES
  ErrorEnds
  StopEnds
CHECK_DEADLOCK FALSE
