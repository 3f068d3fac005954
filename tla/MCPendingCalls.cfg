SPECIFICATION FairSpec
CONSTANTS
  Main = Main
  Handler = Handler
  Others = {o1}
  None = None
  NPENDINGCALLS = 3
  NSIG = 2
  MaxTries = 1
  MaxCalls = 3
  MaxSignals = 2
INVARIANTS TypeOK CallsAnnounced AnnouncedUnlessNested SignalSeen
PROPERTIES RoundEnds HandsCallsOver
CHECK_DEADLOCK FALSE
