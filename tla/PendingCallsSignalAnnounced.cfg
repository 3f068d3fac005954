SPECIFICATION Spec
CONSTANTS
  Main = Main
  Handler = Handler
  Others = {}
  None = None
  NPENDINGCALLS = 2
  NSIG = 2
  MaxTries = 0
  MaxCalls = 0
  MaxSignals = 2
INVARIANTS SignalAnnounced
