CONSTANTS
  k1 = k1
  k2 = k2
  Keys = {k1}
  MaxRuns = 2
SPECIFICATION Spec
INVARIANTS
  DnsmasqInPlace
CHECK_DEADLOCK FALSE
