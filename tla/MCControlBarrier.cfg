\* A server and a client; the provisional window starts at 3, one report makes a
\* steady state, and the window can then be moved to 2.
SPECIFICATION FairSpec
CONSTANTS
  server = server
  c1 = c1
  Server = server
  Clients = {c1}
  Warmup = 3
  MinWarmup = 1
  Guard = 1
  Duration = 2
  Drain = 0
  RateInterval = 1
  ReportsNeeded = 1
  MaxClock = 5
INVARIANTS
  BarrierTypeOK
  WindowsAgree
  NothingRejected
PROPERTIES
  RunEnds
