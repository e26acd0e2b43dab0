\* A server and two clients; the window of one starts at 2, or at 1 if it is moved, and
\* one connection is lost, at one of its ends.
SPECIFICATION Spec
CONSTANTS
  server = server
  c1 = c1
  c2 = c2
  Server = server
  Clients = {c1, c2}
  Start = 2
  Early = 1
  Duration = 1
  Drain = 2
  InputInterval = 2
  StateInterval = 2
  MaxLosses = 1
SYMMETRY Symmetry
INVARIANTS
  SutTypeOK
  AccountsExact
  RosterExact
  GateHolds
\* The run is over when all are done, or one has failed.
CHECK_DEADLOCK FALSE
