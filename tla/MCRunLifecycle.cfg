\* A server and a client, a schedule of one step, one failure of the runner's tools.
SPECIFICATION FairSpec
CONSTANTS
  Clients = {c1}
  Steps = 1
  Faults = 1
INVARIANTS
  LifecycleTypeOK
  ValidIsWhole
  NothingOutlivesRun
  RemainingExact
  OutcomeIsJust
PROPERTY RunReturns
\* The run is over.
CHECK_DEADLOCK FALSE
