\* One client; a crash in a scenario can be called a problem of the environment
SPECIFICATION Spec
CONSTANTS
  Clients = {c1}
  Steps = 1
  Faults = 0
INVARIANT CrashFailsScenario
\* The run is over.
CHECK_DEADLOCK FALSE
