\* Rig: three orchestrators, one command that fails.  Loss: a window of three ticks.
\* Load: every rate, phase and length up to the bounds, up to
\* three connections in as many processes.  Ramp: three levels, 1, 3
\* and 4 connections.  Metrics: two processes, two traffic keys, three events.
SPECIFICATION MeasurementSpec
CONSTANTS
  Runs = {r1, r2, r3}
  MaxFailures = 1
  StartAt = 1
  StopAt = 4
  LastTick = 5
  MinLead = 1
  Slack = 1
  Trace <- MCTrace
  MaxReplaced = 1
  WindowAt = 2
  MaxInterval = 4
  MaxDuration = 9
  MaxConns = 3
  StartConns = 1
  StepConns = 2
  TotalConns = 4
  SlotInterval = 2
  SampleTime = 3
  Files = 2
  Traffics = {"input", "state"}
  ClassOf <- MCClassOf
  Receivers = 2
  Bins = {1, 2}
  Threshold = 60
  Rank = 90
  Deadline = 1
  Limit = 1
  MaxEvents = 3
  MaxApart = 1
INVARIANTS
  MeasuresOwnRig
  CleanRunsLeaveNothing
  EvidenceIsInner
  LoadIsInRange
  MarkerIsScore
  StopLosesNoScore
  MergeIsExact
  ShortfallIsAttributed
  WithinLimitIsTrue
PROPERTIES
  PromiseKept
\* Every part comes to its end.
CHECK_DEADLOCK FALSE
