------------------------------ MODULE RampScore ------------------------------
(***************************************************************************)
(* A ramp (orchestrator/run/ramp.go): server and client raise the number   *)
(* of connections phase by phase and leave a snapshot file each at the end *)
(* of a phase.  While they run, a watcher of Run judges the pairs and      *)
(* leaves a stop marker at the first break, which the endpoints look for   *)
(* at their phase boundaries, each in its own time.  When both are gone,   *)
(* the scorer judges the files again from the first.                       *)
(*                                                                         *)
(* The accounting is the client's, as in a relay scenario; the server's    *)
(* snapshot only has to be there.  The endpoints are programs of their     *)
(* own, as far as their interface tells.                                   *)
(***************************************************************************)
EXTENDS ScenarioRanges

CONSTANTS
  StartConns, StepConns, TotalConns,  \* the ramp
  SlotInterval, SampleTime            \* one stream per connection, and RampConfig.Sample

ASSUME RampAssumption ==
  /\ {StartConns, StepConns, TotalConns, SlotInterval, SampleTime} \subseteq Nat \ {0}
  /\ StartConns <= TotalConns

Levels == LevelCount(StartConns, StepConns, TotalConns)
Phases == 0..(Levels - 1)
ActiveAt(index) == ActiveConns(index, StartConns, StepConns, TotalConns)
Endpoints == {"server", "client"}

VARIABLES
  snapshot,  \* of each endpoint and phase: "none", "partial" or "whole"
  content,   \* what the client's snapshot of a phase amounts to
  level,     \* the phase each endpoint is in
  endpoint,  \* "running", "writing", "boundary", "stopped" or "dead"
  watchAt,   \* the phase the watcher looks for
  watching,  \* "on", "publishing" or "off"
  marker,    \* the phase named in the stop marker, -1 when there is none
  score      \* what the scorer made of the run: "none" before

rampVars == <<snapshot, content, level, endpoint, watchAt, watching, marker, score>>

RampInit ==
  /\ snapshot = [e \in Endpoints |-> [i \in Phases |-> "none"]]
  /\ content = [i \in Phases |-> "none"]
  /\ level = [e \in Endpoints |-> 0]
  /\ endpoint = [e \in Endpoints |-> "running"]
  /\ watchAt = 0 /\ watching = "on" /\ marker = -1
  /\ score = [kind |-> "none", conns |-> 0]

-----------------------------------------------------------------------------
(* Judging a phase                                                         *)

(* What a snapshot may say: connections in its name, an entry for the      *)
(* traffic, entries of other traffic only or none at all, its slots,       *)
(* whether the deadline is the configured one, and whether the criteria    *)
(* are met.                                                                *)
Snapshots ==
  [conns : 1..TotalConns, entry : {"there", "missing", "empty"}, slots : 0..(TotalConns * (SampleTime + 1)),
   deadline : BOOLEAN, met : BOOLEAN]

(* locateRampSnapshot, EvaluateScenarioMetrics and assessRampTraffic: too  *)
(* little load or coverage is the break that is looked for; too much, or   *)
(* another configuration, or a client's file without any traffic           *)
(* (validateMetricsFile), is an error.                                     *)
Assess(i, s) ==
  LET range == SlotRange(SlotInterval, SampleTime, ActiveAt(i))
      tooMany == \A n \in range : s.slots > n
  IN IF s.conns # ActiveAt(i) \/ s.entry = "empty" THEN "error"
     ELSE IF s.entry = "missing" THEN "break"
     ELSE IF ~s.deadline \/ tooMany THEN "error"
     ELSE IF s.slots \notin range \/ ~s.met THEN "break"
     ELSE "ok"

(* Fault: a snapshot that is half written is taken for one without an      *)
(* entry.                                                                  *)
FaultEvaluate(i) ==
  IF \A e \in Endpoints : snapshot[e][i] = "whole" THEN content[i]
  ELSE IF snapshot["client"][i] = "partial" THEN "break" ELSE "error"

(* evaluateRampPhase: a snapshot that is missing or half written is an     *)
(* error like any other.                                                   *)
Evaluate(i) ==
  IF \A e \in Endpoints : snapshot[e][i] = "whole" THEN content[i] ELSE "error"

-----------------------------------------------------------------------------
(* The endpoints                                                           *)

BeginSnapshot(e) ==
  /\ endpoint[e] = "running"
  /\ endpoint' = [endpoint EXCEPT ![e] = "writing"]
  /\ snapshot' = [snapshot EXCEPT ![e][level[e]] = "partial"]
  /\ IF e = "server" THEN UNCHANGED content
     ELSE \E s \in Snapshots : content' = [content EXCEPT ![level[e]] = Assess(level[e], s)]
  /\ UNCHANGED <<level, watchAt, watching, marker, score>>

EndSnapshot(e) ==
  /\ endpoint[e] = "writing"
  /\ endpoint' = [endpoint EXCEPT ![e] = "boundary"]
  /\ snapshot' = [snapshot EXCEPT ![e][level[e]] = "whole"]
  /\ UNCHANGED <<content, level, watchAt, watching, marker, score>>

(* The end of the ramp, the stop marker, or the next phase                 *)
Boundary(e) ==
  /\ endpoint[e] = "boundary"
  /\ IF level[e] + 1 = Levels \/ marker # -1
     THEN endpoint' = [endpoint EXCEPT ![e] = "stopped"] /\ UNCHANGED level
     ELSE /\ endpoint' = [endpoint EXCEPT ![e] = "running"]
          /\ level' = [level EXCEPT ![e] = @ + 1]
  /\ UNCHANGED <<snapshot, content, watchAt, watching, marker, score>>

Die(e) ==
  /\ endpoint[e] \in {"running", "writing", "boundary"}
  /\ endpoint' = [endpoint EXCEPT ![e] = "dead"]
  /\ UNCHANGED <<snapshot, content, level, watchAt, watching, marker, score>>

Gone == \A e \in Endpoints : endpoint[e] \in {"stopped", "dead"}

-----------------------------------------------------------------------------
(* watchRampSnapshots                                                      *)

(* Any error is tried again 10 ms later.                                   *)
Watch ==
  /\ watching = "on" /\ watchAt < Levels
  /\ \/ Evaluate(watchAt) = "ok" /\ watchAt' = watchAt + 1 /\ UNCHANGED watching
     \/ Evaluate(watchAt) = "break" /\ watching' = "publishing" /\ UNCHANGED watchAt
  /\ UNCHANGED <<snapshot, content, level, endpoint, marker, score>>

(* writeRampStop: the marker appears at once, or not at all.               *)
Publish ==
  /\ watching = "publishing" /\ watching' = "off"
  /\ marker' \in {watchAt, -1}
  /\ UNCHANGED <<snapshot, content, level, endpoint, watchAt, score>>

(* It is canceled when the processes are gone, and waited for 100 ms.      *)
StopWatch ==
  /\ watching = "on" /\ Gone
  /\ watching' = "off"
  /\ UNCHANGED <<snapshot, content, level, endpoint, watchAt, marker, score>>

-----------------------------------------------------------------------------
(* scoreRampSnapshots                                                      *)

FirstUnpassed ==
  CHOOSE i \in 0..Levels :
    /\ \A j \in 0..(i - 1) : Evaluate(j) = "ok"
    /\ i < Levels => Evaluate(i) # "ok"

(* Fault: the snapshots of the last phase are demanded as well.            *)
FaultScoreOf ==
  LET i == FirstUnpassed
  IN IF i = Levels THEN [kind |-> "censored", conns |-> 0]
     ELSE IF Evaluate(i) = "break" /\ Evaluate(Levels - 1) # "error"
     THEN [kind |-> "score", conns |-> ActiveAt(i)]
     ELSE [kind |-> "error", conns |-> 0]

(* The prefix up to the first phase that is not passed; censored only when *)
(* all of them are.                                                        *)
ScoreOf ==
  LET i == FirstUnpassed
  IN IF i = Levels THEN [kind |-> "censored", conns |-> 0]
     ELSE IF Evaluate(i) = "break" THEN [kind |-> "score", conns |-> ActiveAt(i)]
     ELSE [kind |-> "error", conns |-> 0]

(* Run scores once the processes are gone, the watcher slow or not.        *)
Score ==
  /\ Gone /\ score.kind = "none"
  /\ score' = ScoreOf
  /\ UNCHANGED <<snapshot, content, level, endpoint, watchAt, watching, marker>>

RampNext ==
  \/ \E e \in Endpoints : BeginSnapshot(e) \/ EndSnapshot(e) \/ Boundary(e) \/ Die(e)
  \/ Watch \/ Publish \/ StopWatch \/ Score

RampSpec == RampInit /\ [][RampNext]_rampVars

-----------------------------------------------------------------------------
(* The marker that ends a ramp early and the score computed from the files *)
(* afterwards name the same break, whichever endpoint saw the marker first *)
(* and whoever died; without a score nobody was stopped.                   *)
MarkerIsScore ==
  (marker # -1 /\ score.kind # "none") => score = [kind |-> "score", conns |-> ActiveAt(marker)]

(* Stopping early costs no score: when both endpoints end in their own     *)
(* time and the snapshots up to the first break are in order, the ramp has *)
(* a score or is censored, however many snapshots the stop kept from being *)
(* written.                                                                *)
StopLosesNoScore ==
  (score.kind = "error" /\ \A e \in Endpoints : endpoint[e] = "stopped") =>
    \E i \in Phases : content[i] = "error"
=============================================================================
