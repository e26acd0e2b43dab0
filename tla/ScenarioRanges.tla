--------------------------- MODULE ScenarioRanges ---------------------------
(***************************************************************************)
(* What a workload makes a process count in a measurement window, as the   *)
(* orchestrator computes it (orchestrator/run/scenario_metrics.go), and    *)
(* how it shares connections out and the levels of a ramp                  *)
(* (orchestrator/run/config.go).  Durations and intervals are in the same  *)
(* unit of time.                                                           *)
(***************************************************************************)
EXTENDS Integers

CeilDiv(a, b) == (a + b - 1) \div b

(* expectedSlotRange: a stream with this interval has as many slots in a   *)
(* window as intervals fit, or one more.                                   *)
SlotRange(interval, duration, streams) ==
  (duration \div interval) * streams .. CeilDiv(duration, interval) * streams

(* expectedStalenessSampleRange: one sample of each flow in every period,  *)
(* two more or less, but at least one.                                     *)
SampleRange(duration, period, flows) ==
  LET ticks == CeilDiv(duration, period)
  IN (IF ticks > 2 THEN ticks - 2 ELSE 1) * flows .. (ticks + 2) * flows

(* scenarioMetricCases: the directions in which a scenario has traffic     *)
DirectionsOf(kind) ==
  IF kind = "authoritative_state" THEN {"client_to_server", "server_to_client"}
  ELSE {"room_relay"}

(* scenarioProcessSendsTraffic                                             *)
Sends(role, direction, kind) ==
  IF kind # "authoritative_state" THEN role = "client"
  ELSE <<role, direction>> \in {<<"client", "client_to_server">>, <<"server", "server_to_client">>}

(* expectedLatestFlows: the flows whose latest message a process with      *)
(* local of the total connections follows, and all of them ("merged")      *)
ExpectedFlows(kind, role, direction, local, total) ==
  CASE kind = "environment_baseline" /\ role # "server" -> local
    [] kind = "room_relay" /\ role # "server" -> local * total
    [] kind = "authoritative_state" /\ role = "merged" -> total
    [] kind = "authoritative_state" /\ <<role, direction>> = <<"server", "client_to_server">> -> total
    [] kind = "authoritative_state" /\ <<role, direction>> = <<"client", "server_to_client">> -> local
    [] OTHER -> 0

(* validateScenarioProcessMetrics, of the loss-tolerant class: a sender    *)
(* has as many slots as its streams allow, and everybody follows the flows *)
(* it has to.  A relay accounts for nothing.                               *)
ProcessMetricsOK(kind, role, direction, m, local, total) ==
  \/ role = "server" /\ kind # "authoritative_state"
  \/ /\ Sends(role, direction, kind) =>
          m.slots \in SlotRange(m.interval, m.duration, IF role = "server" THEN total ELSE local)
     /\ m.flows = ExpectedFlows(kind, role, direction, local, total)

(* ValidateScenarioMetricsData, of the merged metrics: something was sent, *)
(* all flows were followed, and sampled as often as the window is long.    *)
MergedMetricsOK(kind, direction, m, total) ==
  /\ m.slots > 0
  /\ m.flows = ExpectedFlows(kind, "merged", direction, total, total)
  /\ m.samples \in SampleRange(m.duration, m.period, m.flows)

(* splitConns: as evenly as it goes, the first processes one more          *)
SplitConns(total, procs) ==
  [i \in 1..procs |-> (total \div procs) + (IF i <= total % procs THEN 1 ELSE 0)]

(* RampConfig.levels and RampConfig.activeConns: from start in steps up to *)
(* total, where the last step is cut short.                                *)
LevelCount(start, step, total) == 1 + CeilDiv(total - start, step)
ActiveConns(index, start, step, total) ==
  IF index > (total - start) \div step THEN total ELSE start + index * step
=============================================================================
