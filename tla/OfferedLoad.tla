----------------------------- MODULE OfferedLoad -----------------------------
(***************************************************************************)
(* One process of the workload between warm-up and drain: the loop of      *)
(* benchkit (sut.c) sends what its plan says is due (plan.c) and samples   *)
(* the staleness of a flow (bk_metrics_tick in metrics.c), whenever the    *)
(* scheduler lets it run.  Afterwards the orchestrator refuses a run whose *)
(* counts are not those of ScenarioRanges.                                 *)
(*                                                                         *)
(* One stream and one flow stand for those of each connection, which its   *)
(* processes share.                                                        *)
(***************************************************************************)
EXTENDS ScenarioRanges, FiniteSetsExt

CONSTANTS
  WindowAt,      \* the first moment of the window, after the warm-up
  MaxInterval,   \* bound: slot intervals and sampling periods
  MaxDuration,   \* bound: lengths of the window
  MaxConns       \* bound: connections of a run

ASSUME LoadAssumption ==
  /\ {WindowAt, MaxInterval, MaxDuration, MaxConns} \subseteq Nat /\ WindowAt > 0
  /\ 0 < MaxInterval /\ MaxInterval <= MaxDuration

VARIABLES
  load,       \* the interval of the stream, its first slot, the period, the window's length
  clock,      \* when the loop last ran
  nextSlot,   \* next_sched_ns of the stream
  slots,      \* slots counted as measured
  nextSample, \* next_staleness_sample_ns, 0 before the first
  samples     \* samples of the flow

loadVars == <<load, clock, nextSlot, slots, nextSample, samples>>

(* The window is no shorter than an interval - RunConfig.validate - and no *)
(* shorter than the period.  The stream begins by the start of the window: *)
(* a load offered as planned.  (A server whose roster is complete only     *)
(* with its first iteration in the window, sut.c, begins its plan then,    *)
(* and may be short of slots: SutExchange!GateHolds asks for the same.)    *)
LoadInit ==
  /\ load \in {l \in [interval : 1..MaxInterval, first : 0..WindowAt, period : 1..MaxInterval,
                      duration : 1..MaxDuration] : l.duration >= l.period /\ l.duration >= l.interval}
  /\ clock = 0 /\ nextSlot = load.first /\ slots = 0
  /\ nextSample = 0 /\ samples = 0

WindowEnd == WindowAt + load.duration

(* The slots of a stream that are due at a time: from from to upto         *)
Due(from, upto) == {t \in from..upto : (t - from) % load.interval = 0}
LastOf(S) == CHOOSE t \in S : \A u \in S : u <= t

(* Fault: the slot at the window's start is left out.                      *)
FaultMeasured(S) == {t \in S : t > WindowAt /\ t < WindowEnd}
Measured(S) == {t \in S : t >= WindowAt /\ t < WindowEnd}
Count(S) == IF S = {} THEN 0 ELSE 1 + (LastOf(S) - CHOOSE t \in S : \A u \in S : t <= u) \div load.interval

(* An iteration at time t.  In the window every sample that is due is      *)
(* taken, late ones too; slots of the window are sent even after its end,  *)
(* and slots after the window not at all.                                  *)
Iterate(t) ==
  /\ clock < WindowEnd /\ clock' = t
  /\ LET inWindow == WindowAt <= t /\ t < WindowEnd
         next == IF nextSample = 0 THEN t ELSE nextSample
         taken == IF inWindow /\ next <= t THEN 1 + (t - next) \div load.period ELSE 0
         cutoff == IF t < WindowEnd THEN t ELSE WindowEnd - 1
         due == Due(nextSlot, cutoff)
     IN /\ samples' = samples + taken
        /\ nextSample' = IF inWindow THEN next + taken * load.period ELSE nextSample
        /\ slots' = slots + Count(Measured(due))
        /\ nextSlot' = IF due = {} THEN nextSlot ELSE LastOf(due) + load.interval
  /\ UNCHANGED load

(* The loop is held up for at most one period.                             *)
LoadNext == \E t \in (clock + 1)..(clock + load.period) : Iterate(t)

LoadSpec == LoadInit /\ [][LoadNext]_loadVars

-----------------------------------------------------------------------------
(* The flows a process registers with bk_metrics_expect_latest: a client   *)
(* the states of its connections, the server everybody's inputs            *)
Registered(role, direction, local, total) ==
  CASE <<role, direction>> = <<"client", "server_to_client">> -> local
    [] <<role, direction>> = <<"server", "client_to_server">> -> total
    [] OTHER -> 0

(* The counts of a process whose every stream and flow went as this one    *)
CountsOf(streams, flows) ==
  [interval |-> load.interval, duration |-> load.duration, period |-> load.period,
   slots |-> slots * streams, flows |-> flows, samples |-> samples * flows]

(* What the files of a run with procs clients say, each and together, is   *)
(* what the orchestrator expects.                                          *)
Accepted(total, procs) ==
  LET kind == "authoritative_state"
      conns == SplitConns(total, procs)
  IN \A d \in DirectionsOf(kind) :
       LET server == Registered("server", d, total, total)
           Client(i) == Registered("client", d, conns[i], total)
       IN /\ ProcessMetricsOK(kind, "server", d, CountsOf(total, server), total, total)
          /\ \A i \in 1..procs :
               ProcessMetricsOK(kind, "client", d, CountsOf(conns[i], Client(i)), conns[i], total)
          /\ MergedMetricsOK(kind, d, CountsOf(total, server + SumFunction([i \in 1..procs |-> Client(i)])), total)

(* Processes whose loops are never held up for longer than one sampling    *)
(* period are never refused for their counts: whatever the rate, however   *)
(* the window lies across the slots, wherever the hold-ups fall, and       *)
(* however the connections are shared out.                                 *)
LoadIsInRange ==
  clock >= WindowEnd => \A total \in 1..MaxConns : \A procs \in 1..total : Accepted(total, procs)
=============================================================================
